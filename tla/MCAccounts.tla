----------------------------- MODULE MCAccounts -----------------------------
(***************************************************************************)
(* An instance of Accounts for TLC: the platform with two app_admins, a    *)
(* university with an org_admin, and one address without an account.       *)
(***************************************************************************)
EXTENDS Accounts, TLC

CONSTANTS uni, root, deputy, chair, newcomer

SeedUserRows ==
  (root :> User(Platform, root, "app_admin") @@
   deputy :> User(Platform, deputy, "app_admin") @@
   chair :> User(uni, chair, "org_admin"))

RequestSymmetry == Permutations(Requests)

=============================================================================
