------------------------- MODULE MCActivityLibrary -------------------------
(***************************************************************************)
(* An instance of ActivityLibrary for TLC: one thread type, two modules,   *)
(* the platform's seeded entry.  The integrity check approved the text c1  *)
(* for every entry of the module external, saved or new.                   *)
(***************************************************************************)
EXTENDS ActivityLibrary, TLC

CONSTANTS reads, external, student, root, orgadmin, c1, plat, org1

SlotSet == {"platform", "org"} \X {plat, org1} \X {reads}
SeededSet == {<<"platform", plat, reads>>}
AdminOf == [s \in {"platform", "org"} |-> IF s = "platform" THEN root ELSE orgadmin]
Approved1 ==
  {[key |-> <<s, reads, external, e>>, content |-> c1] :
     s \in {"platform", "org"}, e \in Requests \cup SeededSet \cup {None}}
  \cup {[key |-> <<"org", reads, student, None>>, content |-> SeedText]}

RequestSymmetry == Permutations(Requests)

=============================================================================
