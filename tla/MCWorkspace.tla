---------------------------- MODULE MCWorkspace ----------------------------
(***************************************************************************)
(* An instance of Workspace and ApiStart for TLC: two users of an          *)
(* organisation, ann, the development user, with an Assignment, a paper in *)
(* it and a collection, and bob with a project.                            *)
(***************************************************************************)
EXTENDS ApiStart, TLC

CONSTANTS ann, bob, course, project, essay, shelf, sample, other

Clusters0 == (course :> [owner |-> ann, type |-> "assignment", name |-> sample] @@
              project :> [owner |-> bob, type |-> "project", name |-> other])
Tasks0 == (essay :> [owner |-> ann, module |-> SPR, cluster |-> course, title |-> other])
Collections0 == (shelf :> ann)

RequestSymmetry == Permutations(Requests)

=============================================================================
