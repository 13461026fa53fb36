--------------------------- MODULE MCIntegrityGate ---------------------------
(***************************************************************************)
(* Instances of IntegrityGate for TLC.                                     *)
(***************************************************************************)
EXTENDS IntegrityGate, TLC

CONSTANTS kb, short, long, lib

ClusterSymmetry == Permutations(Clusters)

\* Bound: one document at a time.  Documents meet only in the verdict of the gate,
\* where another one can only block.
OneDocument == \A d, e \in Docs : doc[d].status # "absent" /\ doc[e].status # "absent" => d = e

AllInLib == [d \in Kb |-> lib]

=============================================================================
