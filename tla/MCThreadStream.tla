--------------------------- MODULE MCThreadStream ---------------------------
(***************************************************************************)
(* Instances of ThreadStream for TLC.                                      *)
(***************************************************************************)
EXTENDS ThreadStream, TLC

StreamSymmetry == Permutations(Streams) \cup Permutations(Sends)

=============================================================================
