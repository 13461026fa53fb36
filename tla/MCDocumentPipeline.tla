------------------------- MODULE MCDocumentPipeline -------------------------
(***************************************************************************)
(* Instances of DocumentPipeline for TLC: a document of a knowledge base,  *)
(* a short and a long paper, a document of a thread.                       *)
(***************************************************************************)
EXTENDS DocumentPipeline, TLC

CONSTANTS kb, short, long, thread

WorkerSymmetry == Permutations(Workers)

=============================================================================
