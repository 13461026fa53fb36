----------------------------- MODULE MCKnowledge -----------------------------
(* The algorithms of the document pipeline and of the retriever for TLC, one  *)
(* after the other: a run writes a text or makes a retrieval.                  *)
EXTENDS DocumentText, Retrieval, TLC

CONSTANTS k1, k2, k3, c1, c2, paper

MCOwner == k1 :> c1 @@ k2 :> c2 @@ k3 :> paper

Init ==
    /\ TextInit
    /\ RagInit

WriteText ==
    /\ pc = "idle" /\ ready = {} /\ \A l \in Levels : attached[l] = {}
    /\ grade = [p \in Pieces |-> Min(Grades)]
    /\ TextNext
    /\ UNCHANGED ragVars

Retrieve ==
    /\ text = <<>> /\ size = Min(Sizes) /\ overlap = Min(Overlaps)
    /\ RagNext
    /\ UNCHANGED textVars

Next == WriteText \/ Retrieve

Spec == Init /\ [][Next]_<<textVars, ragVars>>

=============================================================================
