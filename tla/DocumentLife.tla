---------------------------- MODULE DocumentLife ----------------------------
(***************************************************************************)
(* What the rest of the system sees of uploaded documents: each commit of  *)
(* an upload, of the document worker, of an acknowledgment or of a         *)
(* deletion changes one document at once, and a document that is ready has *)
(* been scanned and has the index its load strategy calls for.             *)
(* DocumentPipeline implements this; IntegrityGate builds on it.           *)
(***************************************************************************)
CONSTANTS
  Docs,        \* documents that may be uploaded
  Kb,          \* those of knowledge base collections
  Papers,      \* those of the task; what is left belongs to threads
  Long,        \* those above the full text threshold
  Suspicious   \* those a scan does not find clean

VARIABLE doc

Scans(d) == d \in Kb \cup Papers

Indexes(d) == d \in Kb \cup Long

View ==
  [status : {"absent", "pending", "ready", "failed"}, strategy : {"full", "rag"},
   scanned : BOOLEAN, acked : BOOLEAN, deleted : BOOLEAN, indexed : BOOLEAN]

Absent(d) ==
  [status |-> "absent", strategy |-> IF d \in Kb THEN "rag" ELSE "full",
   scanned |-> FALSE, acked |-> FALSE, deleted |-> FALSE, indexed |-> FALSE]

Init == doc = [d \in Docs |-> Absent(d)]

Upload(d) ==
  /\ doc[d].status = "absent"
  /\ doc' = [doc EXCEPT ![d].status = "pending"]

Process(d) ==
  /\ doc[d].status # "absent"
  /\ doc' = [doc EXCEPT ![d] = [@ EXCEPT
       !.status = "ready",
       !.strategy = IF Indexes(d) THEN "rag" ELSE "full",
       !.scanned = Scans(d),
       !.indexed = Indexes(d)]]

\* A failure leaves no trace but the status, or the strategy too if the document
\* was being split, or the report as well if its embeddings failed.
Fail(d) ==
  /\ doc[d].status # "absent"
  /\ \/ doc' = [doc EXCEPT ![d].status = "failed"]
     \/ /\ Indexes(d)
        /\ doc' = [doc EXCEPT ![d] = [@ EXCEPT !.status = "failed", !.strategy = "rag"]]
     \/ /\ Indexes(d)
        /\ doc' = [doc EXCEPT ![d] = [@ EXCEPT
             !.status = "failed", !.strategy = "rag", !.scanned = Scans(d)]]

Acknowledge(d) ==
  /\ doc[d].scanned /\ d \in Suspicious /\ ~doc[d].deleted
  /\ doc' = [doc EXCEPT ![d].acked = TRUE]

Delete(d) ==
  /\ d \in Kb /\ doc[d].status # "absent"
  /\ doc' = [doc EXCEPT ![d].deleted = TRUE]

Change(d) == Upload(d) \/ Process(d) \/ Fail(d) \/ Acknowledge(d) \/ Delete(d)

Next == \E d \in Docs : Change(d)

Spec == Init /\ [][Next]_doc

TypeOK == doc \in [Docs -> View]

=============================================================================
