-------------------------- MODULE DocumentPipeline --------------------------
(***************************************************************************)
(* Uploaded documents on their way to being usable: the upload request,    *)
(* the DocumentProcessing SQS queue, the workers that extract, scan, chunk *)
(* and embed, and the user who acknowledges a warning or deletes a         *)
(* document meanwhile.                                                     *)
(*                                                                         *)
(* A request and a message are each one transaction; the file is put into  *)
(* S3 and the message is sent before the request's transaction commits.    *)
(* rows and chunks hold what is committed, a job what its worker has not   *)
(* committed yet.  A file never changes once it is stored, so its content  *)
(* hash is a constant of the document: a report with the same hash exists  *)
(* exactly if the document was scanned before.                             *)
(***************************************************************************)
EXTENDS Integers, FiniteSets

CONSTANTS
  Docs,         \* documents, each uploaded by one request
  Kb,           \* documents of knowledge base collections
  Papers,       \* documents of tasks; the rest are documents of threads
  Long,         \* documents longer than the full text threshold
  Suspicious,   \* documents a scan does not find clean
  Workers,      \* processes polling the queue
  MaxAborts,    \* bound: transactions and deletes that are lost
  MaxTimeouts   \* bound: visibility timeouts under a working worker

ASSUME DocumentAssumption ==
  /\ Kb \subseteq Docs
  /\ Papers \subseteq Docs \ Kb
  /\ Long \subseteq Docs
  /\ Suspicious \subseteq Docs
  /\ MaxAborts \in Nat
  /\ MaxTimeouts \in Nat

VARIABLES
  rows,     \* committed kb_documents, task_documents and thread_documents rows
  stored,   \* the documents whose file is in S3
  chunks,   \* committed document_chunks: the batches indexed for a document
  queue,    \* queue[d]: visible messages naming document d
  upload,   \* the upload requests
  job,      \* what each worker is doing
  runs,     \* runs[d]: how often d was received, it numbers the batches
  faults    \* how much of each fault bound is used

vars == <<rows, stored, chunks, queue, upload, job, runs, faults>>

-----------------------------------------------------------------------------
Scans(d) == d \in Kb \cup Papers

Indexes(d) == d \in Kb \cup Long

\* A row before it exists, with the values an insert gives it.
NewRow(d) ==
  [status |-> "absent", strategy |-> IF d \in Kb THEN "rag" ELSE "full",
   scanned |-> FALSE, acked |-> FALSE, deleted |-> FALSE]

IdleJob(d) ==
  [pc |-> "idle", doc |-> d, leased |-> FALSE, run |-> 0,
   base |-> NewRow(d), row |-> NewRow(d), removed |-> {}, added |-> {}]

Init ==
  /\ rows = [d \in Docs |-> NewRow(d)]
  /\ stored = {}
  /\ chunks = [d \in Docs |-> {}]
  /\ queue = [d \in Docs |-> 0]
  /\ upload = [d \in Docs |-> "idle"]
  /\ \E d \in Docs : job = [w \in Workers |-> IdleJob(d)]
  /\ runs = [d \in Docs |-> 0]
  /\ faults = [aborts |-> 0, timeouts |-> 0]

-----------------------------------------------------------------------------
(***************************************************************************)
(* Upload: the row is flushed and the file put into S3, the message is     *)
(* sent, the transaction commits or is lost.                               *)
(***************************************************************************)
UploadStore(d) ==
  /\ upload[d] = "idle"
  /\ upload' = [upload EXCEPT ![d] = "stored"]
  /\ stored' = stored \cup {d}
  /\ UNCHANGED <<rows, chunks, queue, job, runs, faults>>

UploadSend(d) ==
  /\ upload[d] = "stored"
  /\ upload' = [upload EXCEPT ![d] = "sent"]
  /\ queue' = [queue EXCEPT ![d] = @ + 1]
  /\ UNCHANGED <<rows, stored, chunks, job, runs, faults>>

UploadCommit(d) ==
  /\ upload[d] = "sent"
  /\ upload' = [upload EXCEPT ![d] = "done"]
  /\ rows' = [rows EXCEPT ![d].status = "pending"]
  /\ UNCHANGED <<stored, chunks, queue, job, runs, faults>>

UploadAbort(d) ==
  /\ upload[d] \in {"stored", "sent"}
  /\ faults.aborts < MaxAborts
  /\ upload' = [upload EXCEPT ![d] = "aborted"]
  /\ faults' = [faults EXCEPT !.aborts = @ + 1]
  /\ UNCHANGED <<rows, stored, chunks, queue, job, runs>>

-----------------------------------------------------------------------------
(***************************************************************************)
(* A worker receives a message and loads the row.  A row that is not there *)
(* raises DocumentNotFoundError, which is swallowed: the message is        *)
(* deleted.  The flush of status PROCESSING takes the row's lock; that     *)
(* status is never committed.                                              *)
(***************************************************************************)
Receive(w, d) ==
  /\ job[w].pc = "idle"
  /\ queue[d] > 0
  /\ queue' = [queue EXCEPT ![d] = @ - 1]
  /\ runs' = [runs EXCEPT ![d] = @ + 1]
  /\ job' = [job EXCEPT ![w] =
       [IdleJob(d) EXCEPT
          !.pc = IF rows[d].status = "absent" THEN "ack" ELSE "loaded",
          !.leased = TRUE,
          !.run = runs[d] + 1,
          !.base = rows[d],
          !.row = rows[d]]]
  /\ UNCHANGED <<rows, stored, chunks, upload, faults>>

PollEmpty(w) ==
  /\ job[w].pc = "idle"
  /\ \A d \in Docs : queue[d] = 0
  /\ UNCHANGED vars

HoldsRow(w) == job[w].pc \in {"extracting", "chunking", "embedding", "commit"}

\* Mutation: no lock keeps a second worker out.
RowFree_NoLock(d) == TRUE

RowFree(d) == \A w \in Workers : HoldsRow(w) => job[w].doc # d

Begin(w) ==
  /\ job[w].pc = "loaded"
  /\ RowFree(job[w].doc)
  /\ job' = [job EXCEPT ![w].pc = "extracting"]
  /\ UNCHANGED <<rows, stored, chunks, queue, upload, runs, faults>>

\* Download or extraction raises, or (chunking) the chunker or the scan, or
\* (embedding) Bedrock: the row is marked failed, with what has been set on it, and
\* the exception ends in _process_payload, which commits.
ProcessFails(w) ==
  /\ job[w].pc \in {"extracting", "chunking", "embedding"}
  /\ job' = [job EXCEPT ![w] =
       [@ EXCEPT !.pc = "commit", !.row = [job[w].row EXCEPT !.status = "failed"]]]
  /\ UNCHANGED <<rows, stored, chunks, queue, upload, runs, faults>>

\* _persist_integrity_report: an acknowledgment is kept if there was a report.
\* Mutation: every scan clears it.
Reported_Clears(row, d) ==
  IF Scans(d) THEN [row EXCEPT !.scanned = TRUE, !.acked = FALSE] ELSE row

Reported(row, d) ==
  IF Scans(d)
  THEN [row EXCEPT !.scanned = TRUE, !.acked = row.scanned /\ row.acked]
  ELSE row

\* A short paper or thread document needs no index: earlier chunks are deleted.
ScanShort(w) ==
  LET d == job[w].doc IN
  /\ job[w].pc = "extracting"
  /\ ~Indexes(d)
  /\ job' = [job EXCEPT ![w] = [@ EXCEPT
       !.pc = "commit",
       !.row = [Reported(job[w].row, d) EXCEPT !.status = "ready", !.strategy = "full"],
       !.removed = chunks[d]]]
  /\ UNCHANGED <<rows, stored, chunks, queue, upload, runs, faults>>

\* What needs an index gets its strategy first and is then split and scanned.
ChooseIndex(w) ==
  /\ job[w].pc = "extracting"
  /\ Indexes(job[w].doc)
  /\ job' = [job EXCEPT ![w] = [@ EXCEPT
       !.pc = "chunking",
       !.row = [job[w].row EXCEPT !.strategy = "rag"]]]
  /\ UNCHANGED <<rows, stored, chunks, queue, upload, runs, faults>>

ScanLong(w) ==
  /\ job[w].pc = "chunking"
  /\ job' = [job EXCEPT ![w] = [@ EXCEPT
       !.pc = "embedding",
       !.row = Reported(job[w].row, job[w].doc)]]
  /\ UNCHANGED <<rows, stored, chunks, queue, upload, runs, faults>>

\* The embeddings are there: chunks indexed before are deleted, new ones added.
Reindex(w) ==
  /\ job[w].pc = "embedding"
  /\ job' = [job EXCEPT ![w] = [@ EXCEPT
       !.pc = "commit",
       !.row = [job[w].row EXCEPT !.status = "ready"],
       !.removed = chunks[job[w].doc],
       !.added = {job[w].run}]]
  /\ UNCHANGED <<rows, stored, chunks, queue, upload, runs, faults>>

\* An UPDATE carries the columns that differ from the loaded row; the status
\* differs from the PROCESSING that was flushed.
Changed(old, new, current) == IF new # old THEN new ELSE current

\* Mutation: it carries every column.
Written_WholeRow(base, row, current) == row

Written(base, row, current) ==
  [status |-> row.status,
   strategy |-> Changed(base.strategy, row.strategy, current.strategy),
   scanned |-> Changed(base.scanned, row.scanned, current.scanned),
   acked |-> Changed(base.acked, row.acked, current.acked),
   deleted |-> Changed(base.deleted, row.deleted, current.deleted)]

Commit(w) ==
  LET j == job[w] IN
  /\ j.pc = "commit"
  /\ rows' = [rows EXCEPT ![j.doc] = Written(j.base, j.row, @)]
  /\ chunks' = [chunks EXCEPT ![j.doc] = (@ \ j.removed) \cup j.added]
  /\ job' = [job EXCEPT ![w] = [IdleJob(j.doc) EXCEPT !.pc = "ack", !.leased = j.leased]]
  /\ UNCHANGED <<stored, queue, upload, runs, faults>>

-----------------------------------------------------------------------------
(***************************************************************************)
(* The message after processing: deleted, or visible again because the     *)
(* commit failed, the worker was lost or the visibility timeout passed.    *)
(***************************************************************************)
\* Mutation: the message is deleted although nothing was committed.
GivesBack_Drops(w) ==
  /\ queue' = queue
  /\ job' = [job EXCEPT ![w] = IdleJob(job[w].doc)]

GivesBack(w) ==
  /\ queue' = IF job[w].leased THEN [queue EXCEPT ![job[w].doc] = @ + 1] ELSE queue
  /\ job' = [job EXCEPT ![w] = IdleJob(job[w].doc)]

Abort(w) ==
  /\ job[w].pc \notin {"idle", "ack"}
  /\ faults.aborts < MaxAborts
  /\ faults' = [faults EXCEPT !.aborts = @ + 1]
  /\ GivesBack(w)
  /\ UNCHANGED <<rows, stored, chunks, upload, runs>>

Ack(w) ==
  /\ job[w].pc = "ack"
  /\ job' = [job EXCEPT ![w] = IdleJob(job[w].doc)]
  /\ UNCHANGED <<rows, stored, chunks, queue, upload, runs, faults>>

AckLost(w) ==
  /\ job[w].pc = "ack"
  /\ faults.aborts < MaxAborts
  /\ faults' = [faults EXCEPT !.aborts = @ + 1]
  /\ GivesBack(w)
  /\ UNCHANGED <<rows, stored, chunks, upload, runs>>

VisibilityTimeout(w) ==
  /\ job[w].pc # "idle"
  /\ job[w].leased
  /\ faults.timeouts < MaxTimeouts
  /\ faults' = [faults EXCEPT !.timeouts = @ + 1]
  /\ job' = [job EXCEPT ![w].leased = FALSE]
  /\ queue' = [queue EXCEPT ![job[w].doc] = @ + 1]
  /\ UNCHANGED <<rows, stored, chunks, upload, runs>>

-----------------------------------------------------------------------------
(***************************************************************************)
(* The user.  Both requests read the row, wait for its lock and write; what *)
(* they read (a report, the deletion) is not changed back by anybody, so   *)
(* reading and writing are one step.                                       *)
(***************************************************************************)
Acknowledge(d) ==
  /\ rows[d].scanned
  /\ d \in Suspicious
  /\ ~rows[d].deleted
  /\ RowFree(d)
  /\ rows' = [rows EXCEPT ![d].acked = TRUE]
  /\ UNCHANGED <<stored, chunks, queue, upload, job, runs, faults>>

DeleteDocument(d) ==
  /\ d \in Kb
  /\ rows[d].status # "absent"
  /\ RowFree(d)
  /\ rows' = [rows EXCEPT ![d].deleted = TRUE]
  /\ UNCHANGED <<stored, chunks, queue, upload, job, runs, faults>>

-----------------------------------------------------------------------------
Uploading(d) == UploadSend(d) \/ UploadCommit(d) \/ UploadAbort(d)

Work(w) ==
  \/ \E d \in Docs : Receive(w, d)
  \/ Begin(w)
  \/ ProcessFails(w)
  \/ ScanShort(w)
  \/ ChooseIndex(w)
  \/ ScanLong(w)
  \/ Reindex(w)
  \/ Commit(w)
  \/ Ack(w)

Next ==
  \/ \E d \in Docs : UploadStore(d) \/ Uploading(d) \/ Acknowledge(d) \/ DeleteDocument(d)
  \/ \E w \in Workers : Work(w) \/ PollEmpty(w) \/ Abort(w) \/ AckLost(w) \/ VisibilityTimeout(w)

Spec == Init /\ [][Next]_vars

\* An upload that has begun ends, and workers poll and work for ever.
Fairness ==
  /\ \A d \in Docs : WF_vars(Uploading(d))
  /\ \A w \in Workers : WF_vars(Work(w))

FairSpec == Spec /\ Fairness

\* Assumption, not ensured by the code: no message is received before the
\* upload that sent it has committed or failed.
TimelyDelivery ==
  \A w \in Workers :
    job[w].pc = "idle" /\ job'[w].pc # "idle" => upload[job'[w].doc] # "sent"

TimelySpec == Init /\ [][Next /\ TimelyDelivery]_vars /\ Fairness

-----------------------------------------------------------------------------
Row ==
  [status : {"absent", "pending", "ready", "failed"}, strategy : {"full", "rag"},
   scanned : BOOLEAN, acked : BOOLEAN, deleted : BOOLEAN]

Job ==
  [pc : {"idle", "loaded", "extracting", "chunking", "embedding", "commit", "ack"}, doc : Docs,
   leased : BOOLEAN, run : Nat, base : Row, row : Row,
   removed : SUBSET Nat, added : SUBSET Nat]

TypeOK ==
  /\ rows \in [Docs -> Row]
  /\ stored \subseteq Docs
  /\ chunks \in [Docs -> SUBSET Nat]
  /\ queue \in [Docs -> Nat]
  /\ upload \in [Docs -> {"idle", "stored", "sent", "done", "aborted"}]
  /\ job \in [Workers -> Job]
  /\ runs \in [Docs -> Nat]
  /\ faults \in [aborts : Nat, timeouts : Nat]

-----------------------------------------------------------------------------
(***************************************************************************)
(* Properties.                                                             *)
(***************************************************************************)
\* The index matches the row: a document never has two generations of chunks,
\* and a ready one has exactly the chunks its load strategy calls for, although
\* redelivered messages index it again and two workers may do so at once.
IndexMatches ==
  \A d \in Docs :
    /\ Cardinality(chunks[d]) <= 1
    /\ rows[d].status = "ready" =>
         /\ rows[d].strategy = "rag" <=> Indexes(d)
         /\ chunks[d] # {} <=> rows[d].strategy = "rag"

\* Nothing becomes usable unscanned: a ready document of a knowledge base or a
\* task has an integrity report, and a report only disappears with its row.
ReadyIsScanned ==
  \A d \in Docs : Scans(d) /\ rows[d].status = "ready" => rows[d].scanned

\* What the user decided stays decided: no reprocessing, early, late or
\* concurrent, revokes an acknowledgment of the same content or a deletion.
KeepsDecisions ==
  \A d \in Docs :
    /\ rows[d].acked => rows'[d].acked
    /\ rows[d].deleted => rows'[d].deleted

DecisionsStay == [][KeepsDecisions]_rows

\* Every upload that was accepted is processed in the end: ready or failed.
EveryUploadSettles ==
  \A d \in Docs : rows[d].status = "pending" ~> rows[d].status \in {"ready", "failed"}

-----------------------------------------------------------------------------
\* To its readers the pipeline is the life of DocumentLife, in which a document
\* changes in one step: a failure leaves the index of the last success, and what
\* is committed of a document is one of the outcomes DocumentLife lists.
LifeDoc ==
  [d \in Docs |->
    [status |-> rows[d].status, strategy |-> rows[d].strategy,
     scanned |-> rows[d].scanned, acked |-> rows[d].acked,
     deleted |-> rows[d].deleted, indexed |-> chunks[d] # {}]]

Life == INSTANCE DocumentLife WITH doc <- LifeDoc

ImplementsLife == Life!Spec

=============================================================================
