---------------------------- MODULE DocumentProofs ----------------------------
(***************************************************************************)
(* Documents from the upload to the answer: proofs about DocumentPipeline, *)
(* DocumentText and Retrieval.                                             *)
(*                                                                         *)
(* The pipeline: its types, that the index matches the row, that nothing   *)
(* becomes ready unscanned, that the user's decisions stay, and that it    *)
(* implements DocumentLife.                                                *)
(*                                                                         *)
(* The text: windows are cut at multiples of a stride, and the first one   *)
(* that reaches past the end of a phrase begins at or before its start.    *)
(* Sections are the intervals between heads.  When a token follows, every  *)
(* chunk has a successor at the same place that holds at least as much, so *)
(* that no count of findings falls.                                        *)
(*                                                                         *)
(* The retrieval: what was read of a collection nobody touched is so; a    *)
(* first search that found fewer than asked for found everything above its *)
(* threshold, and the second cannot leave out any of it.                   *)
(***************************************************************************)
EXTENDS DocumentPipeline, DocumentText, Retrieval, FiniteSetTheorems, TLAPS

(***************************************************************************)
(* Types.                                                                  *)
(***************************************************************************)
LEMMA NewRowType == ASSUME NEW d \in Docs PROVE NewRow(d) \in Row
BY DEF NewRow, Row

LEMMA IdleJobType == ASSUME NEW d \in Docs PROVE IdleJob(d) \in Job
BY NewRowType DEF IdleJob, Job

LEMMA ReportedType ==
  ASSUME NEW d \in Docs, NEW row \in Row
  PROVE  /\ Reported(row, d) \in Row
         /\ Reported(row, d).status = row.status
         /\ Reported(row, d).strategy = row.strategy
         /\ Reported(row, d).deleted = row.deleted
         /\ Reported(row, d).scanned = IF Scans(d) THEN TRUE ELSE row.scanned
         /\ Reported(row, d).acked = IF Scans(d) THEN row.scanned /\ row.acked ELSE row.acked
<1> DEFINE acked == row.scanned /\ row.acked
<1>1. acked \in BOOLEAN
  BY DEF Row
<1>2. Reported(row, d) =
        IF Scans(d) THEN [row EXCEPT !.scanned = TRUE, !.acked = acked] ELSE row
  BY DEF Reported
<1> HIDE DEF acked
<1>3. CASE Scans(d)
  <2>1. Reported(row, d) = [row EXCEPT !.scanned = TRUE, !.acked = acked]
    BY <1>2, <1>3
  <2>2. /\ Reported(row, d) \in Row
        /\ Reported(row, d).status = row.status
        /\ Reported(row, d).strategy = row.strategy
        /\ Reported(row, d).deleted = row.deleted
        /\ Reported(row, d).scanned = TRUE
        /\ Reported(row, d).acked = acked
    BY <2>1, <1>1 DEF Row
  <2> QED BY <2>2, <1>3 DEF acked
<1>4. CASE ~Scans(d)
  BY <1>2, <1>4
<1> QED BY <1>3, <1>4

LEMMA WrittenType ==
  ASSUME NEW base \in Row, NEW row \in Row, NEW current \in Row
  PROVE  Written(base, row, current) \in Row
BY DEF Written, Changed, Row

LEMMA TypeInit == Init => TypeOK
<1> SUFFICES ASSUME Init PROVE TypeOK
  OBVIOUS
<1>1. rows \in [Docs -> Row]
  BY NewRowType DEF Init
<1>2. job \in [Workers -> Job]
  BY IdleJobType DEF Init
<1> QED BY <1>1, <1>2 DEF Init, TypeOK

\* An action that changes one row to a row keeps the type of rows; and so on.
LEMMA RowMove ==
  ASSUME TypeOK, NEW d \in Docs, NEW v, rows' = [rows EXCEPT ![d] = v]
  PROVE  /\ rows'[d] = v
         /\ \A e \in Docs \ {d} : rows'[e] = rows[e]
         /\ v \in Row => rows' \in [Docs -> Row]
BY DEF TypeOK

LEMMA JobMove ==
  ASSUME TypeOK, NEW w \in Workers, NEW v, job' = [job EXCEPT ![w] = v]
  PROVE  /\ job'[w] = v
         /\ \A u \in Workers \ {w} : job'[u] = job[u]
         /\ v \in Job => job' \in [Workers -> Job]
BY DEF TypeOK

LEMMA JobFields ==
  ASSUME TypeOK, NEW w \in Workers
  PROVE  /\ job[w] \in Job
         /\ job[w].doc \in Docs
         /\ job[w].base \in Row
         /\ job[w].row \in Row
         /\ rows[job[w].doc] \in Row
BY DEF TypeOK, Job

(***************************************************************************)
(* What each step of a worker makes of its job.                            *)
(***************************************************************************)
LEMMA AfterReceive ==
  ASSUME TypeOK, NEW w \in Workers, NEW d \in Docs, Receive(w, d)
  PROVE  /\ job'[w] \in Job
         /\ job'[w].pc = IF rows[d].status = "absent" THEN "ack" ELSE "loaded"
         /\ job'[w].doc = d
         /\ job'[w].base = rows[d]
         /\ job'[w].row = rows[d]
         /\ job'[w].removed = {}
         /\ job'[w].added = {}
<1> DEFINE at == IF rows[d].status = "absent" THEN "ack" ELSE "loaded"
           run == runs[d] + 1
           row == rows[d]
           v == [IdleJob(d) EXCEPT !.pc = at, !.leased = TRUE, !.run = run, !.base = row, !.row = row]
<1>1. at \in {"loaded", "ack"} /\ run \in Nat /\ row \in Row
  BY DEF TypeOK
<1>2. job'[w] = v
  <2>1. job' = [job EXCEPT ![w] = v]
    BY DEF Receive
  <2> HIDE DEF v
  <2> QED BY <2>1, JobMove
<1>3. IdleJob(d) \in Job /\ IdleJob(d).doc = d /\ IdleJob(d).removed = {} /\ IdleJob(d).added = {}
  BY IdleJobType DEF IdleJob
<1>4. /\ v \in Job /\ v.pc = at /\ v.doc = d /\ v.base = row /\ v.row = row
      /\ v.removed = {} /\ v.added = {}
  <2> HIDE DEF at, run, row
  <2> QED BY <1>1, <1>3 DEF Job
<1> HIDE DEF v
<1> QED BY <1>2, <1>4

LEMMA AfterBegin ==
  ASSUME TypeOK, NEW w \in Workers, Begin(w)
  PROVE  /\ job'[w] \in Job
         /\ job'[w] = [job[w] EXCEPT !.pc = "extracting"]
<1>1. job'[w] = [job[w] EXCEPT !.pc = "extracting"]
  BY JobMove DEF Begin
<1> QED BY <1>1, JobFields DEF Job

LEMMA AfterFail ==
  ASSUME TypeOK, NEW w \in Workers, ProcessFails(w)
  PROVE  /\ job'[w] \in Job
         /\ job'[w].pc = "commit"
         /\ job'[w].doc = job[w].doc
         /\ job'[w].base = job[w].base
         /\ job'[w].row = [job[w].row EXCEPT !.status = "failed"]
         /\ job'[w].removed = job[w].removed
         /\ job'[w].added = job[w].added
<1> DEFINE row == [job[w].row EXCEPT !.status = "failed"]
<1>1. row \in Row
  BY JobFields DEF Row
<1>2. job' = [job EXCEPT ![w] = [job[w] EXCEPT !.pc = "commit", !.row = row]]
  BY DEF ProcessFails
<1> HIDE DEF row
<1>3. job'[w] = [job[w] EXCEPT !.pc = "commit", !.row = row]
  BY <1>2, JobMove
<1>4. /\ job'[w] \in Job /\ job'[w].pc = "commit" /\ job'[w].doc = job[w].doc
      /\ job'[w].base = job[w].base /\ job'[w].row = row
      /\ job'[w].removed = job[w].removed /\ job'[w].added = job[w].added
  BY <1>1, <1>3, JobFields DEF Job
<1> QED BY <1>4 DEF row

LEMMA AfterScanShort ==
  ASSUME TypeOK, NEW w \in Workers, ScanShort(w)
  PROVE  /\ job'[w] \in Job
         /\ job'[w].pc = "commit"
         /\ job'[w].doc = job[w].doc
         /\ job'[w].base = job[w].base
         /\ job'[w].row =
              [Reported(job[w].row, job[w].doc) EXCEPT !.status = "ready", !.strategy = "full"]
         /\ job'[w].removed = chunks[job[w].doc]
         /\ job'[w].added = job[w].added
<1> DEFINE row ==
             [Reported(job[w].row, job[w].doc) EXCEPT !.status = "ready", !.strategy = "full"]
           removed == chunks[job[w].doc]
<1>1. row \in Row /\ removed \in SUBSET Nat
  <2>1. Reported(job[w].row, job[w].doc) \in Row
    BY JobFields, ReportedType
  <2>2. removed \in SUBSET Nat
    BY JobFields DEF TypeOK
  <2> QED BY <2>1, <2>2 DEF Row
<1>2. job' = [job EXCEPT ![w] = [job[w] EXCEPT !.pc = "commit", !.row = row, !.removed = removed]]
  BY DEF ScanShort
<1> HIDE DEF row, removed
<1>3. job'[w] = [job[w] EXCEPT !.pc = "commit", !.row = row, !.removed = removed]
  BY <1>2, JobMove
<1>4. /\ job'[w] \in Job /\ job'[w].pc = "commit" /\ job'[w].doc = job[w].doc
      /\ job'[w].base = job[w].base /\ job'[w].row = row
      /\ job'[w].removed = removed /\ job'[w].added = job[w].added
  BY <1>1, <1>3, JobFields DEF Job
<1> QED BY <1>4 DEF row, removed

LEMMA AfterChooseIndex ==
  ASSUME TypeOK, NEW w \in Workers, ChooseIndex(w)
  PROVE  /\ job'[w] \in Job
         /\ job'[w].pc = "chunking"
         /\ job'[w].doc = job[w].doc
         /\ job'[w].base = job[w].base
         /\ job'[w].row = [job[w].row EXCEPT !.strategy = "rag"]
         /\ job'[w].removed = job[w].removed
         /\ job'[w].added = job[w].added
<1> DEFINE row == [job[w].row EXCEPT !.strategy = "rag"]
<1>1. row \in Row
  BY JobFields DEF Row
<1>2. job' = [job EXCEPT ![w] = [job[w] EXCEPT !.pc = "chunking", !.row = row]]
  BY DEF ChooseIndex
<1> HIDE DEF row
<1>3. job'[w] = [job[w] EXCEPT !.pc = "chunking", !.row = row]
  BY <1>2, JobMove
<1>4. /\ job'[w] \in Job /\ job'[w].pc = "chunking" /\ job'[w].doc = job[w].doc
      /\ job'[w].base = job[w].base /\ job'[w].row = row
      /\ job'[w].removed = job[w].removed /\ job'[w].added = job[w].added
  BY <1>1, <1>3, JobFields DEF Job
<1> QED BY <1>4 DEF row

LEMMA AfterScanLong ==
  ASSUME TypeOK, NEW w \in Workers, ScanLong(w)
  PROVE  /\ job'[w] \in Job
         /\ job'[w].pc = "embedding"
         /\ job'[w].doc = job[w].doc
         /\ job'[w].base = job[w].base
         /\ job'[w].row = Reported(job[w].row, job[w].doc)
         /\ job'[w].removed = job[w].removed
         /\ job'[w].added = job[w].added
<1> DEFINE row == Reported(job[w].row, job[w].doc)
<1>1. row \in Row
  BY JobFields, ReportedType
<1>2. job' = [job EXCEPT ![w] = [job[w] EXCEPT !.pc = "embedding", !.row = row]]
  BY DEF ScanLong
<1> HIDE DEF row
<1>3. job'[w] = [job[w] EXCEPT !.pc = "embedding", !.row = row]
  BY <1>2, JobMove
<1>4. /\ job'[w] \in Job /\ job'[w].pc = "embedding" /\ job'[w].doc = job[w].doc
      /\ job'[w].base = job[w].base /\ job'[w].row = row
      /\ job'[w].removed = job[w].removed /\ job'[w].added = job[w].added
  BY <1>1, <1>3, JobFields DEF Job
<1> QED BY <1>4 DEF row

LEMMA AfterReindex ==
  ASSUME TypeOK, NEW w \in Workers, Reindex(w)
  PROVE  /\ job'[w] \in Job
         /\ job'[w].pc = "commit"
         /\ job'[w].doc = job[w].doc
         /\ job'[w].base = job[w].base
         /\ job'[w].row = [job[w].row EXCEPT !.status = "ready"]
         /\ job'[w].removed = chunks[job[w].doc]
         /\ job'[w].added = {job[w].run}
<1> DEFINE row == [job[w].row EXCEPT !.status = "ready"]
           removed == chunks[job[w].doc]
           added == {job[w].run}
<1>1. row \in Row /\ removed \in SUBSET Nat /\ added \in SUBSET Nat
  <2>1. row \in Row
    BY JobFields DEF Row
  <2>2. removed \in SUBSET Nat
    BY JobFields DEF TypeOK
  <2>3. added \in SUBSET Nat
    BY JobFields DEF Job
  <2> QED BY <2>1, <2>2, <2>3
<1>2. job' = [job EXCEPT ![w] = [job[w] EXCEPT !.pc = "commit", !.row = row,
                                              !.removed = removed, !.added = added]]
  BY DEF Reindex
<1> HIDE DEF row, removed, added
<1>3. job'[w] = [job[w] EXCEPT !.pc = "commit", !.row = row,
                               !.removed = removed, !.added = added]
  BY <1>2, JobMove
<1>4. /\ job'[w] \in Job /\ job'[w].pc = "commit" /\ job'[w].doc = job[w].doc
      /\ job'[w].base = job[w].base /\ job'[w].row = row
      /\ job'[w].removed = removed /\ job'[w].added = added
  BY <1>1, <1>3, JobFields DEF Job
<1> QED BY <1>4 DEF row, removed, added

LEMMA AfterCommit ==
  ASSUME TypeOK, NEW w \in Workers, Commit(w)
  PROVE  /\ job'[w] \in Job
         /\ job'[w].pc = "ack"
         /\ job'[w].doc = job[w].doc
<1> DEFINE v == [IdleJob(job[w].doc) EXCEPT !.pc = "ack", !.leased = job[w].leased]
<1>1. job'[w] = v
  BY JobMove DEF Commit
<1>2. IdleJob(job[w].doc) \in Job /\ IdleJob(job[w].doc).doc = job[w].doc
  BY JobFields, IdleJobType DEF IdleJob
<1>3. v \in Job /\ v.pc = "ack" /\ v.doc = job[w].doc
  BY <1>2, JobFields DEF Job
<1> HIDE DEF v
<1> QED BY <1>1, <1>3

\* A worker that gives up, or is done, is idle.
LEMMA AfterIdle ==
  ASSUME TypeOK, NEW w \in Workers, job' = [job EXCEPT ![w] = IdleJob(job[w].doc)]
  PROVE  /\ job'[w] \in Job
         /\ job'[w].pc = "idle"
<1>1. job'[w] = IdleJob(job[w].doc)
  BY JobMove
<1> QED BY <1>1, JobFields, IdleJobType DEF IdleJob

LEMMA AfterTimeout ==
  ASSUME TypeOK, NEW w \in Workers, VisibilityTimeout(w)
  PROVE  /\ job'[w] \in Job
         /\ job'[w] = [job[w] EXCEPT !.leased = FALSE]
<1>1. job'[w] = [job[w] EXCEPT !.leased = FALSE]
  BY JobMove DEF VisibilityTimeout
<1> QED BY <1>1, JobFields DEF Job

\* Every step of a worker leaves the other workers' jobs alone.
LEMMA JobsType ==
  ASSUME TypeOK, NEW w \in Workers,
         \/ \E d \in Docs : Receive(w, d)
         \/ Begin(w) \/ ProcessFails(w) \/ ScanShort(w) \/ ChooseIndex(w) \/ ScanLong(w)
         \/ Reindex(w) \/ Commit(w) \/ Ack(w) \/ Abort(w) \/ AckLost(w) \/ VisibilityTimeout(w)
  PROVE  /\ job' \in [Workers -> Job]
         /\ \A u \in Workers \ {w} : job'[u] = job[u]
<1>1. job'[w] \in Job
  BY AfterReceive, AfterBegin, AfterFail, AfterScanShort, AfterChooseIndex, AfterScanLong, AfterReindex,
     AfterCommit, AfterIdle, AfterTimeout DEF Ack, Abort, AckLost, GivesBack
<1>2. PICK v : job' = [job EXCEPT ![w] = v]
  <2>1. ASSUME NEW d \in Docs, Receive(w, d) PROVE \E v : job' = [job EXCEPT ![w] = v]
    BY <2>1 DEF Receive
  <2>2. CASE Begin(w)
    BY <2>2 DEF Begin
  <2>3. CASE ProcessFails(w)
    BY <2>3 DEF ProcessFails
  <2>4. CASE ScanShort(w)
    BY <2>4 DEF ScanShort
  <2>5. CASE ChooseIndex(w) \/ ScanLong(w)
    BY <2>5 DEF ChooseIndex, ScanLong
  <2>6. CASE Reindex(w)
    BY <2>6 DEF Reindex
  <2>7. CASE Commit(w)
    BY <2>7 DEF Commit
  <2>8. CASE Ack(w) \/ Abort(w) \/ AckLost(w)
    BY <2>8 DEF Ack, Abort, AckLost, GivesBack
  <2>9. CASE VisibilityTimeout(w)
    BY <2>9 DEF VisibilityTimeout
  <2> QED BY <2>1, <2>2, <2>3, <2>4, <2>5, <2>6, <2>7, <2>8, <2>9
<1>3. job'[w] = v /\ \A u \in Workers \ {w} : job'[u] = job[u]
  BY <1>2, JobMove
<1> QED BY <1>1, <1>2, <1>3, JobMove

LEMMA TypeStep == TypeOK /\ [Next]_vars => TypeOK'
<1> SUFFICES ASSUME TypeOK, [Next]_vars PROVE TypeOK'
  OBVIOUS
<1>1. ASSUME NEW d \in Docs, UploadStore(d) PROVE TypeOK'
  BY <1>1 DEF UploadStore, TypeOK
<1>2. ASSUME NEW d \in Docs, UploadSend(d) PROVE TypeOK'
  BY <1>2 DEF UploadSend, TypeOK
<1>3. ASSUME NEW d \in Docs, UploadCommit(d) PROVE TypeOK'
  <2>1. rows' = [rows EXCEPT ![d] = [rows[d] EXCEPT !.status = "pending"]]
    BY <1>3 DEF UploadCommit
  <2>2. [rows[d] EXCEPT !.status = "pending"] \in Row
    BY DEF TypeOK, Row
  <2>3. rows' \in [Docs -> Row]
    BY <2>1, <2>2, RowMove
  <2> QED BY <1>3, <2>3 DEF UploadCommit, TypeOK
<1>4. ASSUME NEW d \in Docs, UploadAbort(d) PROVE TypeOK'
  BY <1>4 DEF UploadAbort, TypeOK
<1>5. ASSUME NEW d \in Docs, Acknowledge(d) \/ DeleteDocument(d) PROVE TypeOK'
  <2>1. \/ rows' = [rows EXCEPT ![d] = [rows[d] EXCEPT !.acked = TRUE]]
        \/ rows' = [rows EXCEPT ![d] = [rows[d] EXCEPT !.deleted = TRUE]]
    BY <1>5 DEF Acknowledge, DeleteDocument
  <2>2. /\ [rows[d] EXCEPT !.acked = TRUE] \in Row
        /\ [rows[d] EXCEPT !.deleted = TRUE] \in Row
    BY DEF TypeOK, Row
  <2>3. rows' \in [Docs -> Row]
    BY <2>1, <2>2, RowMove
  <2> QED BY <1>5, <2>3 DEF Acknowledge, DeleteDocument, TypeOK
<1>6. ASSUME NEW w \in Workers, NEW d \in Docs, Receive(w, d) PROVE TypeOK'
  <2>1. job' \in [Workers -> Job]
    BY <1>6, JobsType
  <2> QED BY <1>6, <2>1 DEF Receive, TypeOK
<1>7. ASSUME NEW w \in Workers, Begin(w) \/ ProcessFails(w) \/ ScanShort(w) \/ ChooseIndex(w)
                                \/ ScanLong(w) \/ Reindex(w) \/ Ack(w)
      PROVE  TypeOK'
  <2>1. job' \in [Workers -> Job]
    BY <1>7, JobsType
  <2>2. UNCHANGED <<rows, stored, chunks, queue, upload, runs, faults>>
    BY <1>7 DEF Begin, ProcessFails, ScanShort, ChooseIndex, ScanLong, Reindex, Ack
  <2> QED BY <2>1, <2>2 DEF TypeOK
<1>8. ASSUME NEW w \in Workers, Commit(w) PROVE TypeOK'
  <2>1. job' \in [Workers -> Job]
    BY <1>8, JobsType
  <2> DEFINE d == job[w].doc
             row == Written(job[w].base, job[w].row, rows[d])
             kept == (chunks[d] \ job[w].removed) \cup job[w].added
  <2>2. rows' = [rows EXCEPT ![d] = row] /\ chunks' = [chunks EXCEPT ![d] = kept]
    BY <1>8 DEF Commit
  <2>3. d \in Docs /\ row \in Row
    BY JobFields, WrittenType
  <2>4. kept \in SUBSET Nat
    BY <2>3, JobFields DEF TypeOK, Job
  <2> HIDE DEF d, row, kept
  <2>5. rows' \in [Docs -> Row] /\ chunks' \in [Docs -> SUBSET Nat]
    BY <2>2, <2>3, <2>4 DEF TypeOK
  <2> QED BY <1>8, <2>1, <2>5 DEF Commit, TypeOK
<1>9. ASSUME NEW w \in Workers, Abort(w) \/ AckLost(w) PROVE TypeOK'
  <2>1. job' \in [Workers -> Job]
    BY <1>9, JobsType
  <2>2. queue' \in [Docs -> Nat]
    BY <1>9 DEF Abort, AckLost, GivesBack, TypeOK
  <2> QED BY <1>9, <2>1, <2>2 DEF Abort, AckLost, TypeOK
<1>10. ASSUME NEW w \in Workers, VisibilityTimeout(w) PROVE TypeOK'
  <2>1. job' \in [Workers -> Job]
    BY <1>10, JobsType
  <2>2. queue' \in [Docs -> Nat]
    <3> DEFINE d == job[w].doc
    <3>1. queue' = [queue EXCEPT ![d] = queue[d] + 1]
      BY <1>10 DEF VisibilityTimeout
    <3>2. queue \in [Docs -> Nat] /\ d \in Docs
      BY JobFields DEF TypeOK
    <3> HIDE DEF d
    <3> QED BY <3>1, <3>2
  <2>3. faults' \in [aborts : Nat, timeouts : Nat]
    BY <1>10 DEF VisibilityTimeout, TypeOK
  <2>4. UNCHANGED <<rows, stored, chunks, upload, runs>>
    BY <1>10 DEF VisibilityTimeout
  <2> QED BY <2>1, <2>2, <2>3, <2>4 DEF TypeOK
<1>11. CASE UNCHANGED vars
  BY <1>11 DEF vars, TypeOK
<1> QED BY <1>1, <1>2, <1>3, <1>4, <1>5, <1>6, <1>7, <1>8, <1>9, <1>10, <1>11
        DEF Next, Uploading, Work, PollEmpty

\* Every variable keeps its type.
THEOREM TypeCorrect == Spec => []TypeOK
BY TypeInit, TypeStep, PTL DEF Spec

(***************************************************************************)
(* The inductive invariant.  A row and its chunks fit together; a job that *)
(* is under way has read a row that may have moved on since, but only to   *)
(* more (a report, the strategy rag); what it will write is a failure or   *)
(* the whole of a processed document; and while it holds the row's lock no *)
(* other job for the document does.                                        *)
(***************************************************************************)
RowOK(d) ==
  /\ upload[d] # "done" => rows[d].status = "absent"
  /\ rows[d].scanned => Scans(d)
  /\ rows[d].acked => rows[d].scanned
  /\ rows[d].strategy = "rag" => Indexes(d)
  /\ chunks[d] = {} \/ \E n \in Nat : chunks[d] = {n}
  /\ rows[d].status = "ready" =>
       /\ Scans(d) => rows[d].scanned
       /\ Indexes(d) => rows[d].strategy = "rag" /\ chunks[d] # {}
       /\ ~Indexes(d) => chunks[d] = {}

Active(w) == job[w].pc \in {"loaded", "extracting", "chunking", "embedding", "commit"}

\* What a job has read is still so in the row.
BaseOK(w) ==
  LET j == job[w] IN
  /\ rows[j.doc].status # "absent"
  /\ j.base.scanned => rows[j.doc].scanned
  /\ j.base.acked => j.base.scanned
  /\ j.base.strategy = "rag" => rows[j.doc].strategy = "rag"
  /\ j.row.acked = j.base.acked
  /\ j.row.deleted = j.base.deleted

Unscanned(w) ==
  /\ job[w].row.scanned = job[w].base.scanned
  /\ job[w].row.strategy = job[w].base.strategy
  /\ job[w].removed = {} /\ job[w].added = {}

ChosenLong(w) ==
  /\ Indexes(job[w].doc)
  /\ job[w].row.scanned = job[w].base.scanned
  /\ job[w].row.strategy = "rag"
  /\ job[w].removed = {} /\ job[w].added = {}

ScannedLong(w) ==
  /\ Indexes(job[w].doc)
  /\ job[w].row.scanned = Scans(job[w].doc)
  /\ job[w].row.strategy = "rag"
  /\ job[w].removed = {} /\ job[w].added = {}

Processed(w) ==
  LET d == job[w].doc IN
  /\ job[w].row.status = "ready"
  /\ job[w].row.scanned = Scans(d)
  /\ job[w].row.strategy = IF Indexes(d) THEN "rag" ELSE "full"
  /\ job[w].removed = chunks[d]
  /\ job[w].added = IF Indexes(d) THEN {job[w].run} ELSE {}

JobOK(w) ==
  Active(w) =>
    /\ BaseOK(w)
    /\ job[w].pc \in {"loaded", "extracting"} => Unscanned(w)
    /\ job[w].pc = "chunking" => ChosenLong(w)
    /\ job[w].pc = "embedding" => ScannedLong(w)
    /\ job[w].pc = "commit" =>
         \/ job[w].row.status = "failed" /\ (Unscanned(w) \/ ChosenLong(w) \/ ScannedLong(w))
         \/ Processed(w)

LockOK ==
  \A w, u \in Workers : HoldsRow(w) /\ HoldsRow(u) /\ job[w].doc = job[u].doc => w = u

PipeInv == /\ \A d \in Docs : RowOK(d)
           /\ \A w \in Workers : JobOK(w)
           /\ LockOK

\* The commit of a job changes its document as DocumentLife says: a failure
\* without anything, with the strategy or with the report too, or a processed
\* document, and nothing the user did.
LEMMA Committing ==
  ASSUME TypeOK, PipeInv, NEW w \in Workers, Commit(w), NEW d, d = job[w].doc
  PROVE  /\ d \in Docs /\ rows[d].status # "absent"
         /\ rows' = [rows EXCEPT ![d] = rows'[d]] /\ rows'[d] \in Row
         /\ chunks' = [chunks EXCEPT ![d] = chunks'[d]]
         /\ rows'[d].acked = rows[d].acked
         /\ rows'[d].deleted = rows[d].deleted
         /\ \/ /\ rows'[d].status = "failed" /\ chunks'[d] = chunks[d]
               /\ \/ /\ rows'[d].scanned = rows[d].scanned
                     /\ rows'[d].strategy = rows[d].strategy
                  \/ /\ rows'[d].scanned = rows[d].scanned
                     /\ rows'[d].strategy = "rag" /\ Indexes(d)
                  \/ /\ rows'[d].scanned = Scans(d)
                     /\ rows'[d].strategy = "rag" /\ Indexes(d)
            \/ /\ rows'[d].status = "ready"
               /\ rows'[d].scanned = Scans(d)
               /\ rows'[d].strategy = IF Indexes(d) THEN "rag" ELSE "full"
               /\ chunks'[d] = IF Indexes(d) THEN {job[w].run} ELSE {}
<1> DEFINE base == job[w].base
           row == job[w].row
           current == rows[d]
           written == Written(base, row, current)
<1>1. d \in Docs /\ base \in Row /\ row \in Row /\ current \in Row
  BY JobFields
<1>2. BaseOK(w) /\ RowOK(d)
  BY <1>1 DEF Commit, PipeInv, JobOK, Active
<1>3. /\ current.status # "absent"
      /\ base.scanned => current.scanned
      /\ base.strategy = "rag" => current.strategy = "rag"
      /\ row.acked = base.acked /\ row.deleted = base.deleted
      /\ current.scanned => Scans(d)
      /\ current.strategy = "rag" => Indexes(d)
  BY <1>2 DEF BaseOK, RowOK
<1>4. rows' = [rows EXCEPT ![d] = written]
  BY DEF Commit
<1>5. chunks' = [chunks EXCEPT ![d] = (chunks[d] \ job[w].removed) \cup job[w].added]
  BY DEF Commit
<1>6. chunks'[d] = (chunks[d] \ job[w].removed) \cup job[w].added
  BY <1>1, <1>5 DEF TypeOK
<1>7. /\ written.status = row.status
      /\ written.strategy = Changed(base.strategy, row.strategy, current.strategy)
      /\ written.scanned = Changed(base.scanned, row.scanned, current.scanned)
      /\ written.acked = Changed(base.acked, row.acked, current.acked)
      /\ written.deleted = Changed(base.deleted, row.deleted, current.deleted)
  BY DEF Written
<1>8. written \in Row
  BY <1>1, WrittenType
<1>9. \/ row.status = "failed" /\ (Unscanned(w) \/ ChosenLong(w) \/ ScannedLong(w))
      \/ Processed(w)
  BY DEF Commit, PipeInv, JobOK, Active
<1>10. /\ base.strategy \in {"full", "rag"} /\ current.strategy \in {"full", "rag"}
       /\ base.scanned \in BOOLEAN /\ current.scanned \in BOOLEAN /\ Scans(d) \in BOOLEAN
  BY <1>1 DEF Row, Scans
<1> HIDE DEF written
<1>11. rows'[d] = written
  BY <1>1, <1>4, RowMove
<1>12. written.acked = current.acked /\ written.deleted = current.deleted
  BY <1>3, <1>7 DEF Changed
<1>13. ASSUME row.scanned = Scans(d) PROVE written.scanned = Scans(d)
  BY <1>3, <1>7, <1>10, <1>13 DEF Changed
<1>14. CASE row.status = "failed" /\ Unscanned(w)
  <2>1. chunks'[d] = chunks[d]
    BY <1>6, <1>14 DEF Unscanned
  <2>2. written.scanned = current.scanned /\ written.strategy = current.strategy
    BY <1>7, <1>14 DEF Changed, Unscanned
  <2> QED BY <1>1, <1>3, <1>4, <1>5, <1>6, <1>7, <1>8, <1>11, <1>12, <1>14, <2>1, <2>2
<1>15. CASE row.status = "failed" /\ ScannedLong(w)
  <2>1. chunks'[d] = chunks[d]
    BY <1>6, <1>15 DEF ScannedLong
  <2>2. written.scanned = Scans(d)
    BY <1>13, <1>15 DEF ScannedLong
  <2>3. written.strategy = "rag" /\ Indexes(d)
    BY <1>3, <1>7, <1>10, <1>15 DEF Changed, ScannedLong
  <2> QED BY <1>1, <1>3, <1>4, <1>5, <1>6, <1>7, <1>8, <1>11, <1>12, <1>15, <2>1, <2>2, <2>3
<1>16. CASE Processed(w)
  <2>1. chunks'[d] = IF Indexes(d) THEN {job[w].run} ELSE {}
    BY <1>6, <1>16 DEF Processed
  <2>2. written.scanned = Scans(d) /\ written.status = "ready"
    BY <1>7, <1>13, <1>16 DEF Processed
  <2>3. written.strategy = IF Indexes(d) THEN "rag" ELSE "full"
    BY <1>3, <1>7, <1>10, <1>16 DEF Changed, Processed
  <2> QED BY <1>1, <1>3, <1>4, <1>5, <1>6, <1>8, <1>11, <1>12, <2>1, <2>2, <2>3
<1>17. CASE row.status = "failed" /\ ChosenLong(w)
  <2>1. chunks'[d] = chunks[d]
    BY <1>6, <1>17 DEF ChosenLong
  <2>2. written.scanned = current.scanned
    BY <1>7, <1>17 DEF Changed, ChosenLong
  <2>3. written.strategy = "rag" /\ Indexes(d)
    BY <1>3, <1>7, <1>10, <1>17 DEF Changed, ChosenLong
  <2> QED BY <1>1, <1>3, <1>4, <1>5, <1>6, <1>7, <1>8, <1>11, <1>12, <1>17, <2>1, <2>2, <2>3
<1> QED BY <1>9, <1>14, <1>15, <1>16, <1>17

\* A job that does not move, apart from its lease, stays as it should be while
\* its row only gains and, if it is about to write, its chunks stay.
LEMMA JobKept ==
  ASSUME TypeOK, NEW w \in Workers, JobOK(w), NEW d, d = job[w].doc,
         job'[w].pc = job[w].pc, job'[w].doc = d,
         job'[w].base = job[w].base, job'[w].row = job[w].row, job'[w].run = job[w].run,
         job'[w].removed = job[w].removed, job'[w].added = job[w].added,
         Active(w) =>
           /\ rows[d].status # "absent" => rows'[d].status # "absent"
           /\ rows[d].scanned => rows'[d].scanned
           /\ rows[d].strategy = "rag" => rows'[d].strategy = "rag"
           /\ job[w].pc = "commit" => chunks'[d] = chunks[d]
  PROVE  JobOK(w)'
<1> SUFFICES ASSUME Active(w)' PROVE JobOK(w)'
  BY DEF JobOK
<1>1. Active(w)
  BY DEF Active
<1>2. BaseOK(w)'
  BY <1>1 DEF JobOK, BaseOK
<1>3. Unscanned(w) => Unscanned(w)'
  BY DEF Unscanned
<1>4. /\ ScannedLong(w) => ScannedLong(w)'
      /\ ChosenLong(w) => ChosenLong(w)'
  BY DEF ScannedLong, ChosenLong, Scans, Indexes
<1>5. job[w].pc = "commit" /\ Processed(w) => Processed(w)'
  BY <1>1 DEF Processed, Scans, Indexes
<1>6. job[w].pc = "commit" =>
        \/ job[w].row.status = "failed" /\ (Unscanned(w) \/ ChosenLong(w) \/ ScannedLong(w))
        \/ Processed(w)
  BY <1>1 DEF JobOK
<1>7. job[w].pc \in {"loaded", "extracting"} => Unscanned(w)
  BY <1>1 DEF JobOK
<1>8. /\ job[w].pc = "embedding" => ScannedLong(w)
      /\ job[w].pc = "chunking" => ChosenLong(w)
  BY <1>1 DEF JobOK
<1> QED BY <1>2, <1>3, <1>4, <1>5, <1>6, <1>7, <1>8 DEF JobOK

\* The lock stays exclusive when one job moves without taking it.
LEMMA LockKept ==
  ASSUME LockOK, NEW w \in Workers,
         \A u \in Workers \ {w} : job'[u] = job[u],
         HoldsRow(w)' => HoldsRow(w) /\ job'[w].doc = job[w].doc
  PROVE  LockOK'
BY DEF LockOK, HoldsRow

\* The part of a worker's step that concerns the other workers.
LEMMA Others ==
  ASSUME TypeOK, PipeInv, NEW w \in Workers, UNCHANGED <<rows, chunks, upload>>,
         \A u \in Workers \ {w} : job'[u] = job[u]
  PROVE  /\ \A d \in Docs : RowOK(d)'
         /\ \A u \in Workers \ {w} : JobOK(u)'
<1>1. \A d \in Docs : RowOK(d)'
  BY DEF PipeInv, RowOK, Scans, Indexes
<1>2. ASSUME NEW u \in Workers \ {w} PROVE JobOK(u)'
  <2>1. JobOK(u)
    BY DEF PipeInv
  <2> QED BY <2>1, JobKept
<1> QED BY <1>1, <1>2

LEMMA WorkStep ==
  ASSUME TypeOK, PipeInv, NEW w \in Workers,
         \/ \E d \in Docs : Receive(w, d)
         \/ Begin(w) \/ ProcessFails(w) \/ ScanShort(w) \/ ChooseIndex(w) \/ ScanLong(w)
         \/ Reindex(w) \/ Ack(w) \/ Abort(w) \/ AckLost(w) \/ VisibilityTimeout(w)
  PROVE  PipeInv'
<1>1. UNCHANGED <<rows, chunks, upload>>
  BY DEF Receive, Begin, ProcessFails, ScanShort, ChooseIndex, ScanLong, Reindex, Ack, Abort, AckLost,
         VisibilityTimeout
<1>2. \A u \in Workers \ {w} : job'[u] = job[u]
  BY JobsType
<1>3. /\ \A d \in Docs : RowOK(d)'
      /\ \A u \in Workers \ {w} : JobOK(u)'
  BY <1>1, <1>2, Others
<1> SUFFICES JobOK(w)' /\ LockOK'
  BY <1>3 DEF PipeInv
<1>4. LockOK /\ JobOK(w)
  BY DEF PipeInv
<1>5. job[w] \in Job /\ job[w].doc \in Docs /\ job[w].base \in Row /\ job[w].row \in Row
  BY JobFields
<1>6. ASSUME NEW d \in Docs, Receive(w, d) PROVE JobOK(w)' /\ LockOK'
  <2>1. /\ job'[w].pc = IF rows[d].status = "absent" THEN "ack" ELSE "loaded"
        /\ job'[w].doc = d /\ job'[w].base = rows[d] /\ job'[w].row = rows[d]
        /\ job'[w].removed = {} /\ job'[w].added = {}
    BY <1>6, AfterReceive
  <2>2. ~HoldsRow(w)'
    BY <2>1 DEF HoldsRow
  <2>3. RowOK(d)
    BY DEF PipeInv
  <2>4. JobOK(w)'
    BY <1>1, <2>1, <2>3 DEF JobOK, Active, BaseOK, Unscanned, RowOK
  <2> QED BY <1>2, <1>4, <2>2, <2>4, LockKept
<1>7. CASE Begin(w)
  <2>1. job'[w] = [job[w] EXCEPT !.pc = "extracting"]
    BY <1>7, AfterBegin
  <2>2. /\ job'[w].pc = "extracting" /\ job'[w].doc = job[w].doc /\ job'[w].base = job[w].base
        /\ job'[w].row = job[w].row /\ job'[w].removed = job[w].removed
        /\ job'[w].added = job[w].added
    BY <1>5, <2>1 DEF Job
  <2>3. Active(w) /\ BaseOK(w) /\ Unscanned(w)
    BY <1>4, <1>7 DEF Begin, JobOK, Active
  <2>4. JobOK(w)'
    BY <1>1, <2>2, <2>3 DEF JobOK, Active, BaseOK, Unscanned
  <2>5. LockOK'
    BY <1>2, <1>4, <1>7, <2>2 DEF Begin, RowFree, LockOK, HoldsRow
  <2> QED BY <2>4, <2>5
<1>8. CASE ProcessFails(w)
  <2>1. /\ job'[w].pc = "commit" /\ job'[w].doc = job[w].doc /\ job'[w].base = job[w].base
        /\ job'[w].row = [job[w].row EXCEPT !.status = "failed"]
        /\ job'[w].removed = job[w].removed /\ job'[w].added = job[w].added
    BY <1>8, AfterFail
  <2>2. /\ job'[w].row.status = "failed"
        /\ job'[w].row.scanned = job[w].row.scanned
        /\ job'[w].row.strategy = job[w].row.strategy
        /\ job'[w].row.acked = job[w].row.acked
        /\ job'[w].row.deleted = job[w].row.deleted
    BY <1>5, <2>1 DEF Row
  <2>3. job[w].pc \in {"extracting", "chunking", "embedding"}
    BY <1>8 DEF ProcessFails
  <2>4. BaseOK(w) /\ (Unscanned(w) \/ ChosenLong(w) \/ ScannedLong(w))
    BY <1>4, <2>3 DEF JobOK, Active
  <2>5. BaseOK(w)'
    BY <1>1, <2>1, <2>2, <2>4 DEF BaseOK
  <2>6. Unscanned(w)' \/ ChosenLong(w)' \/ ScannedLong(w)'
    BY <2>1, <2>2, <2>4 DEF Unscanned, ChosenLong, ScannedLong, Scans, Indexes
  <2>7. JobOK(w)'
    BY <2>1, <2>2, <2>5, <2>6 DEF JobOK
  <2>8. HoldsRow(w)
    BY <2>3 DEF HoldsRow
  <2> QED BY <1>2, <1>4, <2>1, <2>7, <2>8, LockKept
<1>9. CASE ScanShort(w) \/ ScanLong(w)
  <2> DEFINE d == job[w].doc
             reported == Reported(job[w].row, d)
  <2>1. job[w].pc \in {"extracting", "chunking"}
    BY <1>9 DEF ScanShort, ScanLong
  <2>2. /\ BaseOK(w) /\ RowOK(d)
        /\ job[w].row.scanned = job[w].base.scanned
        /\ job[w].removed = {} /\ job[w].added = {}
    BY <1>4, <1>5, <2>1 DEF JobOK, Active, PipeInv, Unscanned, ChosenLong
  <2>3. /\ reported \in Row /\ reported.deleted = job[w].base.deleted
        /\ reported.scanned = Scans(d)
        /\ reported.acked = job[w].base.acked
    <3>1. /\ reported \in Row /\ reported.deleted = job[w].row.deleted
          /\ reported.scanned = IF Scans(d) THEN TRUE ELSE job[w].row.scanned
          /\ reported.acked = IF Scans(d) THEN job[w].row.scanned /\ job[w].row.acked
                              ELSE job[w].row.acked
      BY <1>5, ReportedType
    <3>2. /\ job[w].row.scanned \in BOOLEAN /\ job[w].row.acked \in BOOLEAN
          /\ Scans(d) \in BOOLEAN
      BY <1>5 DEF Row, Scans
    <3>3. /\ job[w].row.scanned => Scans(d)
          /\ job[w].row.acked => job[w].row.scanned
          /\ job[w].row.acked = job[w].base.acked
          /\ job[w].row.deleted = job[w].base.deleted
      BY <2>2 DEF BaseOK, RowOK
    <3> QED BY <3>1, <3>2, <3>3
  <2>a. reported.strategy = job[w].row.strategy
    BY <1>5, ReportedType
  <2> HIDE DEF reported
  <2>4. CASE ScanShort(w)
    <3>1. /\ job'[w].pc = "commit" /\ job'[w].doc = d /\ job'[w].base = job[w].base
          /\ job'[w].row = [reported EXCEPT !.status = "ready", !.strategy = "full"]
          /\ job'[w].removed = chunks[d] /\ job'[w].added = job[w].added
      BY <2>4, AfterScanShort DEF reported
    <3>2. /\ job'[w].row.status = "ready" /\ job'[w].row.strategy = "full"
          /\ job'[w].row.scanned = reported.scanned /\ job'[w].row.acked = reported.acked
          /\ job'[w].row.deleted = reported.deleted
      BY <2>3, <3>1 DEF Row
    <3>3. BaseOK(w)'
      BY <1>1, <2>2, <2>3, <3>1, <3>2 DEF BaseOK
    <3>4. ~Indexes(d)
      BY <2>4 DEF ScanShort
    <3>5. Processed(w)'
      BY <1>1, <2>2, <2>3, <3>1, <3>2, <3>4 DEF Processed, Scans, Indexes
    <3>6. JobOK(w)'
      BY <3>1, <3>3, <3>5 DEF JobOK
    <3>7. HoldsRow(w)
      BY <2>1 DEF HoldsRow
    <3> QED BY <1>2, <1>4, <3>1, <3>6, <3>7, LockKept
  <2>5. CASE ScanLong(w)
    <3>1. /\ job'[w].pc = "embedding" /\ job'[w].doc = d /\ job'[w].base = job[w].base
          /\ job'[w].row = reported
          /\ job'[w].removed = job[w].removed /\ job'[w].added = job[w].added
      BY <2>5, AfterScanLong DEF reported
    <3>2. ChosenLong(w)
      BY <1>4, <2>5 DEF ScanLong, JobOK, Active
    <3>3. BaseOK(w)'
      BY <1>1, <2>2, <2>3, <3>1, <3>2 DEF BaseOK
    <3>5. ScannedLong(w)'
      BY <2>a, <2>2, <2>3, <3>1, <3>2 DEF ScannedLong, ChosenLong, Scans, Indexes
    <3>6. JobOK(w)'
      BY <3>1, <3>3, <3>5 DEF JobOK
    <3>7. HoldsRow(w)
      BY <2>1 DEF HoldsRow
    <3> QED BY <1>2, <1>4, <3>1, <3>6, <3>7, LockKept
  <2> QED BY <1>9, <2>4, <2>5
<1>10. CASE Reindex(w)
  <2> DEFINE d == job[w].doc
  <2>1. job[w].pc = "embedding"
    BY <1>10 DEF Reindex
  <2>2. BaseOK(w) /\ ScannedLong(w)
    BY <1>4, <2>1 DEF JobOK, Active
  <2>3. /\ job'[w].pc = "commit" /\ job'[w].doc = d /\ job'[w].base = job[w].base
        /\ job'[w].row = [job[w].row EXCEPT !.status = "ready"]
        /\ job'[w].removed = chunks[d] /\ job'[w].added = {job[w].run}
        /\ job'[w].run = job[w].run
    <3>1. job'[w].run = job[w].run
      <4> DEFINE row == [job[w].row EXCEPT !.status = "ready"]
                 removed == chunks[job[w].doc]
                 added == {job[w].run}
      <4>1. job' = [job EXCEPT ![w] = [job[w] EXCEPT !.pc = "commit", !.row = row,
                                                    !.removed = removed, !.added = added]]
        BY <1>10 DEF Reindex
      <4> HIDE DEF row, removed, added
      <4> QED BY <4>1, <1>5, JobMove DEF Job
    <3> QED BY <1>10, <3>1, AfterReindex
  <2>4. /\ job'[w].row.status = "ready" /\ job'[w].row.strategy = job[w].row.strategy
        /\ job'[w].row.scanned = job[w].row.scanned /\ job'[w].row.acked = job[w].row.acked
        /\ job'[w].row.deleted = job[w].row.deleted
    BY <1>5, <2>3 DEF Row
  <2>5. BaseOK(w)'
    BY <1>1, <2>2, <2>3, <2>4 DEF BaseOK
  <2>6. Processed(w)'
    BY <1>1, <2>2, <2>3, <2>4 DEF Processed, ScannedLong, Scans, Indexes
  <2>7. JobOK(w)'
    BY <2>3, <2>5, <2>6 DEF JobOK
  <2>8. HoldsRow(w)
    BY <2>1 DEF HoldsRow
  <2> QED BY <1>2, <1>4, <2>3, <2>7, <2>8, LockKept
<1>11. CASE Ack(w) \/ Abort(w) \/ AckLost(w)
  <2>1. job'[w].pc = "idle"
    BY <1>11, AfterIdle DEF Ack, Abort, AckLost, GivesBack
  <2> QED BY <1>2, <1>4, <2>1, LockKept DEF JobOK, Active, HoldsRow
<1>12. CASE VisibilityTimeout(w)
  <2>1. job'[w] = [job[w] EXCEPT !.leased = FALSE]
    BY <1>12, AfterTimeout
  <2>2. /\ job'[w].pc = job[w].pc /\ job'[w].doc = job[w].doc /\ job'[w].base = job[w].base
        /\ job'[w].row = job[w].row /\ job'[w].run = job[w].run
        /\ job'[w].removed = job[w].removed /\ job'[w].added = job[w].added
    BY <1>5, <2>1 DEF Job
  <2>3. JobOK(w)'
    BY <1>1, <1>4, <2>2, JobKept
  <2>4. HoldsRow(w)' => HoldsRow(w)
    BY <2>2 DEF HoldsRow
  <2> QED BY <1>2, <1>4, <2>2, <2>3, <2>4, LockKept
<1>13. CASE ChooseIndex(w)
  <2>1. /\ job'[w].pc = "chunking" /\ job'[w].doc = job[w].doc /\ job'[w].base = job[w].base
        /\ job'[w].row = [job[w].row EXCEPT !.strategy = "rag"]
        /\ job'[w].removed = job[w].removed /\ job'[w].added = job[w].added
    BY <1>13, AfterChooseIndex
  <2>2. /\ job'[w].row.strategy = "rag" /\ job'[w].row.scanned = job[w].row.scanned
        /\ job'[w].row.acked = job[w].row.acked /\ job'[w].row.deleted = job[w].row.deleted
    BY <1>5, <2>1 DEF Row
  <2>3. BaseOK(w) /\ Unscanned(w) /\ Indexes(job[w].doc) /\ HoldsRow(w)
    BY <1>4, <1>13 DEF ChooseIndex, JobOK, Active, HoldsRow
  <2>4. BaseOK(w)'
    BY <1>1, <2>1, <2>2, <2>3 DEF BaseOK
  <2>5. ChosenLong(w)'
    BY <2>1, <2>2, <2>3 DEF ChosenLong, Unscanned, Indexes
  <2>6. JobOK(w)'
    BY <2>1, <2>4, <2>5 DEF JobOK
  <2> QED BY <1>2, <1>4, <2>1, <2>3, <2>6, LockKept
<1> QED BY <1>6, <1>7, <1>8, <1>9, <1>10, <1>11, <1>12, <1>13

LEMMA CommitStep ==
  ASSUME TypeOK, PipeInv, NEW w \in Workers, Commit(w)
  PROVE  PipeInv'
<1>0. PICK d \in Docs : d = job[w].doc
  BY JobFields
<1>1. /\ rows[d].status # "absent"
      /\ rows' = [rows EXCEPT ![d] = rows'[d]] /\ rows'[d] \in Row
      /\ chunks' = [chunks EXCEPT ![d] = chunks'[d]]
      /\ rows'[d].acked = rows[d].acked
  BY <1>0, Committing
<1>2. /\ \A e \in Docs \ {d} : rows'[e] = rows[e] /\ chunks'[e] = chunks[e]
      /\ UNCHANGED upload
  BY <1>1 DEF Commit, TypeOK
<1>3. RowOK(d) /\ job[w].run \in Nat
  BY JobFields DEF PipeInv, Job
<1>4. \/ /\ rows'[d].status = "failed" /\ chunks'[d] = chunks[d]
         /\ \/ /\ rows'[d].scanned = rows[d].scanned
               /\ rows'[d].strategy = rows[d].strategy
            \/ /\ rows'[d].scanned = rows[d].scanned
               /\ rows'[d].strategy = "rag" /\ Indexes(d)
            \/ /\ rows'[d].scanned = Scans(d)
               /\ rows'[d].strategy = "rag" /\ Indexes(d)
      \/ /\ rows'[d].status = "ready"
         /\ rows'[d].scanned = Scans(d)
         /\ rows'[d].strategy = IF Indexes(d) THEN "rag" ELSE "full"
         /\ chunks'[d] = IF Indexes(d) THEN {job[w].run} ELSE {}
  BY <1>0, Committing
<1>5. Scans(d)' = Scans(d) /\ Indexes(d)' = Indexes(d)
  BY DEF Scans, Indexes
<1>6. /\ rows'[d].status # "absent"
      /\ rows[d].scanned => rows'[d].scanned
      /\ rows[d].strategy = "rag" => rows'[d].strategy = "rag"
  BY <1>3, <1>4 DEF RowOK
<1>7. RowOK(d)'
  <2>1. upload[d] = "done"
    BY <1>1, <1>3 DEF RowOK
  <2>2. /\ rows'[d].scanned => Scans(d)
        /\ rows'[d].acked => rows'[d].scanned
        /\ rows'[d].strategy = "rag" => Indexes(d)
    BY <1>1, <1>3, <1>4, <1>6 DEF RowOK
  <2>3. chunks'[d] = {} \/ \E n \in Nat : chunks'[d] = {n}
    BY <1>3, <1>4 DEF RowOK
  <2>4. rows'[d].status = "ready" =>
          /\ Scans(d) => rows'[d].scanned
          /\ Indexes(d) => rows'[d].strategy = "rag" /\ chunks'[d] # {}
          /\ ~Indexes(d) => chunks'[d] = {}
    BY <1>4
  <2> QED BY <1>2, <1>5, <2>1, <2>2, <2>3, <2>4 DEF RowOK
<1>8. ASSUME NEW e \in Docs PROVE RowOK(e)'
  <2>1. CASE e = d
    BY <1>7, <2>1
  <2>2. CASE e # d
    <3>1. RowOK(e)
      BY DEF PipeInv
    <3> QED BY <1>2, <2>2, <3>1 DEF RowOK, Scans, Indexes
  <2> QED BY <2>1, <2>2
<1>9. job'[w].pc = "ack" /\ \A u \in Workers \ {w} : job'[u] = job[u]
  BY AfterCommit, JobsType
<1>10. HoldsRow(w) /\ ~HoldsRow(w)'
  BY <1>9 DEF Commit, HoldsRow
<1>11. ASSUME NEW u \in Workers PROVE JobOK(u)'
  <2>1. CASE u = w
    BY <1>9, <2>1 DEF JobOK, Active
  <2>2. CASE u # w
    <3>1. JobOK(u) /\ job[u].doc \in Docs /\ job'[u] = job[u]
      BY <1>9, <2>2, JobFields DEF PipeInv
    <3>2. CASE job[u].doc = d
      <4>1. job[u].pc # "commit"
        BY <1>0, <1>10, <2>2, <3>2 DEF PipeInv, LockOK, HoldsRow
      <4> QED BY <1>6, <3>1, <3>2, <4>1, JobKept
    <3>3. CASE job[u].doc # d
      <4>1. rows'[job[u].doc] = rows[job[u].doc] /\ chunks'[job[u].doc] = chunks[job[u].doc]
        BY <1>2, <3>1, <3>3
      <4> QED BY <3>1, <4>1, JobKept
    <3> QED BY <3>2, <3>3
  <2> QED BY <2>1, <2>2
<1>12. LockOK'
  BY <1>9, <1>10, LockKept DEF PipeInv
<1> QED BY <1>8, <1>11, <1>12 DEF PipeInv

\* Steps of the upload request and of the user.
LEMMA RequestStep ==
  ASSUME TypeOK, PipeInv, NEW d \in Docs,
         UploadStore(d) \/ Uploading(d) \/ Acknowledge(d) \/ DeleteDocument(d)
  PROVE  PipeInv'
<1>1. UNCHANGED <<job, chunks>>
  BY DEF UploadStore, Uploading, UploadSend, UploadCommit, UploadAbort, Acknowledge, DeleteDocument
<1>2. rows[d] \in Row /\ RowOK(d)
  BY DEF TypeOK, PipeInv
<1>3. \/ /\ rows' = rows
         /\ \A e \in Docs : upload'[e] = "done" <=> upload[e] = "done"
      \/ /\ rows' = [rows EXCEPT ![d] = [rows[d] EXCEPT !.status = "pending"]]
         /\ upload[d] # "done" /\ upload'[d] = "done"
         /\ \A e \in Docs \ {d} : upload'[e] = upload[e]
      \/ /\ rows' = [rows EXCEPT ![d] = [rows[d] EXCEPT !.acked = TRUE]]
         /\ rows[d].scanned /\ upload' = upload
      \/ /\ rows' = [rows EXCEPT ![d] = [rows[d] EXCEPT !.deleted = TRUE]]
         /\ upload' = upload
  BY DEF UploadStore, Uploading, UploadSend, UploadCommit, UploadAbort, Acknowledge,
         DeleteDocument, TypeOK
<1>4. PICK v \in Row :
        /\ rows' = [rows EXCEPT ![d] = v]
        /\ v.scanned = rows[d].scanned /\ v.strategy = rows[d].strategy
        /\ v.acked = rows[d].acked \/ rows[d].scanned
        /\ \/ v.status = rows[d].status
              /\ \A e \in Docs : upload'[e] = "done" <=> upload[e] = "done"
           \/ v.status = "pending" /\ rows[d].status = "absent" /\ upload'[d] = "done"
              /\ \A e \in Docs \ {d} : upload'[e] = upload[e]
  <2>1. CASE /\ rows' = rows
             /\ \A e \in Docs : upload'[e] = "done" <=> upload[e] = "done"
    <3>1. rows' = [rows EXCEPT ![d] = rows[d]]
      BY <2>1 DEF TypeOK
    <3> QED BY <2>1, <3>1, <1>2
  <2>2. CASE /\ rows' = [rows EXCEPT ![d] = [rows[d] EXCEPT !.status = "pending"]]
             /\ upload[d] # "done" /\ upload'[d] = "done"
             /\ \A e \in Docs \ {d} : upload'[e] = upload[e]
    <3> DEFINE v == [rows[d] EXCEPT !.status = "pending"]
    <3>1. /\ v \in Row /\ v.scanned = rows[d].scanned /\ v.strategy = rows[d].strategy
          /\ v.acked = rows[d].acked /\ v.status = "pending"
      BY <1>2 DEF Row
    <3>2. rows[d].status = "absent"
      BY <1>2, <2>2 DEF RowOK
    <3> HIDE DEF v
    <3> QED BY <2>2, <3>1, <3>2 DEF v
  <2>3. CASE /\ rows' = [rows EXCEPT ![d] = [rows[d] EXCEPT !.acked = TRUE]]
             /\ rows[d].scanned /\ upload' = upload
    <3>1. /\ [rows[d] EXCEPT !.acked = TRUE] \in Row
          /\ [rows[d] EXCEPT !.acked = TRUE].scanned = rows[d].scanned
          /\ [rows[d] EXCEPT !.acked = TRUE].strategy = rows[d].strategy
          /\ [rows[d] EXCEPT !.acked = TRUE].status = rows[d].status
      BY <1>2 DEF Row
    <3> QED BY <2>3, <3>1
  <2>4. CASE /\ rows' = [rows EXCEPT ![d] = [rows[d] EXCEPT !.deleted = TRUE]]
             /\ upload' = upload
    <3>1. /\ [rows[d] EXCEPT !.deleted = TRUE] \in Row
          /\ [rows[d] EXCEPT !.deleted = TRUE].scanned = rows[d].scanned
          /\ [rows[d] EXCEPT !.deleted = TRUE].strategy = rows[d].strategy
          /\ [rows[d] EXCEPT !.deleted = TRUE].status = rows[d].status
          /\ [rows[d] EXCEPT !.deleted = TRUE].acked = rows[d].acked
      BY <1>2 DEF Row
    <3> QED BY <2>4, <3>1
  <2> QED BY <1>3, <2>1, <2>2, <2>3, <2>4
<1>5. rows'[d] = v /\ \A e \in Docs \ {d} : rows'[e] = rows[e]
  BY <1>4, RowMove
<1>6. RowOK(d)'
  BY <1>1, <1>2, <1>4, <1>5 DEF RowOK, Scans, Indexes
<1>7. ASSUME NEW e \in Docs PROVE RowOK(e)'
  <2>1. CASE e = d
    BY <1>6, <2>1
  <2>2. CASE e # d
    <3>1. RowOK(e)
      BY DEF PipeInv
    <3> QED BY <1>1, <1>4, <1>5, <2>2, <3>1 DEF RowOK, Scans, Indexes
  <2> QED BY <2>1, <2>2
<1>8. ASSUME NEW u \in Workers PROVE JobOK(u)'
  <2>1. JobOK(u) /\ job[u].doc \in Docs /\ job'[u] = job[u]
    BY <1>1, JobFields DEF PipeInv
  <2>2. /\ rows[job[u].doc].status # "absent" => rows'[job[u].doc].status # "absent"
        /\ rows[job[u].doc].scanned => rows'[job[u].doc].scanned
        /\ rows[job[u].doc].strategy = "rag" => rows'[job[u].doc].strategy = "rag"
    BY <1>4, <1>5, <2>1
  <2> QED BY <1>1, <2>1, <2>2, JobKept
<1>9. LockOK'
  BY <1>1 DEF PipeInv, LockOK, HoldsRow
<1> QED BY <1>7, <1>8, <1>9 DEF PipeInv

LEMMA PipeStep == TypeOK /\ PipeInv /\ [Next]_vars => PipeInv'
<1> SUFFICES ASSUME TypeOK, PipeInv, [Next]_vars PROVE PipeInv'
  OBVIOUS
<1>1. CASE UNCHANGED vars
  <2>1. UNCHANGED <<rows, chunks, upload, job>>
    BY <1>1 DEF vars
  <2>2. ASSUME NEW d \in Docs PROVE RowOK(d)'
    <3>1. RowOK(d)
      BY DEF PipeInv
    <3> QED BY <2>1, <3>1 DEF RowOK, Scans, Indexes
  <2>3. ASSUME NEW w \in Workers PROVE JobOK(w)'
    <3>1. JobOK(w)
      BY DEF PipeInv
    <3> QED BY <2>1, <3>1, JobKept
  <2>4. LockOK'
    BY <2>1 DEF PipeInv, LockOK, HoldsRow
  <2> QED BY <2>2, <2>3, <2>4 DEF PipeInv
<1> QED BY <1>1, WorkStep, CommitStep, RequestStep DEF Next, Work, PollEmpty

LEMMA PipeInit == Init => PipeInv
<1> SUFFICES ASSUME Init PROVE PipeInv
  OBVIOUS
<1>1. ASSUME NEW d \in Docs PROVE RowOK(d)
  <2>1. /\ rows[d].status = "absent" /\ ~rows[d].scanned /\ ~rows[d].acked
        /\ rows[d].strategy = IF d \in Kb THEN "rag" ELSE "full"
        /\ chunks[d] = {}
    BY DEF Init, NewRow
  <2> QED BY <2>1 DEF RowOK, Indexes
<1>2. \A w \in Workers : job[w].pc = "idle"
  BY DEF Init, IdleJob
<1> QED BY <1>1, <1>2 DEF PipeInv, JobOK, Active, LockOK, HoldsRow

LEMMA PipeCorrect == Spec => [](TypeOK /\ PipeInv)
BY TypeInit, TypeStep, PipeInit, PipeStep, PTL DEF Spec

(***************************************************************************)
(* The properties.                                                         *)
(***************************************************************************)
\* The index matches the row, whatever the number of documents and workers.
THEOREM IndexMatchesCorrect == Spec => []IndexMatches
<1>1. TypeOK /\ PipeInv => IndexMatches
  <2> SUFFICES ASSUME TypeOK, PipeInv, NEW d \in Docs
               PROVE  /\ Cardinality(chunks[d]) <= 1
                      /\ rows[d].status = "ready" =>
                           /\ rows[d].strategy = "rag" <=> Indexes(d)
                           /\ chunks[d] # {} <=> rows[d].strategy = "rag"
    BY DEF IndexMatches
  <2>1. RowOK(d)
    BY DEF PipeInv
  <2>2. Cardinality(chunks[d]) <= 1
    <3>1. CASE chunks[d] = {}
      BY <3>1, FS_EmptySet
    <3>2. CASE chunks[d] # {}
      <4>1. PICK n \in Nat : chunks[d] = {n}
        BY <2>1, <3>2 DEF RowOK
      <4>2. Cardinality({n}) = 1
        BY FS_Singleton
      <4> QED BY <4>1, <4>2
    <3> QED BY <3>1, <3>2
  <2> QED BY <2>1, <2>2 DEF RowOK
<1> QED BY <1>1, PipeCorrect, PTL

\* A ready document of a task or a knowledge base has its integrity report.
THEOREM ReadyIsScannedCorrect == Spec => []ReadyIsScanned
<1>1. PipeInv => ReadyIsScanned
  BY DEF PipeInv, RowOK, ReadyIsScanned
<1> QED BY <1>1, PipeCorrect, PTL

(***************************************************************************)
(* The pipeline implements DocumentLife: each commit is one of its steps   *)
(* for one document, everything else a stutter.                            *)
(***************************************************************************)
LEMMA LifeDocMove ==
  ASSUME NEW d \in Docs,
         \A e \in Docs \ {d} : rows'[e] = rows[e] /\ chunks'[e] = chunks[e]
  PROVE  LifeDoc' = [LifeDoc EXCEPT ![d] =
           [status |-> rows'[d].status, strategy |-> rows'[d].strategy,
            scanned |-> rows'[d].scanned, acked |-> rows'[d].acked,
            deleted |-> rows'[d].deleted, indexed |-> chunks'[d] # {}]]
BY DEF LifeDoc

LEMMA LifeDocAt ==
  ASSUME NEW d \in Docs
  PROVE  LifeDoc[d] =
           [status |-> rows[d].status, strategy |-> rows[d].strategy,
            scanned |-> rows[d].scanned, acked |-> rows[d].acked,
            deleted |-> rows[d].deleted, indexed |-> chunks[d] # {}]
BY DEF LifeDoc

LEMMA CommitIsLife ==
  ASSUME TypeOK, PipeInv, NEW w \in Workers, Commit(w)
  PROVE  \E d \in Docs : Life!Change(d)
<1>0. PICK d \in Docs : d = job[w].doc
  BY JobFields
<1>1. /\ rows[d].status # "absent"
      /\ rows' = [rows EXCEPT ![d] = rows'[d]]
      /\ chunks' = [chunks EXCEPT ![d] = chunks'[d]]
      /\ rows'[d].acked = rows[d].acked
      /\ rows'[d].deleted = rows[d].deleted
  BY <1>0, Committing
<1>2. \A e \in Docs \ {d} : rows'[e] = rows[e] /\ chunks'[e] = chunks[e]
  BY <1>1 DEF TypeOK
<1> DEFINE old == LifeDoc[d]
           indexed == chunks[d] # {}
           reindexed == chunks'[d] # {}
           scanned == Scans(d)
           strategy == IF Indexes(d) THEN "rag" ELSE "full"
<1>3. LifeDoc' = [LifeDoc EXCEPT ![d] =
        [status |-> rows'[d].status, strategy |-> rows'[d].strategy,
         scanned |-> rows'[d].scanned, acked |-> rows[d].acked,
         deleted |-> rows[d].deleted, indexed |-> reindexed]]
  BY <1>1, <1>2, LifeDocMove
<1>4. old =
        [status |-> rows[d].status, strategy |-> rows[d].strategy,
         scanned |-> rows[d].scanned, acked |-> rows[d].acked,
         deleted |-> rows[d].deleted, indexed |-> indexed]
  BY LifeDocAt
<1>5. old.status # "absent"
  BY <1>1, <1>4
<1>6. Life!Scans(d) = scanned /\ Life!Indexes(d) = Indexes(d)
  BY DEF Life!Scans, Life!Indexes, Scans, Indexes
<1>61. chunks'[d] = chunks[d] => reindexed = indexed
  OBVIOUS
<1>7. CASE /\ rows'[d].status = "failed" /\ chunks'[d] = chunks[d]
           /\ rows'[d].scanned = rows[d].scanned
           /\ rows'[d].strategy = rows[d].strategy
  <2>1. LifeDoc' = [LifeDoc EXCEPT ![d] = [old EXCEPT !.status = "failed"]]
    <3>1. [old EXCEPT !.status = "failed"] =
            [status |-> "failed", strategy |-> rows[d].strategy,
             scanned |-> rows[d].scanned, acked |-> rows[d].acked,
             deleted |-> rows[d].deleted, indexed |-> indexed]
      <4> HIDE DEF indexed
      <4> QED BY <1>4
    <3> HIDE DEF old, indexed, reindexed
    <3> QED BY <1>3, <1>61, <1>7, <3>1
  <2>2. Life!Fail(d)
    BY <1>5, <2>1 DEF Life!Fail
  <2> QED BY <2>2 DEF Life!Change
<1>71. CASE /\ rows'[d].status = "failed" /\ chunks'[d] = chunks[d]
            /\ rows'[d].scanned = rows[d].scanned
            /\ rows'[d].strategy = "rag" /\ Indexes(d)
  <2>1. LifeDoc' = [LifeDoc EXCEPT ![d] = [old EXCEPT !.status = "failed", !.strategy = "rag"]]
    <3>1. [old EXCEPT !.status = "failed", !.strategy = "rag"] =
            [status |-> "failed", strategy |-> "rag",
             scanned |-> rows[d].scanned, acked |-> rows[d].acked,
             deleted |-> rows[d].deleted, indexed |-> indexed]
      <4> HIDE DEF old, indexed
      <4> DEFINE a == [old EXCEPT !.status = "failed"]
      <4>1. a = [status |-> "failed", strategy |-> rows[d].strategy, scanned |-> rows[d].scanned,
                 acked |-> rows[d].acked, deleted |-> rows[d].deleted, indexed |-> indexed]
        BY <1>4
      <4>2. [a EXCEPT !.strategy = "rag"] =
                [status |-> "failed", strategy |-> "rag", scanned |-> rows[d].scanned,
                 acked |-> rows[d].acked, deleted |-> rows[d].deleted, indexed |-> indexed]
        <5> HIDE DEF a
        <5> QED BY <4>1
      <4> QED BY <4>2
    <3> HIDE DEF old, indexed, reindexed
    <3> QED BY <1>3, <1>61, <1>71, <3>1
  <2>2. Life!Fail(d)
    BY <1>5, <1>6, <1>71, <2>1 DEF Life!Fail
  <2> QED BY <2>2 DEF Life!Change
<1>8. CASE /\ rows'[d].status = "failed" /\ chunks'[d] = chunks[d]
           /\ rows'[d].scanned = scanned
           /\ rows'[d].strategy = "rag" /\ Indexes(d)
  <2>1. LifeDoc' = [LifeDoc EXCEPT ![d] = [old EXCEPT !.status = "failed", !.strategy = "rag",
                                                      !.scanned = scanned]]
    <3>1. [old EXCEPT !.status = "failed", !.strategy = "rag", !.scanned = scanned] =
            [status |-> "failed", strategy |-> "rag",
             scanned |-> scanned, acked |-> rows[d].acked,
             deleted |-> rows[d].deleted, indexed |-> indexed]
      <4> HIDE DEF old, indexed, scanned
      <4> DEFINE a == [old EXCEPT !.status = "failed"]
                 b == [a EXCEPT !.strategy = "rag"]
      <4>1. a = [status |-> "failed", strategy |-> rows[d].strategy, scanned |-> rows[d].scanned,
                 acked |-> rows[d].acked, deleted |-> rows[d].deleted, indexed |-> indexed]
        BY <1>4
      <4>2. b = [status |-> "failed", strategy |-> "rag", scanned |-> rows[d].scanned,
                 acked |-> rows[d].acked, deleted |-> rows[d].deleted, indexed |-> indexed]
        <5> HIDE DEF a
        <5> QED BY <4>1
      <4>3. [b EXCEPT !.scanned = scanned] = [status |-> "failed", strategy |-> "rag", scanned |-> scanned,
                 acked |-> rows[d].acked, deleted |-> rows[d].deleted, indexed |-> indexed]
        <5> HIDE DEF b
        <5> QED BY <4>2
      <4> QED BY <4>3
    <3> HIDE DEF old, indexed, reindexed, scanned
    <3> QED BY <1>3, <1>61, <1>8, <3>1
  <2>2. Life!Fail(d)
    BY <1>5, <1>6, <1>8, <2>1 DEF Life!Fail
  <2> QED BY <2>2 DEF Life!Change
<1>9. CASE /\ rows'[d].status = "ready"
           /\ rows'[d].scanned = scanned
           /\ rows'[d].strategy = strategy
           /\ chunks'[d] = IF Indexes(d) THEN {job[w].run} ELSE {}
  <2> DEFINE indexes == Indexes(d)
  <2>0. reindexed = indexes
    BY <1>9 DEF Indexes
  <2>1. LifeDoc' = [LifeDoc EXCEPT ![d] =
          [old EXCEPT !.status = "ready", !.strategy = strategy,
                      !.scanned = scanned, !.indexed = indexes]]
    <3> HIDE DEF strategy, indexed, scanned, indexes
    <3>1. [old EXCEPT !.status = "ready", !.strategy = strategy,
                      !.scanned = scanned, !.indexed = indexes] =
            [status |-> "ready", strategy |-> strategy,
             scanned |-> scanned, acked |-> rows[d].acked,
             deleted |-> rows[d].deleted, indexed |-> indexes]
      <4> HIDE DEF old, indexed, scanned, strategy, indexes
      <4> DEFINE a == [old EXCEPT !.status = "ready"]
                 b == [a EXCEPT !.strategy = strategy]
                 c == [b EXCEPT !.scanned = scanned]
      <4>1. a = [status |-> "ready", strategy |-> rows[d].strategy, scanned |-> rows[d].scanned,
                 acked |-> rows[d].acked, deleted |-> rows[d].deleted, indexed |-> indexed]
        BY <1>4
      <4>2. b = [status |-> "ready", strategy |-> strategy, scanned |-> rows[d].scanned,
                 acked |-> rows[d].acked, deleted |-> rows[d].deleted, indexed |-> indexed]
        <5> HIDE DEF a
        <5> QED BY <4>1
      <4>3. c = [status |-> "ready", strategy |-> strategy, scanned |-> scanned,
                 acked |-> rows[d].acked, deleted |-> rows[d].deleted, indexed |-> indexed]
        <5> HIDE DEF b
        <5> QED BY <4>2
      <4>4. [c EXCEPT !.indexed = indexes] = [status |-> "ready", strategy |-> strategy, scanned |-> scanned,
                 acked |-> rows[d].acked, deleted |-> rows[d].deleted, indexed |-> indexes]
        <5> HIDE DEF c
        <5> QED BY <4>3
      <4> QED BY <4>4
    <3> HIDE DEF old, reindexed
    <3> QED BY <1>3, <1>9, <2>0, <3>1
  <2>2. Life!Process(d)
    BY <1>5, <1>6, <2>1 DEF Life!Process
  <2> QED BY <2>2 DEF Life!Change
<1>10. \/ /\ rows'[d].status = "failed" /\ chunks'[d] = chunks[d]
          /\ \/ /\ rows'[d].scanned = rows[d].scanned
                /\ rows'[d].strategy = rows[d].strategy
             \/ /\ rows'[d].scanned = rows[d].scanned
                /\ rows'[d].strategy = "rag" /\ Indexes(d)
             \/ /\ rows'[d].scanned = scanned
                /\ rows'[d].strategy = "rag" /\ Indexes(d)
       \/ /\ rows'[d].status = "ready"
          /\ rows'[d].scanned = scanned
          /\ rows'[d].strategy = strategy
          /\ chunks'[d] = IF Indexes(d) THEN {job[w].run} ELSE {}
  BY <1>0, Committing
<1> QED BY <1>7, <1>71, <1>8, <1>9, <1>10

LEMMA RequestIsLife ==
  ASSUME TypeOK, PipeInv, NEW d \in Docs, UploadCommit(d) \/ Acknowledge(d) \/ DeleteDocument(d)
  PROVE  Life!Change(d)
<1> DEFINE old == LifeDoc[d]
           indexed == chunks[d] # {}
           yes == TRUE
<1>1. old =
        [status |-> rows[d].status, strategy |-> rows[d].strategy,
         scanned |-> rows[d].scanned, acked |-> rows[d].acked,
         deleted |-> rows[d].deleted, indexed |-> indexed]
  BY LifeDocAt
<1>2. rows[d] \in Row /\ RowOK(d)
  BY DEF TypeOK, PipeInv
<1>3. ASSUME NEW v \in Row, rows' = [rows EXCEPT ![d] = v], chunks' = chunks
      PROVE  LifeDoc' = [LifeDoc EXCEPT ![d] =
               [status |-> v.status, strategy |-> v.strategy, scanned |-> v.scanned,
                acked |-> v.acked, deleted |-> v.deleted, indexed |-> indexed]]
  <2>1. rows'[d] = v /\ \A e \in Docs \ {d} : rows'[e] = rows[e]
    BY <1>3, RowMove
  <2> QED BY <1>3, <2>1, LifeDocMove
<1>4. CASE UploadCommit(d)
  <2> DEFINE v == [rows[d] EXCEPT !.status = "pending"]
  <2>1. /\ v \in Row /\ v.status = "pending" /\ v.strategy = rows[d].strategy
        /\ v.scanned = rows[d].scanned /\ v.acked = rows[d].acked /\ v.deleted = rows[d].deleted
    BY <1>2 DEF Row
  <2>2. rows' = [rows EXCEPT ![d] = v] /\ chunks' = chunks
    BY <1>4 DEF UploadCommit
  <2> HIDE DEF v
  <2>3. LifeDoc' = [LifeDoc EXCEPT ![d] = [old EXCEPT !.status = "pending"]]
    <3>1. [old EXCEPT !.status = "pending"] =
            [status |-> "pending", strategy |-> rows[d].strategy,
             scanned |-> rows[d].scanned, acked |-> rows[d].acked,
             deleted |-> rows[d].deleted, indexed |-> indexed]
      <4> HIDE DEF indexed, yes
      <4> QED BY <1>1
    <3>2. LifeDoc' = [LifeDoc EXCEPT ![d] =
            [status |-> v.status, strategy |-> v.strategy, scanned |-> v.scanned,
             acked |-> v.acked, deleted |-> v.deleted, indexed |-> indexed]]
      BY <1>3, <2>1, <2>2
    <3> HIDE DEF old, indexed, yes
    <3> QED BY <2>1, <3>1, <3>2
  <2>4. old.status = "absent"
    BY <1>1, <1>2, <1>4 DEF UploadCommit, RowOK
  <2>5. Life!Upload(d)
    BY <2>3, <2>4 DEF Life!Upload
  <2> QED BY <2>5 DEF Life!Change
<1>5. CASE Acknowledge(d)
  <2> DEFINE v == [rows[d] EXCEPT !.acked = yes]
  <2>1. /\ v \in Row /\ v.status = rows[d].status /\ v.strategy = rows[d].strategy
        /\ v.scanned = rows[d].scanned /\ v.acked = yes /\ v.deleted = rows[d].deleted
    BY <1>2 DEF Row
  <2>2. rows' = [rows EXCEPT ![d] = v] /\ chunks' = chunks
    BY <1>5 DEF Acknowledge
  <2> HIDE DEF v
  <2>3. LifeDoc' = [LifeDoc EXCEPT ![d] = [old EXCEPT !.acked = yes]]
    <3>1. [old EXCEPT !.acked = yes] =
            [status |-> rows[d].status, strategy |-> rows[d].strategy,
             scanned |-> rows[d].scanned, acked |-> yes,
             deleted |-> rows[d].deleted, indexed |-> indexed]
      <4> HIDE DEF indexed, yes
      <4> QED BY <1>1
    <3>2. LifeDoc' = [LifeDoc EXCEPT ![d] =
            [status |-> v.status, strategy |-> v.strategy, scanned |-> v.scanned,
             acked |-> v.acked, deleted |-> v.deleted, indexed |-> indexed]]
      BY <1>3, <2>1, <2>2
    <3> HIDE DEF old, indexed, yes
    <3> QED BY <2>1, <3>1, <3>2
  <2>4. old.scanned /\ d \in Suspicious /\ ~old.deleted
    BY <1>1, <1>5 DEF Acknowledge
  <2>5. Life!Acknowledge(d)
    BY <2>3, <2>4 DEF Life!Acknowledge
  <2> QED BY <2>5 DEF Life!Change
<1>6. CASE DeleteDocument(d)
  <2> DEFINE v == [rows[d] EXCEPT !.deleted = yes]
  <2>1. /\ v \in Row /\ v.status = rows[d].status /\ v.strategy = rows[d].strategy
        /\ v.scanned = rows[d].scanned /\ v.acked = rows[d].acked /\ v.deleted = yes
    BY <1>2 DEF Row
  <2>2. rows' = [rows EXCEPT ![d] = v] /\ chunks' = chunks
    BY <1>6 DEF DeleteDocument
  <2> HIDE DEF v
  <2>3. LifeDoc' = [LifeDoc EXCEPT ![d] = [old EXCEPT !.deleted = yes]]
    <3>1. [old EXCEPT !.deleted = yes] =
            [status |-> rows[d].status, strategy |-> rows[d].strategy,
             scanned |-> rows[d].scanned, acked |-> rows[d].acked,
             deleted |-> yes, indexed |-> indexed]
      <4> HIDE DEF indexed, yes
      <4> QED BY <1>1
    <3>2. LifeDoc' = [LifeDoc EXCEPT ![d] =
            [status |-> v.status, strategy |-> v.strategy, scanned |-> v.scanned,
             acked |-> v.acked, deleted |-> v.deleted, indexed |-> indexed]]
      BY <1>3, <2>1, <2>2
    <3> HIDE DEF old, indexed, yes
    <3> QED BY <2>1, <3>1, <3>2
  <2>4. d \in Kb /\ old.status # "absent"
    BY <1>1, <1>6 DEF DeleteDocument
  <2>5. Life!Delete(d)
    BY <2>3, <2>4 DEF Life!Delete
  <2> QED BY <2>5 DEF Life!Change
<1> QED BY <1>4, <1>5, <1>6

\* A step that commits nothing is a stutter of the life.
LEMMA Stutters ==
  ASSUME UNCHANGED <<rows, chunks>>
  PROVE  LifeDoc' = LifeDoc
BY DEF LifeDoc

LEMMA LifeStep == TypeOK /\ PipeInv /\ [Next]_vars => [Life!Next]_LifeDoc
<1> SUFFICES ASSUME TypeOK, PipeInv, [Next]_vars PROVE [Life!Next]_LifeDoc
  OBVIOUS
<1>1. ASSUME NEW w \in Workers, Commit(w) PROVE Life!Next
  BY <1>1, CommitIsLife DEF Life!Next
<1>2. ASSUME NEW d \in Docs, UploadCommit(d) \/ Acknowledge(d) \/ DeleteDocument(d)
      PROVE  Life!Next
  BY <1>2, RequestIsLife DEF Life!Next
<1>3. CASE UNCHANGED <<rows, chunks>>
  BY <1>3, Stutters
<1>4. ASSUME NEW w \in Workers, Work(w), ~Commit(w) PROVE UNCHANGED <<rows, chunks>>
  BY <1>4 DEF Work, Receive, Begin, ProcessFails, ScanShort, ChooseIndex, ScanLong, Reindex, Ack
<1>5. ASSUME NEW w \in Workers, PollEmpty(w) \/ Abort(w) \/ AckLost(w) \/ VisibilityTimeout(w)
      PROVE  UNCHANGED <<rows, chunks>>
  BY <1>5 DEF PollEmpty, Abort, AckLost, VisibilityTimeout, vars
<1>6. ASSUME NEW d \in Docs, UploadStore(d) \/ UploadSend(d) \/ UploadAbort(d)
      PROVE  UNCHANGED <<rows, chunks>>
  BY <1>6 DEF UploadStore, UploadSend, UploadAbort
<1> QED BY <1>1, <1>2, <1>3, <1>4, <1>5, <1>6 DEF Next, Uploading, vars

LEMMA LifeInit == Init => Life!Init
<1> SUFFICES ASSUME Init, NEW d \in Docs PROVE LifeDoc[d] = Life!Absent(d)
  BY DEF Life!Init, LifeDoc
<1> DEFINE indexed == chunks[d] # {}
<1>1. indexed = FALSE
  BY DEF Init
<1>2. rows[d] = NewRow(d)
  BY DEF Init
<1>3. LifeDoc[d] =
        [status |-> rows[d].status, strategy |-> rows[d].strategy,
         scanned |-> rows[d].scanned, acked |-> rows[d].acked,
         deleted |-> rows[d].deleted, indexed |-> indexed]
  BY LifeDocAt
<1> DEFINE strategy == IF d \in Kb THEN "rag" ELSE "full"
           no == FALSE
<1>4. NewRow(d) = [status |-> "absent", strategy |-> strategy, scanned |-> no, acked |-> no,
                   deleted |-> no]
  BY DEF NewRow
<1>5. Life!Absent(d) = [status |-> "absent", strategy |-> strategy, scanned |-> no, acked |-> no,
                        deleted |-> no, indexed |-> no]
  BY DEF Life!Absent
<1> HIDE DEF indexed, strategy, no
<1>6. /\ rows[d].status = "absent" /\ rows[d].strategy = strategy /\ rows[d].scanned = no
      /\ rows[d].acked = no /\ rows[d].deleted = no
  BY <1>2, <1>4
<1>7. indexed = no
  BY <1>1 DEF no
<1> QED BY <1>3, <1>5, <1>6, <1>7

\* To its readers the pipeline, with any number of workers, requests and faults,
\* changes a document in one step: the life IntegrityGate builds on.
THEOREM LifeCorrect == Spec => ImplementsLife
BY LifeInit, LifeStep, PipeCorrect, PTL DEF Spec, ImplementsLife, Life!Spec

\* No step revokes an acknowledgment or a deletion.
THEOREM DecisionsCorrect == Spec => DecisionsStay
<1>1. TypeOK /\ PipeInv /\ [Next]_vars =>
        [KeepsDecisions]_rows
  <2> SUFFICES ASSUME TypeOK, PipeInv, [Next]_vars, NEW d \in Docs
               PROVE  /\ rows[d].acked => rows'[d].acked
                      /\ rows[d].deleted => rows'[d].deleted
    BY DEF KeepsDecisions
  <2>1. ASSUME NEW w \in Workers, Commit(w)
        PROVE  rows'[d].acked = rows[d].acked /\ rows'[d].deleted = rows[d].deleted
    <3>0. PICK e \in Docs : e = job[w].doc
      BY JobFields
    <3>1. /\ rows' = [rows EXCEPT ![e] = rows'[e]]
          /\ rows'[e].acked = rows[e].acked /\ rows'[e].deleted = rows[e].deleted
      BY <2>1, <3>0, Committing
    <3> QED BY <3>1 DEF TypeOK
  <2>2. ASSUME NEW e \in Docs, UploadCommit(e) \/ Acknowledge(e) \/ DeleteDocument(e)
        PROVE  /\ rows[d].acked => rows'[d].acked
               /\ rows[d].deleted => rows'[d].deleted
    BY <2>2 DEF UploadCommit, Acknowledge, DeleteDocument, TypeOK, Row
  <2>3. CASE UNCHANGED rows
    BY <2>3
  <2>4. ASSUME NEW w \in Workers, Work(w), ~Commit(w) PROVE UNCHANGED rows
    BY <2>4 DEF Work, Receive, Begin, ProcessFails, ScanShort, ChooseIndex, ScanLong, Reindex, Ack
  <2>5. ASSUME NEW w \in Workers, PollEmpty(w) \/ Abort(w) \/ AckLost(w) \/ VisibilityTimeout(w)
        PROVE  UNCHANGED rows
    BY <2>5 DEF PollEmpty, Abort, AckLost, VisibilityTimeout, vars
  <2>6. ASSUME NEW e \in Docs, UploadStore(e) \/ UploadSend(e) \/ UploadAbort(e)
        PROVE  UNCHANGED rows
    BY <2>6 DEF UploadStore, UploadSend, UploadAbort
  <2> QED BY <2>1, <2>2, <2>3, <2>4, <2>5, <2>6 DEF Next, Uploading, vars
<1> QED BY <1>1, PipeCorrect, PTL DEF Spec, DecisionsStay

(***************************************************************************)
(* Least and greatest numbers.                                             *)
(***************************************************************************)
(* A finite set has a least number: of the sets of what lies below its     *)
(* members, one has no other inside it.                                    *)
LEMMA MinOfFinite ==
  ASSUME NEW S, S \subseteq Int, S # {}, IsFiniteSet(S)
  PROVE  Min(S) \in S /\ \A y \in S : Min(S) <= y
<1> DEFINE below(x) == {y \in S : y < x}
           Belows == {below(x) : x \in S}
<1>1. IsWellFoundedOn(StrictSubsetOrdering(S), FiniteSubsetsOf(S))
  BY FS_StrictSubsetOrderingWellFounded
<1>2. \A x \in S : below(x) \in SUBSET S /\ IsFiniteSet(below(x))
  BY FS_Subset
<1>3. Belows \subseteq FiniteSubsetsOf(S) /\ Belows # {}
  BY <1>2 DEF FiniteSubsetsOf
<1>4. PICK B \in Belows : \A C \in Belows : ~(<<C, B>> \in StrictSubsetOrdering(S))
  <2> HIDE DEF Belows
  <2> QED
    BY <1>1, <1>3, WFMin
<1>5. PICK x \in S : B = below(x)
  BY <1>4
<1>6. ASSUME NEW y \in S, y < x PROVE FALSE
  <2>1. y \in below(x) /\ y \notin below(y) /\ below(y) \subseteq below(x)
    <3>1. x \in Int /\ y \in Int /\ \A z \in S : z \in Int
      OBVIOUS
    <3>2. y \in below(x)
      BY <1>6
    <3>3. y \notin below(y)
      BY <3>1
    <3>4. \A z \in S : z < y => z < x
      BY <1>6, <3>1
    <3> QED
      BY <3>2, <3>3, <3>4
  <2>2. <<below(y), below(x)>> \in StrictSubsetOrdering(S)
    <3>1. below(y) \in SUBSET S /\ below(x) \in SUBSET S
      BY <1>2
    <3>2. below(y) # below(x)
      BY <2>1
    <3> HIDE DEF below
    <3> QED
      BY <2>1, <3>1, <3>2 DEF StrictSubsetOrdering
  <2> QED
    BY <1>4, <1>5, <2>2
<1>7. \A y \in S : x <= y
  BY <1>6
<1> QED
  BY <1>7 DEF Min

LEMMA MaxOfFinite ==
  ASSUME NEW S, S \subseteq Int, S # {}, IsFiniteSet(S)
  PROVE  Max(S) \in S /\ \A y \in S : Max(S) >= y
<1> DEFINE above(x) == {y \in S : y > x}
           Aboves == {above(x) : x \in S}
<1>1. IsWellFoundedOn(StrictSubsetOrdering(S), FiniteSubsetsOf(S))
  BY FS_StrictSubsetOrderingWellFounded
<1>2. \A x \in S : above(x) \in SUBSET S /\ IsFiniteSet(above(x))
  BY FS_Subset
<1>3. Aboves \subseteq FiniteSubsetsOf(S) /\ Aboves # {}
  BY <1>2 DEF FiniteSubsetsOf
<1>4. PICK B \in Aboves : \A C \in Aboves : ~(<<C, B>> \in StrictSubsetOrdering(S))
  <2> HIDE DEF Aboves
  <2> QED
    BY <1>1, <1>3, WFMin
<1>5. PICK x \in S : B = above(x)
  BY <1>4
<1>6. ASSUME NEW y \in S, y > x PROVE FALSE
  <2>1. y \in above(x) /\ y \notin above(y) /\ above(y) \subseteq above(x)
    <3>1. x \in Int /\ y \in Int /\ \A z \in S : z \in Int
      OBVIOUS
    <3>2. y \in above(x)
      BY <1>6
    <3>3. y \notin above(y)
      BY <3>1
    <3>4. \A z \in S : z > y => z > x
      BY <1>6, <3>1
    <3> QED
      BY <3>2, <3>3, <3>4
  <2>2. <<above(y), above(x)>> \in StrictSubsetOrdering(S)
    <3>1. above(y) \in SUBSET S /\ above(x) \in SUBSET S
      BY <1>2
    <3>2. above(y) # above(x)
      BY <2>1
    <3> HIDE DEF above
    <3> QED
      BY <2>1, <3>1, <3>2 DEF StrictSubsetOrdering
  <2> QED
    BY <1>4, <1>5, <2>2
<1>7. \A y \in S : x >= y
  BY <1>6
<1> QED
  BY <1>7 DEF Max

LEMMA MinIs ==
  ASSUME NEW S, S \subseteq Int, NEW m \in S, \A y \in S : m <= y
  PROVE  Min(S) = m
<1>1. Min(S) \in S /\ \A y \in S : Min(S) <= y
  BY DEF Min
<1>2. Min(S) \in Int /\ m \in Int /\ Min(S) <= m /\ m <= Min(S)
  BY <1>1
<1> QED
  BY <1>2

LEMMA Widened ==
  ASSUME NEW i \in Int, NEW a \in Int, NEW b \in Int, NEW n \in Int,
         1 <= a, a <= i, i <= b, b <= n
  PROVE  i \in 1..n
OBVIOUS

LEMMA IntervalFromOne ==
  ASSUME NEW n \in Nat
  PROVE  IsFiniteSet(1..n) /\ Cardinality(1..n) = n
BY FS_Interval

LEMMA MinOfTwo ==
  ASSUME NEW a \in Int, NEW b \in Int
  PROVE  Min({a, b}) = IF a <= b THEN a ELSE b
<1>1. CASE a <= b
  BY <1>1 DEF Min
<1>2. CASE ~(a <= b)
  BY <1>2 DEF Min
<1> QED
  BY <1>1, <1>2

LEMMA MaxOfTwo ==
  ASSUME NEW a \in Int, NEW b \in Int
  PROVE  Max({a, b}) = IF a >= b THEN a ELSE b
<1>1. CASE a >= b
  BY <1>1 DEF Max
<1>2. CASE ~(a >= b)
  BY <1>2 DEF Max
<1> QED
  BY <1>1, <1>2

(***************************************************************************)
(* Windows.                                                                *)
(***************************************************************************)
(* Some multiple of the stride d is the first whose window reaches past x; *)
(* it is a start of Starts, being 0 or following one that does not reach x.*)
LEMMA FirstToReach ==
  ASSUME NEW d \in Nat \ {0}, NEW n \in Nat \ {0}, d <= n, NEW x \in Nat
  PROVE  \E s \in Nat : /\ s % d = 0
                        /\ s <= x /\ x < s + n
                        /\ s = 0 \/ s - d + n <= x
<1>1. CASE x < n
  BY <1>1
<1>2. CASE ~(x < n)
  <2> DEFINE k == (x - n) \div d
             s == d * (k + 1)
  <2>1. x - n \in Nat
    BY <1>2
  <2>2. k \in Nat /\ d * k <= x - n /\ x - n < d * k + d
    BY <2>1, Z3
  <2>3. s = d * k + d /\ s \in Nat
    BY <2>2
  <2>4. s % d = 0
    BY <2>2, Z3
  <2> HIDE DEF s, k
  <2>5. s <= x /\ x < s + n /\ s - d + n <= x
    BY <2>2, <2>3
  <2> QED
    BY <2>3, <2>4, <2>5
<1> QED
  BY <1>1, <1>2

LEMMA StrideFits ==
  ASSUME NEW n \in Nat \ {0}, NEW o \in Nat
  PROVE  /\ Stride(n, o) \in Nat \ {0} /\ Stride(n, o) <= n
         /\ Stride(n, o) = n - o \/ (Stride(n, o) = 1 /\ n <= o)
BY MaxOfTwo DEF Stride

(***************************************************************************)
(* Sections.                                                               *)
(***************************************************************************)
Texts == Seq(AllKinds)

(* Where the sections of a text begin, and where each one's ends.          *)
Heads(t) == {Min(Solid(t, 1, Len(t)))} \union {i \in DOMAIN t : t[i] = "heading"}
EndOf(t, h) == Min({k - 1 : k \in {k \in Heads(t) : h < k}} \union {Len(t)})

LEMMA SectionsByHead ==
  ASSUME NEW t
  PROVE  SplitSections(t) = UNION {Strip(t, h, EndOf(t, h)) : h \in Heads(t)}
BY DEF SplitSections, Heads, EndOf

LEMMA SolidIsFinite ==
  ASSUME NEW t, NEW a \in Int, NEW b \in Int
  PROVE  Solid(t, a, b) \subseteq Int /\ IsFiniteSet(Solid(t, a, b))
<1>1. Solid(t, a, b) \in SUBSET (a..b) /\ a..b \subseteq Int
  BY DEF Solid
<1>2. IsFiniteSet(Solid(t, a, b))
  BY <1>1, FS_Interval, FS_Subset
<1> QED
  BY <1>1, <1>2

(* What is left of an interval begins and ends with a token that is not    *)
(* blank and holds all of them.                                            *)
LEMMA StripHolds ==
  ASSUME NEW t, NEW a \in Int, NEW b \in Int
  PROVE  /\ \A part \in Strip(t, a, b) :
              /\ part.from \in Solid(t, a, b) /\ part.to \in Solid(t, a, b)
              /\ \A i \in Solid(t, a, b) : part.from <= i /\ i <= part.to
         /\ Solid(t, a, b) # {} => Strip(t, a, b) # {}
<1> DEFINE solid == Solid(t, a, b)
<1>1. solid # {} => /\ Min(solid) \in solid /\ \A y \in solid : Min(solid) <= y
                    /\ Max(solid) \in solid /\ \A y \in solid : Max(solid) >= y
  BY SolidIsFinite, MinOfFinite, MaxOfFinite
<1>2. solid \subseteq Int
  BY SolidIsFinite
<1>3. Strip(t, a, b) = IF solid = {} THEN {} ELSE {[from |-> Min(solid), to |-> Max(solid)]}
  BY DEF Strip
<1> HIDE DEF solid
<1>4. CASE solid = {}
  BY <1>3, <1>4 DEF solid
<1>5. CASE solid # {}
  <2>1. Strip(t, a, b) = {[from |-> Min(solid), to |-> Max(solid)]}
    BY <1>3, <1>5
  <2>2. \A y \in solid : Max(solid) >= y => y <= Max(solid)
    BY <1>1, <1>2
  <2> QED
    BY <1>1, <1>5, <2>1, <2>2 DEF solid
<1> QED
  BY <1>4, <1>5

LEMMA HeadsAreInside ==
  ASSUME NEW t \in Texts, Solid(t, 1, Len(t)) # {}
  PROVE  /\ Len(t) \in Nat /\ DOMAIN t = 1..Len(t)
         /\ Heads(t) \subseteq 1..Len(t) /\ IsFiniteSet(Heads(t))
         /\ \A h \in Heads(t) : /\ \A i \in Solid(t, 1, Len(t)) : t[h] = "heading" \/ h <= i
                                /\ t[h] # "blank"
         /\ \E h \in Heads(t) : \A i \in Solid(t, 1, Len(t)) : h <= i
<1>1. Len(t) \in Nat /\ DOMAIN t = 1..Len(t)
  BY DEF Texts
<1>2. /\ Min(Solid(t, 1, Len(t))) \in Solid(t, 1, Len(t))
      /\ \A i \in Solid(t, 1, Len(t)) : Min(Solid(t, 1, Len(t))) <= i
  BY <1>1, SolidIsFinite, MinOfFinite
<1>3. Solid(t, 1, Len(t)) \subseteq 1..Len(t)
  BY DEF Solid
<1>4. Heads(t) \in SUBSET (1..Len(t))
  BY <1>1, <1>2, <1>3 DEF Heads
<1>5. IsFiniteSet(Heads(t))
  <2>1. IsFiniteSet(1..Len(t))
    BY <1>1, FS_Interval
  <2> QED
    BY <1>4, <2>1, FS_Subset
<1>6. \A h \in Heads(t) : t[h] # "blank"
  BY <1>2 DEF Heads, Solid
<1> QED
  BY <1>1, <1>2, <1>4, <1>5, <1>6 DEF Heads

(* A section ends at the end of the text or before the next head.          *)
LEMMA EndIsNext ==
  ASSUME NEW t \in Texts, Solid(t, 1, Len(t)) # {}, NEW h \in Heads(t)
  PROVE  /\ EndOf(t, h) \in Int /\ h <= EndOf(t, h) /\ EndOf(t, h) <= Len(t)
         /\ \A k \in Heads(t) : h < k => EndOf(t, h) < k
         /\ EndOf(t, h) = Len(t) \/ \E k \in Heads(t) : h < k /\ EndOf(t, h) = k - 1
<1>1. /\ Len(t) \in Nat /\ DOMAIN t = 1..Len(t)
      /\ Heads(t) \subseteq 1..Len(t) /\ IsFiniteSet(Heads(t))
  BY HeadsAreInside
<1> DEFINE later == {k \in Heads(t) : h < k}
           limits == {k - 1 : k \in later} \union {Len(t)}
<1>2. limits \in SUBSET (h..Len(t)) /\ limits # {}
  BY <1>1
<1>3. IsFiniteSet(limits) /\ limits \subseteq Int
  <2> HIDE DEF limits
  <2>1. h \in Int /\ IsFiniteSet(h..Len(t))
    BY <1>1, FS_Interval
  <2>2. IsFiniteSet(limits)
    BY <1>2, <2>1, FS_Subset
  <2>3. limits \subseteq Int
    BY <1>1, <1>2, <2>1
  <2> QED
    BY <2>2, <2>3
<1>4. Min(limits) \in limits /\ \A y \in limits : Min(limits) <= y
  <2> HIDE DEF limits
  <2> QED
    BY <1>2, <1>3, MinOfFinite
<1>5. EndOf(t, h) = Min(limits)
  BY DEF EndOf
<1>6. \A k \in later : EndOf(t, h) <= k - 1
  BY <1>4, <1>5
<1>7. EndOf(t, h) \in limits
  BY <1>4, <1>5
<1>8. EndOf(t, h) \in h..Len(t)
  BY <1>2, <1>7
<1>9. \A k \in Heads(t) : h < k => EndOf(t, h) < k
  BY <1>1, <1>6, <1>8
<1> QED
  BY <1>1, <1>7, <1>8, <1>9

(* A section holds what is not blank between its head and its end, and a   *)
(* heading only as its first token.                                        *)
LEMMA SectionHolds ==
  ASSUME NEW t \in Texts, Solid(t, 1, Len(t)) # {},
         NEW h \in Heads(t), NEW section \in Strip(t, h, EndOf(t, h))
  PROVE  /\ section.from \in Int /\ section.to \in Int
         /\ h <= section.from /\ section.from <= section.to /\ section.to <= EndOf(t, h)
         /\ 1 <= section.from /\ section.to <= Len(t)
         /\ \A i \in Solid(t, h, EndOf(t, h)) : section.from <= i /\ i <= section.to
         /\ \A i \in section.from..section.to : t[i] = "heading" => i = section.from
<1>1. h \in 1..Len(t) /\ Len(t) \in Nat /\ DOMAIN t = 1..Len(t)
  BY HeadsAreInside
<1>2. EndOf(t, h) \in Int /\ h <= EndOf(t, h) /\ EndOf(t, h) <= Len(t)
      /\ \A k \in Heads(t) : h < k => EndOf(t, h) < k
  BY EndIsNext
<1>3. /\ section.from \in Solid(t, h, EndOf(t, h)) /\ section.to \in Solid(t, h, EndOf(t, h))
      /\ \A i \in Solid(t, h, EndOf(t, h)) : section.from <= i /\ i <= section.to
  BY <1>1, <1>2, StripHolds
<1>4. /\ section.from \in Int /\ section.to \in Int
      /\ h <= section.from /\ section.from <= section.to /\ section.to <= EndOf(t, h)
  BY <1>1, <1>2, <1>3 DEF Solid
<1>5. ASSUME NEW i \in section.from..section.to, t[i] = "heading"
      PROVE  i = section.from
  <2>1. i \in Int /\ h <= i /\ i <= EndOf(t, h) /\ i \in DOMAIN t
    BY <1>1, <1>2, <1>4, <1>5
  <2>2. i \in Heads(t)
    BY <1>5, <2>1 DEF Heads
  <2>3. i = h
    BY <1>1, <1>2, <2>1, <2>2
  <2>4. i \in Solid(t, h, EndOf(t, h))
    BY <1>5, <2>1 DEF Solid
  <2> QED
    BY <1>1, <1>3, <1>4, <2>3, <2>4
<1> QED
  BY <1>1, <1>2, <1>3, <1>4, <1>5

(* Two tokens with no heading after the first are in one section.          *)
LEMMA OneSection ==
  ASSUME NEW t \in Texts, NEW i \in Solid(t, 1, Len(t)), NEW j \in Solid(t, 1, Len(t)),
         i <= j, \A g \in (i + 1)..j : t[g] # "heading"
  PROVE  \E section \in SplitSections(t) : section.from <= i /\ j <= section.to
<1>1. /\ Len(t) \in Nat /\ Heads(t) \subseteq 1..Len(t) /\ IsFiniteSet(Heads(t))
      /\ \E h \in Heads(t) : \A k \in Solid(t, 1, Len(t)) : h <= k
      /\ \A h \in Heads(t) : t[h] = "heading" \/ h <= i
  BY HeadsAreInside
<1>2. i \in 1..Len(t) /\ j \in 1..Len(t) /\ t[i] # "blank" /\ t[j] # "blank"
  BY <1>1 DEF Solid
<1> DEFINE before == {h \in Heads(t) : h <= i}
<1>3. before # {} /\ before \subseteq Int /\ IsFiniteSet(before)
  BY <1>1, FS_Subset
<1> PICK h : h = Max(before)
  OBVIOUS
<1>4. h \in Heads(t) /\ h <= i /\ \A k \in Heads(t) : k <= i => k <= h
  <2>1. Max(before) \in before /\ \A y \in before : Max(before) >= y
    <3> HIDE DEF before
    <3> QED
      BY <1>3, MaxOfFinite
  <2> QED
    BY <1>1, <1>3, <2>1
<1>5. EndOf(t, h) \in Int /\ EndOf(t, h) <= Len(t)
      /\ (EndOf(t, h) = Len(t) \/ \E k \in Heads(t) : h < k /\ EndOf(t, h) = k - 1)
  BY <1>4, EndIsNext
<1>6. ASSUME NEW k \in Heads(t), h < k PROVE j < k
  <2>1. k \in Int /\ h \in Int /\ i \in Int
    BY <1>1, <1>2, <1>4, <1>6
  <2>2. ~(k <= i)
    BY <1>4, <1>6, <2>1
  <2>3. t[k] = "heading" /\ k \notin (i + 1)..j
    BY <1>1, <2>1, <2>2
  <2> QED
    BY <1>2, <2>1, <2>2, <2>3
<1>7. j <= EndOf(t, h)
  BY <1>1, <1>2, <1>5, <1>6
<1>8. i \in Solid(t, h, EndOf(t, h)) /\ j \in Solid(t, h, EndOf(t, h))
  BY <1>1, <1>2, <1>4, <1>5, <1>7 DEF Solid
<1>9. h \in Int
  BY <1>1, <1>4
<1>10. PICK section \in Strip(t, h, EndOf(t, h)) : TRUE
  BY <1>5, <1>8, <1>9, StripHolds
<1>11. section.from <= i /\ j <= section.to
  BY <1>5, <1>8, <1>9, StripHolds
<1>12. section \in SplitSections(t)
  BY <1>4, SectionsByHead
<1> QED
  BY <1>11, <1>12

LEMMA SectionFacts ==
  ASSUME NEW t \in Texts, Solid(t, 1, Len(t)) # {}, NEW section \in SplitSections(t)
  PROVE  /\ section.from \in Int /\ section.to \in Int
         /\ 1 <= section.from /\ section.from <= section.to /\ section.to <= Len(t)
         /\ \A i \in section.from..section.to : t[i] = "heading" => i = section.from
<1>1. PICK h \in Heads(t) : section \in Strip(t, h, EndOf(t, h))
  BY SectionsByHead
<1> QED
  BY <1>1, SectionHolds

LEMMA SectionsInOrder ==
  ASSUME NEW t \in Texts, Solid(t, 1, Len(t)) # {},
         NEW one \in SplitSections(t), NEW two \in SplitSections(t)
  PROVE  one = two \/ one.to < two.from \/ two.to < one.from
<1>1. PICK h \in Heads(t) : one \in Strip(t, h, EndOf(t, h))
  BY SectionsByHead
<1>2. PICK k \in Heads(t) : two \in Strip(t, k, EndOf(t, k))
  BY SectionsByHead
<1>3. /\ one.from \in Int /\ one.to \in Int /\ h <= one.from /\ one.to <= EndOf(t, h)
  BY <1>1, SectionHolds
<1>4. /\ two.from \in Int /\ two.to \in Int /\ k <= two.from /\ two.to <= EndOf(t, k)
  BY <1>2, SectionHolds
<1>5. /\ EndOf(t, h) \in Int /\ EndOf(t, k) \in Int
      /\ h < k => EndOf(t, h) < k
      /\ k < h => EndOf(t, k) < h
  BY EndIsNext
<1>6. h \in Int /\ k \in Int
  BY HeadsAreInside
<1>7. CASE h = k
  BY <1>1, <1>2, <1>7 DEF Strip
<1>8. CASE h < k
  BY <1>3, <1>4, <1>5, <1>6, <1>8
<1>9. CASE k < h
  BY <1>3, <1>4, <1>5, <1>6, <1>9
<1> QED
  BY <1>6, <1>7, <1>8, <1>9

(***************************************************************************)
(* Chunks.                                                                 *)
(***************************************************************************)
(* Where a window of n tokens at place a of a section ends.                *)
LastOf(section, n, a) == Min({a + n - 1, section.to})

LEMMA StartIsInside ==
  ASSUME NEW len, NEW n, NEW o, NEW s \in Starts(len, n, o)
  PROVE  s \in 0..(len - 1)
BY Zenon DEF Starts

(* What a chunk of a section is. *)
LEMMA ChunkOfWindow ==
  ASSUME NEW t, NEW section, NEW n, NEW o, NEW c \in ChunkSection(t, section, n, o)
  PROVE  \E s \in Starts(section.to - section.from + 1, n, o) :
           \E p \in Strip(t, section.from + s, LastOf(section, n, section.from + s)) :
             c = [at |-> section.from + s, part |-> p]
BY Zenon DEF ChunkSection, LastOf

LEMMA WindowIsChunk ==
  ASSUME NEW t, NEW section, NEW n, NEW o,
         NEW s \in Starts(section.to - section.from + 1, n, o),
         NEW p \in Strip(t, section.from + s, LastOf(section, n, section.from + s))
  PROVE  [at |-> section.from + s, part |-> p] \in ChunkSection(t, section, n, o)
BY DEF ChunkSection, LastOf

LEMMA ChunkFacts ==
  ASSUME NEW t \in Texts, NEW n \in Nat \ {0}, NEW o \in Nat, NEW c \in Chunks(t, n, o)
  PROVE  /\ Solid(t, 1, Len(t)) # {}
         /\ \E section \in SplitSections(t) :
              /\ c.at \in section.from..section.to
              /\ c.part \in Strip(t, c.at, LastOf(section, n, c.at))
<1>1. Solid(t, 1, Len(t)) # {}
  BY DEF Chunks
<1>2. PICK section \in SplitSections(t) : c \in ChunkSection(t, section, n, o)
  BY DEF Chunks
<1>3. PICK s \in Starts(section.to - section.from + 1, n, o) :
        \E p \in Strip(t, section.from + s, LastOf(section, n, section.from + s)) :
          c = [at |-> section.from + s, part |-> p]
  BY <1>2, ChunkOfWindow
<1>4. /\ c.at = section.from + s
      /\ c.part \in Strip(t, section.from + s, LastOf(section, n, section.from + s))
  BY <1>3
<1>5. section.from \in Int /\ section.to \in Int
  BY <1>1, SectionFacts
<1> PICK len : len = section.to - section.from + 1
  OBVIOUS
<1>6. s \in 0..(len - 1)
  BY <1>3, StartIsInside
<1>7. section.from + s \in section.from..section.to
  BY <1>5, <1>6
<1> QED
  BY <1>1, <1>4, <1>7

LEMMA PartFacts ==
  ASSUME NEW t \in Texts, NEW n \in Nat \ {0}, NEW section, Solid(t, 1, Len(t)) # {},
         section \in SplitSections(t), NEW at \in section.from..section.to,
         NEW part \in Strip(t, at, LastOf(section, n, at))
  PROVE  /\ LastOf(section, n, at) \in Int
         /\ at <= LastOf(section, n, at) /\ LastOf(section, n, at) <= section.to
         /\ LastOf(section, n, at) < at + n
         /\ LastOf(section, n, at) = section.to \/ LastOf(section, n, at) = at + n - 1
         /\ part.from \in at..LastOf(section, n, at) /\ part.to \in at..LastOf(section, n, at)
         /\ t[part.from] # "blank" /\ t[part.to] # "blank"
         /\ \A i \in at..LastOf(section, n, at) :
              t[i] # "blank" => part.from <= i /\ i <= part.to
<1>1. section.from \in Int /\ section.to \in Int
  BY SectionFacts
<1>2. at \in Int /\ at <= section.to
  BY <1>1
<1>3. /\ LastOf(section, n, at) \in Int
      /\ at <= LastOf(section, n, at) /\ LastOf(section, n, at) <= section.to
      /\ LastOf(section, n, at) < at + n
      /\ LastOf(section, n, at) = section.to \/ LastOf(section, n, at) = at + n - 1
  BY <1>1, <1>2, MinOfTwo DEF LastOf
<1> QED
  BY <1>2, <1>3, StripHolds DEF Solid

(* A phrase shorter than the overlap, or than a chunk, is inside a window. *)
LEMMA PhraseInWindow ==
  ASSUME NEW n \in Nat \ {0}, NEW o \in Nat, NEW len \in Nat,
         NEW x \in Nat, NEW y \in Nat, x <= y, y < len, y - x <= o, y - x < n
  PROVE  \E s \in Starts(len, n, o) : s <= x /\ y < s + n
<1> PICK d : d = Stride(n, o)
  OBVIOUS
<1>1. d \in Nat \ {0} /\ d <= n /\ (d = n - o \/ (d = 1 /\ n <= o))
  BY StrideFits
<1>2. PICK s \in Nat : /\ s % d = 0 /\ s <= y /\ y < s + n
                       /\ s = 0 \/ s - d + n <= y
  BY <1>1, FirstToReach
<1>3. s <= x
  BY <1>1, <1>2
<1>4. s \in 0..(len - 1) /\ (s = 0 \/ s - d + n < len)
  BY <1>1, <1>2
<1>5. s \in Starts(len, n, o)
  BY <1>2, <1>4 DEF Starts
<1> QED
  BY <1>2, <1>3, <1>5

LEMMA PhraseInChunk ==
  ASSUME NEW t \in Texts, NEW n \in Nat \ {0}, NEW o \in Nat,
         NEW i \in Solid(t, 1, Len(t)), NEW j \in Solid(t, 1, Len(t)),
         i <= j, j - i <= o, j - i < n, \A g \in (i + 1)..j : t[g] # "heading"
  PROVE  \E c \in Chunks(t, n, o) : {i, j} \subseteq Positions(c.part)
<1>1. PICK section \in SplitSections(t) : section.from <= i /\ j <= section.to
  BY OneSection
<1>2. /\ section.from \in Int /\ section.to \in Int /\ section.from <= section.to
  BY SectionFacts
<1>3. i \in Int /\ j \in Int /\ t[i] # "blank" /\ t[j] # "blank"
  BY DEF Solid, Texts
<1> DEFINE len == section.to - section.from + 1
<1>4. PICK s \in Starts(len, n, o) : s <= i - section.from /\ j - section.from < s + n
  <2>1. /\ len \in Nat /\ i - section.from \in Nat /\ j - section.from \in Nat
        /\ i - section.from <= j - section.from /\ j - section.from < len
        /\ (j - section.from) - (i - section.from) <= o
        /\ (j - section.from) - (i - section.from) < n
    BY <1>1, <1>2, <1>3
  <2> QED
    BY <2>1, PhraseInWindow
<1>5. s \in Nat /\ s <= section.to - section.from
  <2>1. s \in 0..(len - 1)
    BY <1>4, StartIsInside
  <2> QED
    BY <1>2, <2>1
<1> PICK at : at = section.from + s
  OBVIOUS
<1>6. at \in section.from..section.to /\ at <= i /\ j < at + n
  BY <1>2, <1>3, <1>4, <1>5
<1>7. LastOf(section, n, at) \in Int /\ j <= LastOf(section, n, at)
  BY <1>1, <1>2, <1>3, <1>6, MinOfTwo DEF LastOf
<1>8. i \in Solid(t, at, LastOf(section, n, at)) /\ j \in Solid(t, at, LastOf(section, n, at))
  BY <1>2, <1>3, <1>6, <1>7 DEF Solid
<1>9. at \in Int
  BY <1>2, <1>6
<1>10. PICK part \in Strip(t, at, LastOf(section, n, at)) : TRUE
  BY <1>7, <1>8, <1>9, StripHolds
<1>11. /\ part.from \in Int /\ part.to \in Int
       /\ part.from <= i /\ j <= part.to /\ part.from <= j /\ i <= part.to
  <2>1. part.from \in Solid(t, at, LastOf(section, n, at)) /\ part.to \in Solid(t, at, LastOf(section, n, at))
    BY <1>7, <1>9, StripHolds
  <2>2. part.from <= i /\ j <= part.to /\ part.from <= j /\ i <= part.to
    BY <1>7, <1>8, <1>9, StripHolds
  <2> QED
    BY <2>1, <2>2 DEF Solid
<1>12. [at |-> at, part |-> part] \in Chunks(t, n, o)
  <2>1. [at |-> at, part |-> part] \in ChunkSection(t, section, n, o)
    BY <1>4, <1>10, WindowIsChunk
  <2> QED
    BY <1>1, <2>1 DEF Chunks
<1>13. {i, j} \subseteq Positions(part)
  BY <1>3, <1>11 DEF Positions
<1> QED
  BY <1>12, <1>13

(***************************************************************************)
(* Every text.                                                             *)
(***************************************************************************)
TextOK == text \in Texts /\ size \in Nat \ {0} /\ overlap \in Nat

LEMMA ChunksFitAlways == ASSUME TextOK PROVE ChunksFit
<1> USE DEF TextOK
<1>1. ASSUME NEW c \in Chunks(text, size, overlap)
      PROVE  /\ c.part.to - c.part.from < size
             /\ \A i \in Positions(c.part) : text[i] = "heading" => i = c.part.from
  <2>1. PICK section \in SplitSections(text) :
          /\ c.at \in section.from..section.to
          /\ c.part \in Strip(text, c.at, LastOf(section, size, c.at))
    BY <1>1, ChunkFacts
  <2>2. Solid(text, 1, Len(text)) # {}
    BY <1>1, ChunkFacts
  <2>3. /\ section.from \in Int /\ section.to \in Int
        /\ \A i \in section.from..section.to : text[i] = "heading" => i = section.from
    BY <2>2, SectionFacts
  <2> PICK last : last = LastOf(section, size, c.at)
    OBVIOUS
  <2>4. /\ last \in Int /\ c.at \in Int /\ last <= section.to /\ last < c.at + size
        /\ c.part.from \in c.at..last /\ c.part.to \in c.at..last
        /\ \A i \in c.at..last : text[i] # "blank" => c.part.from <= i /\ i <= c.part.to
    BY <2>1, <2>2, <2>3, PartFacts
  <2>5. c.part.to - c.part.from < size
    BY <2>4
  <2>6. ASSUME NEW i \in Positions(c.part), text[i] = "heading"
        PROVE  i = c.part.from
    <3>1. i \in c.at..last /\ i \in section.from..section.to /\ c.part.from <= i
      BY <2>1, <2>3, <2>4, <2>6 DEF Positions
    <3>2. i = section.from
      BY <2>3, <2>6, <3>1
    <3>3. c.part.from \in Int /\ section.from <= c.part.from
      BY <2>1, <2>3, <2>4
    <3> QED
      BY <2>3, <3>1, <3>2, <3>3
  <2> QED
    BY <2>5, <2>6
<1>2. ASSUME NEW c \in Chunks(text, size, overlap), NEW d \in Chunks(text, size, overlap),
             c.at < d.at
      PROVE  c.part.from <= d.part.from /\ c.part.to <= d.part.to
  <2>1. PICK one \in SplitSections(text) :
          /\ c.at \in one.from..one.to
          /\ c.part \in Strip(text, c.at, LastOf(one, size, c.at))
    BY <1>2, ChunkFacts
  <2>2. PICK two \in SplitSections(text) :
          /\ d.at \in two.from..two.to
          /\ d.part \in Strip(text, d.at, LastOf(two, size, d.at))
    BY <1>2, ChunkFacts
  <2>3. Solid(text, 1, Len(text)) # {}
    BY <1>2, ChunkFacts
  <2>4. one.from \in Int /\ one.to \in Int /\ two.from \in Int /\ two.to \in Int
    BY <2>3, SectionFacts
  <2> PICK e : e = LastOf(one, size, c.at)
    OBVIOUS
  <2> PICK f : f = LastOf(two, size, d.at)
    OBVIOUS
  <2>5. /\ e \in Int /\ c.at \in Int /\ c.at <= e /\ e <= one.to /\ e < c.at + size
        /\ e = one.to \/ e = c.at + size - 1
        /\ c.part.from \in c.at..e /\ c.part.to \in c.at..e
        /\ text[c.part.from] # "blank" /\ text[c.part.to] # "blank"
        /\ \A i \in c.at..e : text[i] # "blank" => c.part.from <= i /\ i <= c.part.to
    BY <2>1, <2>3, <2>4, PartFacts
  <2>6. /\ f \in Int /\ d.at \in Int /\ d.at <= f /\ f <= two.to /\ f < d.at + size
        /\ f = two.to \/ f = d.at + size - 1
        /\ d.part.from \in d.at..f /\ d.part.to \in d.at..f
        /\ text[d.part.from] # "blank" /\ text[d.part.to] # "blank"
        /\ \A i \in d.at..f : text[i] # "blank" => d.part.from <= i /\ i <= d.part.to
    BY <2>2, <2>3, <2>4, PartFacts
  <2>7. CASE one = two
    <3>1. e <= f
      BY <1>2, <2>4, <2>5, <2>6, <2>7
    <3>2. c.part.from <= d.part.from
      <4>1. CASE d.part.from <= e
        BY <1>2, <2>5, <2>6, <4>1
      <4>2. CASE ~(d.part.from <= e)
        BY <2>5, <2>6, <4>2
      <4> QED
        BY <4>1, <4>2
    <3>3. c.part.to <= d.part.to
      <4>1. CASE c.part.to >= d.at
        BY <2>5, <2>6, <3>1, <4>1
      <4>2. CASE ~(c.part.to >= d.at)
        BY <2>5, <2>6, <4>2
      <4> QED
        BY <4>1, <4>2
    <3> QED
      BY <3>2, <3>3
  <2>8. CASE one.to < two.from
    BY <2>1, <2>2, <2>4, <2>5, <2>6, <2>8
  <2>9. CASE two.to < one.from
    BY <1>2, <2>1, <2>2, <2>4, <2>5, <2>6, <2>9
  <2> QED
    BY <2>3, <2>7, <2>8, <2>9, SectionsInOrder
<1> QED
  BY <1>1, <1>2 DEF ChunksFit

LEMMA TextNextOK == ASSUME TextOK, [TextNext]_textVars PROVE TextOK'
<1>1. ASSUME NEW kind \in Kinds, Extend(kind) PROVE TextOK'
  BY <1>1, TextAssumption DEF Extend, TextOK, Texts
<1>2. CASE UNCHANGED textVars
  BY <1>2 DEF textVars, TextOK
<1> QED
  BY <1>1, <1>2 DEF TextNext

(* The specification of DocumentText alone: a text written token by token. *)
TextSpec == TextInit /\ [][TextNext]_textVars

(* For every text, chunk size and overlap: no token that is not blank is   *)
(* lost, chunks fit, begin at headings and keep the order of the text, and *)
(* a phrase shorter than the overlap and a chunk is whole in some chunk.   *)
THEOREM ChunksHoldTheTextCorrect == TextSpec => []ChunksHoldTheText
<1>1. TextInit => TextOK
  BY TextAssumption DEF TextInit, TextOK, Texts
<1>2. TextOK /\ [TextNext]_textVars => TextOK'
  BY TextNextOK
<1>3. TextOK => ChunksHoldTheText
  <2> SUFFICES ASSUME TextOK PROVE ChunksHoldTheText
    OBVIOUS
  <2>1. NothingIsLost
    <3> SUFFICES ASSUME NEW i \in Solid(text, 1, Len(text))
                 PROVE  \E c \in Chunks(text, size, overlap) : i \in Positions(c.part)
      BY DEF NothingIsLost
    <3>1. i \in Int
      BY DEF Solid, TextOK, Texts
    <3>2. i - i = 0 /\ 0 <= overlap /\ 0 < size /\ (i + 1)..i = {}
      BY <3>1 DEF TextOK
    <3> QED
      BY <3>1, <3>2, PhraseInChunk DEF TextOK
  <2>2. ChunksFit
    BY ChunksFitAlways
  <2>3. ShortPhrasesStayWhole
    BY PhraseInChunk DEF ShortPhrasesStayWhole, TextOK
  <2> QED
    BY <2>1, <2>2, <2>3 DEF ChunksHoldTheText
<1> QED
  BY <1>1, <1>2, <1>3, PTL DEF TextSpec

(***************************************************************************)
(* A text that grows.                                                      *)
(***************************************************************************)
(* u is t and one token more.                                              *)
Grows(t, u) == \E kind \in AllKinds : u = Append(t, kind)

LEMMA Grown ==
  ASSUME NEW t \in Texts, NEW u, Grows(t, u)
  PROVE  /\ u \in Texts /\ Len(t) \in Nat /\ Len(u) = Len(t) + 1
         /\ DOMAIN t = 1..Len(t) /\ DOMAIN u = 1..(Len(t) + 1)
         /\ \A i \in 1..Len(t) : u[i] = t[i]
BY DEF Grows, Texts

(* Every chunk of a text is still there, or longer, when a token follows.  *)
LEMMA HeadsGrow ==
  ASSUME NEW t \in Texts, NEW u, Grows(t, u),
         Solid(t, 1, Len(t)) # {}
  PROVE  /\ Solid(u, 1, Len(u)) # {} /\ Heads(t) \subseteq Heads(u)
         /\ \A h \in Heads(u) : h \in Heads(t) \/ h = Len(t) + 1
<1>1. /\ u \in Texts /\ Len(t) \in Nat /\ Len(u) = Len(t) + 1
      /\ DOMAIN t = 1..Len(t) /\ DOMAIN u = 1..(Len(t) + 1)
      /\ \A i \in 1..Len(t) : u[i] = t[i]
  BY Grown
<1>2. /\ \A i \in Solid(t, 1, Len(t)) : i \in Solid(u, 1, Len(u))
      /\ \A i \in Solid(u, 1, Len(u)) : i \in Solid(t, 1, Len(t)) \/ i = Len(t) + 1
      /\ \A i \in Solid(t, 1, Len(t)) : i \in Int /\ i <= Len(t)
  BY <1>1 DEF Solid
<1>3. Solid(u, 1, Len(u)) # {}
  BY <1>2
<1> PICK m : m = Min(Solid(t, 1, Len(t)))
  OBVIOUS
<1>4. m \in Solid(t, 1, Len(t)) /\ \A i \in Solid(t, 1, Len(t)) : m <= i
  BY <1>1, SolidIsFinite, MinOfFinite
<1>5. m \in Solid(u, 1, Len(u)) /\ \A i \in Solid(u, 1, Len(u)) : m <= i
  BY <1>1, <1>2, <1>4
<1>6. Min(Solid(u, 1, Len(u))) = m
  BY <1>1, <1>5, SolidIsFinite, MinIs
<1> QED
  BY <1>1, <1>3, <1>6 DEF Heads

LEMMA SectionGrows ==
  ASSUME NEW t \in Texts, NEW u, Grows(t, u),
         Solid(t, 1, Len(t)) # {}, NEW section \in SplitSections(t)
  PROVE  \E longer \in SplitSections(u) : /\ longer.from = section.from
                                         /\ longer.to \in Int /\ section.to <= longer.to
<1>1. /\ u \in Texts /\ Len(t) \in Nat /\ Len(u) = Len(t) + 1
      /\ \A i \in 1..Len(t) : u[i] = t[i]
  BY Grown
<1>2. PICK h \in Heads(t) : section \in Strip(t, h, EndOf(t, h))
  BY SectionsByHead
<1>3. /\ Solid(u, 1, Len(u)) # {} /\ h \in Heads(u)
      /\ \A k \in Heads(u) : k \in Heads(t) \/ k = Len(t) + 1
  BY HeadsGrow
<1>4. h \in Int /\ 1 <= h /\ Heads(u) \subseteq Int
  BY <1>1, <1>3, HeadsAreInside
<1> PICK e : e = EndOf(t, h)
  OBVIOUS
<1> PICK f : f = EndOf(u, h)
  OBVIOUS
<1>5. /\ e \in Int /\ e <= Len(t)
      /\ \A k \in Heads(t) : h < k => e < k
  BY EndIsNext
<1>6. /\ f \in Int /\ f <= Len(t) + 1
      /\ f = Len(t) + 1 \/ \E k \in Heads(u) : h < k /\ f = k - 1
  BY <1>1, <1>3, EndIsNext
<1>7. e <= f
  <2>1. CASE f = Len(t) + 1
    BY <1>1, <1>5, <2>1
  <2>2. CASE \E k \in Heads(u) : h < k /\ f = k - 1
    <3>1. PICK k \in Heads(u) : h < k /\ f = k - 1
      BY <2>2
    <3>2. CASE k \in Heads(t)
      BY <1>4, <1>5, <3>1, <3>2
    <3>3. CASE k = Len(t) + 1
      BY <1>1, <1>5, <3>1, <3>3
    <3> QED
      BY <1>3, <3>2, <3>3
  <2> QED
    BY <1>6, <2>1, <2>2
<1>8. /\ section.from \in Solid(t, h, e) /\ section.to \in Solid(t, h, e)
      /\ \A i \in Solid(t, h, e) : section.from <= i /\ i <= section.to
  BY <1>2, <1>4, <1>5, StripHolds
<1>9. \A i \in h..e : i \in Solid(t, h, e) <=> i \in Solid(u, h, f)
  BY <1>1, <1>4, <1>5, <1>6, <1>7 DEF Solid
<1>10. /\ section.from \in h..e /\ section.to \in h..e
  BY <1>8 DEF Solid
<1>11. section.from \in Solid(u, h, f) /\ section.to \in Solid(u, h, f)
  BY <1>8, <1>9, <1>10
<1>12. PICK longer \in Strip(u, h, f) : TRUE
  BY <1>4, <1>6, <1>11, StripHolds
<1>13. /\ longer.from \in Solid(u, h, f) /\ longer.to \in Solid(u, h, f)
       /\ longer.from <= section.from /\ section.to <= longer.to
  BY <1>4, <1>6, <1>11, StripHolds
<1>14. longer.from \in h..f /\ longer.to \in h..f
  BY <1>13 DEF Solid
<1>15. longer.from \in h..e
  BY <1>4, <1>5, <1>6, <1>10, <1>13, <1>14
<1>16. section.from <= longer.from
  BY <1>8, <1>9, <1>13, <1>15
<1>17. longer.from = section.from
  BY <1>4, <1>5, <1>6, <1>10, <1>13, <1>14, <1>16
<1>18. longer \in SplitSections(u)
  BY <1>3, SectionsByHead
<1> QED
  BY <1>4, <1>6, <1>13, <1>14, <1>17, <1>18

LEMMA StartsGrow ==
  ASSUME NEW n \in Nat \ {0}, NEW o \in Nat, NEW len \in Int, NEW more \in Int, len <= more
  PROVE  Starts(len, n, o) \subseteq Starts(more, n, o)
<1> PICK d : d = Stride(n, o)
  OBVIOUS
<1>1. d \in Nat \ {0}
  BY StrideFits
<1>2. Starts(len, n, o) = {s \in 0..(len - 1) : s % d = 0 /\ (s = 0 \/ s - d + n < len)}
  BY DEF Starts
<1>3. Starts(more, n, o) = {s \in 0..(more - 1) : s % d = 0 /\ (s = 0 \/ s - d + n < more)}
  BY DEF Starts
<1> QED
  BY <1>1, <1>2, <1>3

(* What a chunk is, in full.                                               *)
LEMMA ChunkShape ==
  ASSUME NEW t \in Texts, NEW n \in Nat \ {0}, NEW o \in Nat, NEW c \in Chunks(t, n, o)
  PROVE  \E section \in SplitSections(t) :
           \E s \in Starts(section.to - section.from + 1, n, o) :
             /\ c = [at |-> section.from + s, part |-> c.part]
             /\ c.part \in Strip(t, section.from + s, LastOf(section, n, section.from + s))
<1>1. PICK section \in SplitSections(t) : c \in ChunkSection(t, section, n, o)
  BY DEF Chunks
<1>2. PICK s \in Starts(section.to - section.from + 1, n, o) :
        \E p \in Strip(t, section.from + s, LastOf(section, n, section.from + s)) :
          c = [at |-> section.from + s, part |-> p]
  BY <1>1, ChunkOfWindow
<1> QED
  BY <1>2

LEMMA ChunkGrows ==
  ASSUME NEW t \in Texts, NEW u, Grows(t, u),
         NEW n \in Nat \ {0}, NEW o \in Nat, NEW c \in Chunks(t, n, o)
  PROVE  \E d \in Chunks(u, n, o) :
           /\ d.at = c.at
           /\ \A i \in Positions(c.part) : /\ i \in Positions(d.part) /\ i \in DOMAIN t
                                           /\ u[i] = t[i]
<1>1. /\ u \in Texts /\ Len(t) \in Nat /\ Len(u) = Len(t) + 1 /\ DOMAIN t = 1..Len(t)
      /\ \A i \in 1..Len(t) : u[i] = t[i]
  BY Grown
<1>2. Solid(t, 1, Len(t)) # {}
  BY ChunkFacts
<1>3. PICK section \in SplitSections(t) :
        \E s \in Starts(section.to - section.from + 1, n, o) :
          /\ c = [at |-> section.from + s, part |-> c.part]
          /\ c.part \in Strip(t, section.from + s, LastOf(section, n, section.from + s))
  BY ChunkShape
<1>4. PICK s \in Starts(section.to - section.from + 1, n, o) :
        /\ c = [at |-> section.from + s, part |-> c.part]
        /\ c.part \in Strip(t, section.from + s, LastOf(section, n, section.from + s))
  BY <1>3
<1>5. /\ section.from \in Int /\ section.to \in Int /\ 1 <= section.from
      /\ section.from <= section.to /\ section.to <= Len(t)
  BY <1>2, SectionFacts
<1> PICK at : at = section.from + s
  OBVIOUS
<1>6. c.at = at /\ at \in section.from..section.to /\ c.part \in Strip(t, at, LastOf(section, n, at))
  <2> PICK len : len = section.to - section.from + 1
    OBVIOUS
  <2>1. s \in 0..(len - 1)
    BY <1>4, StartIsInside
  <2> QED
    BY <1>4, <1>5, <2>1
<1> PICK last : last = LastOf(section, n, at)
  OBVIOUS
<1>7. /\ at \in Int /\ last \in Int /\ at <= last /\ last <= section.to
      /\ last = section.to \/ last = at + n - 1
      /\ last < at + n
  <2>1. at \in Int
    BY <1>5, <1>6
  <2>2. /\ last \in Int /\ at <= last /\ last <= section.to
        /\ last = section.to \/ last = at + n - 1
        /\ last < at + n
    BY <1>2, <1>6, PartFacts
  <2> QED
    BY <2>1, <2>2
<1>16. /\ c.part.from \in at..last /\ c.part.to \in at..last
       /\ t[c.part.from] # "blank" /\ t[c.part.to] # "blank"
  BY <1>2, <1>6, PartFacts
<1>17. /\ c.part.from \in Int /\ at <= c.part.from /\ c.part.from <= last
       /\ c.part.to \in Int /\ at <= c.part.to /\ c.part.to <= last
  BY <1>7, <1>16
<1>18. 1 <= at /\ last <= Len(t)
  <2>1. section.from <= at
    BY <1>5, <1>6
  <2> QED
    BY <1>1, <1>5, <1>7, <2>1
<1>8. PICK longer \in SplitSections(u) : /\ longer.from = section.from
                                        /\ longer.to \in Int /\ section.to <= longer.to
  BY <1>2, SectionGrows
<1> PICK end : end = LastOf(longer, n, at)
  OBVIOUS
<1>9. end \in Int /\ last <= end
  <2>1. end = IF at + n - 1 <= longer.to THEN at + n - 1 ELSE longer.to
    BY <1>7, <1>8, MinOfTwo DEF LastOf
  <2> QED
    BY <1>5, <1>7, <1>8, <2>1, Z3
<1>10. c.part.from \in Solid(u, at, end) /\ c.part.to \in Solid(u, at, end)
  <2>1. c.part.from \in 1..Len(t) /\ c.part.to \in 1..Len(t)
    BY <1>1, <1>7, <1>17, <1>18, Widened
  <2>2. u[c.part.from] # "blank" /\ u[c.part.to] # "blank"
    BY <1>1, <1>16, <2>1
  <2>3. c.part.from \in at..end /\ c.part.to \in at..end
    BY <1>7, <1>9, <1>17
  <2> QED
    BY <2>2, <2>3 DEF Solid
<1>11. PICK part \in Strip(u, at, end) : TRUE
  BY <1>7, <1>9, <1>10, StripHolds
<1>12. /\ part.from \in Solid(u, at, end) /\ part.to \in Solid(u, at, end)
       /\ part.from <= c.part.from /\ c.part.to <= part.to
  BY <1>7, <1>9, <1>10, StripHolds
<1>13. part.from \in Int /\ part.to \in Int
  BY <1>7, <1>9, <1>12 DEF Solid
<1>14. [at |-> at, part |-> part] \in Chunks(u, n, o)
  <2>1. s \in Starts(longer.to - longer.from + 1, n, o)
    BY <1>5, <1>8, StartsGrow
  <2>2. [at |-> at, part |-> part] \in ChunkSection(u, longer, n, o)
    BY <1>8, <1>11, <2>1, WindowIsChunk
  <2>3. Solid(u, 1, Len(u)) # {}
    BY <1>2, HeadsGrow
  <2> QED
    BY <1>8, <2>2, <2>3 DEF Chunks
<1>15. \A i \in Positions(c.part) : i \in Positions(part) /\ i \in DOMAIN t /\ u[i] = t[i]
  <2> SUFFICES ASSUME NEW i \in Positions(c.part)
               PROVE  i \in Positions(part) /\ i \in DOMAIN t /\ u[i] = t[i]
    OBVIOUS
  <2>1. i \in Int /\ c.part.from <= i /\ i <= c.part.to /\ c.part.from \in Int /\ c.part.to \in Int
    BY <1>17 DEF Positions
  <2>2. i \in 1..Len(t)
    BY <1>1, <1>7, <1>17, <1>18, <2>1
  <2>3. i \in Positions(part)
    BY <1>12, <1>13, <2>1 DEF Positions
  <2> QED
    BY <1>1, <2>2, <2>3
<1> QED
  BY <1>6, <1>14, <1>15

(* No two chunks begin at the same place.                                  *)
LEMMA ChunkByPlace ==
  ASSUME NEW t \in Texts, NEW n \in Nat \ {0}, NEW o \in Nat,
         NEW c \in Chunks(t, n, o), NEW d \in Chunks(t, n, o), c.at = d.at
  PROVE  c = d
<1>1. Solid(t, 1, Len(t)) # {}
  BY ChunkFacts
<1>2. PICK one \in SplitSections(t) :
        /\ c.at \in one.from..one.to /\ c.part \in Strip(t, c.at, LastOf(one, n, c.at))
  BY ChunkFacts
<1>3. PICK two \in SplitSections(t) :
        /\ d.at \in two.from..two.to /\ d.part \in Strip(t, d.at, LastOf(two, n, d.at))
  BY ChunkFacts
<1>4. one.from \in Int /\ one.to \in Int /\ two.from \in Int /\ two.to \in Int
  BY <1>1, SectionFacts
<1>5. one = two
  BY <1>1, <1>2, <1>3, <1>4, SectionsInOrder
<1>6. c.part = d.part
  BY <1>2, <1>3, <1>5 DEF Strip
<1>7. c = [at |-> c.at, part |-> c.part] /\ d = [at |-> d.at, part |-> d.part]
  <2>1. PICK a : c = [at |-> a, part |-> c.part]
    BY ChunkShape
  <2>2. PICK b : d = [at |-> b, part |-> d.part]
    BY ChunkShape
  <2> QED
    BY <2>1, <2>2
<1> QED
  BY <1>6, <1>7

(***************************************************************************)
(* The findings of a text that grows.                                      *)
(***************************************************************************)
LEMMA CountGrows ==
  ASSUME NEW t \in Texts, NEW u, Grows(t, u), NEW k
  PROVE  Count(t, k) \in Nat /\ Count(u, k) \in Nat /\ Count(t, k) <= Count(u, k)
<1>1. /\ Len(t) \in Nat /\ DOMAIN t = 1..Len(t) /\ DOMAIN u = 1..(Len(t) + 1)
      /\ \A i \in 1..Len(t) : u[i] = t[i]
  BY Grown
<1> DEFINE old == {i \in DOMAIN t : t[i] = k}
           new == {i \in DOMAIN u : u[i] = k}
<1>2. old \in SUBSET new /\ new \in SUBSET (1..(Len(t) + 1))
  BY <1>1
<1>3. IsFiniteSet(1..(Len(t) + 1))
  BY <1>1, FS_Interval
<1>4. IsFiniteSet(new)
  BY <1>2, <1>3, FS_Subset
<1>5. IsFiniteSet(old) /\ Cardinality(old) <= Cardinality(new)
  <2> HIDE DEF old, new
  <2> QED
    BY <1>2, <1>4, FS_Subset
<1>6. Cardinality(old) \in Nat /\ Cardinality(new) \in Nat
  BY <1>4, <1>5, FS_CardinalityType
<1> QED
  BY <1>5, <1>6 DEF Count

(* The chunks with a directive.                                            *)
Baits(t, n, o) == {c \in Chunks(t, n, o) : Directive(t, c.part)}

LEMMA BaitsFinite ==
  ASSUME NEW t \in Texts, NEW n \in Nat \ {0}, NEW o \in Nat
  PROVE  IsFiniteSet(Baits(t, n, o)) /\ Cardinality(Baits(t, n, o)) \in Nat
<1>1. \A c \in Baits(t, n, o) : c.at \in 1..Len(t)
  <2> SUFFICES ASSUME NEW c \in Chunks(t, n, o) PROVE c.at \in 1..Len(t)
    BY DEF Baits
  <2>1. Solid(t, 1, Len(t)) # {}
    BY ChunkFacts
  <2>2. PICK section \in SplitSections(t) : c.at \in section.from..section.to
    BY ChunkFacts
  <2>3. /\ section.from \in Int /\ section.to \in Int
        /\ 1 <= section.from /\ section.to <= Len(t)
    BY <2>1, SectionFacts
  <2>4. Len(t) \in Nat
    BY DEF Texts
  <2> QED
    BY <2>2, <2>3, <2>4
<1> DEFINE place == [c \in Baits(t, n, o) |-> c.at]
<1>2. place \in [Baits(t, n, o) -> 1..Len(t)]
  BY <1>1
<1>3. \A c, d \in Baits(t, n, o) : place[c] = place[d] => c = d
  BY ChunkByPlace DEF Baits
<1>4. place \in Injection(Baits(t, n, o), 1..Len(t))
  <2> HIDE DEF place
  <2> QED
    BY <1>2, <1>3 DEF Injection, IsInjective
<1>5. IsFiniteSet(1..Len(t))
  BY FS_Interval DEF Texts
<1>6. IsFiniteSet(Baits(t, n, o))
  <2> HIDE DEF place
  <2> QED
    BY <1>4, <1>5, FS_Injection
<1> QED
  BY <1>6, FS_CardinalityType

LEMMA BaitsGrow ==
  ASSUME NEW t \in Texts, NEW u, Grows(t, u),
         NEW n \in Nat \ {0}, NEW o \in Nat
  PROVE  Cardinality(Baits(t, n, o)) <= Cardinality(Baits(u, n, o))
<1>1. ASSUME NEW c \in Baits(t, n, o) PROVE \E d \in Baits(u, n, o) : d.at = c.at
  <2>1. c \in Chunks(t, n, o) /\ Directive(t, c.part)
    BY DEF Baits
  <2>2. PICK d \in Chunks(u, n, o) :
          /\ d.at = c.at
          /\ \A i \in Positions(c.part) : i \in Positions(d.part) /\ u[i] = t[i]
    BY <2>1, ChunkGrows
  <2>3. Directive(u, d.part)
    BY <2>1, <2>2 DEF Directive
  <2> QED
    BY <2>2, <2>3 DEF Baits
<1> DEFINE f == [c \in Baits(t, n, o) |-> CHOOSE d \in Baits(u, n, o) : d.at = c.at]
<1>2. \A c \in Baits(t, n, o) : f[c] \in Baits(u, n, o) /\ f[c].at = c.at
  BY <1>1
<1>3. f \in [Baits(t, n, o) -> Baits(u, n, o)]
  BY <1>2
<1>4. \A c, d \in Baits(t, n, o) : f[c] = f[d] => c = d
  <2> HIDE DEF f
  <2> QED
    BY <1>2, ChunkByPlace DEF Baits
<1>5. f \in Injection(Baits(t, n, o), Baits(u, n, o))
  <2> HIDE DEF f
  <2> QED
    BY <1>3, <1>4 DEF Injection, IsInjective
<1>6. u \in Texts
  BY Grown
<1>7. IsFiniteSet(Baits(u, n, o))
  BY <1>6, BaitsFinite
<1> QED
  <2> HIDE DEF f
  <2> QED
    BY <1>5, <1>7, FS_Injection

LEMMA RagBaitGrows ==
  ASSUME NEW t \in Texts, NEW u, Grows(t, u),
         NEW n \in Nat \ {0}, NEW o \in Nat
  PROVE  /\ RagBait(t, Chunks(t, n, o)) \in Nat /\ RagBait(u, Chunks(u, n, o)) \in Nat
         /\ RagBait(t, Chunks(t, n, o)) <= RagBait(u, Chunks(u, n, o))
<1>1. u \in Texts
  BY Grown
<1> PICK a \in Nat : a = Cardinality(Baits(t, n, o))
  BY BaitsFinite
<1> PICK b \in Nat : b = Cardinality(Baits(u, n, o))
  BY <1>1, BaitsFinite
<1>2. a <= b
  BY BaitsGrow
<1>3. RagBait(t, Chunks(t, n, o)) = IF a >= 2 THEN a ELSE 0
  BY DEF RagBait, Baits
<1>4. RagBait(u, Chunks(u, n, o)) = IF b >= 2 THEN b ELSE 0
  BY DEF RagBait, Baits
<1> QED
  BY <1>2, <1>3, <1>4

LEMMA DensityIsNat ==
  ASSUME NEW t \in Texts
  PROVE  InstructionDensity(t) \in Nat
<1>1. Len(t) \in Nat /\ DOMAIN t = 1..Len(t)
  BY DEF Texts
<1> DEFINE commands == {j \in DOMAIN t : t[j] = "command"}
           spoken == {SentenceOf(t, i) : i \in commands}
<1>2. \A i \in commands : SentenceOf(t, i) \in 0..Len(t)
  <2> SUFFICES ASSUME NEW i \in commands PROVE SentenceOf(t, i) \in 0..Len(t)
    OBVIOUS
  <2>1. i \in 1..Len(t)
    BY <1>1
  <2>2. {j \in 1..(i - 1) : t[j] = "stop"} \in SUBSET (1..Len(t))
    BY <1>1, <2>1
  <2>3. IsFiniteSet(1..Len(t)) /\ Cardinality(1..Len(t)) = Len(t)
    BY <1>1, IntervalFromOne
  <2>4. /\ IsFiniteSet({j \in 1..(i - 1) : t[j] = "stop"})
        /\ Cardinality({j \in 1..(i - 1) : t[j] = "stop"}) <= Len(t)
    BY <2>2, <2>3, FS_Subset
  <2>5. Cardinality({j \in 1..(i - 1) : t[j] = "stop"}) \in Nat
    BY <2>4, FS_CardinalityType
  <2> QED
    BY <1>1, <2>4, <2>5 DEF SentenceOf
<1>3. spoken \in SUBSET (0..Len(t))
  BY <1>2
<1>4. IsFiniteSet(0..Len(t))
  BY <1>1, FS_Interval
<1>5. Cardinality(spoken) \in Nat
  <2> HIDE DEF spoken
  <2> QED
    BY <1>3, <1>4, FS_Subset, FS_CardinalityType
<1> QED
  BY <1>5 DEF InstructionDensity

(* The status follows the counts: more of every finding is no cleaner.     *)
Kept == {"prompt_injection_pattern", "hidden_formatting", "structural_mimicry",
         "unicode_anomaly", "instruction_density", "rag_bait"}

LEMMA RankOfStatus ==
  Rank("clean") = 1 /\ Rank("warning") = 2 /\ Rank("review_required") = 3
<1>1. Statuses = <<"clean", "warning", "review_required">> /\ DOMAIN Statuses = 1..3
  BY DEF Statuses
<1>2. Statuses[1] = "clean" /\ Statuses[2] = "warning" /\ Statuses[3] = "review_required"
  BY DEF Statuses
<1>3. \A i \in DOMAIN Statuses : i = 1 \/ i = 2 \/ i = 3
  BY <1>1
<1>4. \E i \in DOMAIN Statuses : Statuses[i] = "clean"
  BY <1>1, <1>2
<1>5. \E i \in DOMAIN Statuses : Statuses[i] = "warning"
  BY <1>1, <1>2
<1>6. \E i \in DOMAIN Statuses : Statuses[i] = "review_required"
  BY <1>1, <1>2
<1>7. Rank("clean") \in DOMAIN Statuses /\ Statuses[Rank("clean")] = "clean"
  BY <1>4 DEF Rank
<1>8. Rank("warning") \in DOMAIN Statuses /\ Statuses[Rank("warning")] = "warning"
  BY <1>5 DEF Rank
<1>9. /\ Rank("review_required") \in DOMAIN Statuses
      /\ Statuses[Rank("review_required")] = "review_required"
  BY <1>6 DEF Rank
<1> QED
  BY <1>2, <1>3, <1>7, <1>8, <1>9

LEMMA StatusFollows ==
  ASSUME NEW few \in [Kept -> Nat], NEW many \in [Kept -> Nat],
         \A f \in Kept : few[f] <= many[f]
  PROVE  Rank(AggregateStatus(few)) <= Rank(AggregateStatus(many))
<1>1. /\ DOMAIN few = Kept /\ DOMAIN many = Kept
      /\ \A f \in Kept : few[f] \in Nat /\ many[f] \in Nat /\ few[f] <= many[f]
  OBVIOUS
<1>2. Total(few) \in Int /\ Total(many) \in Int /\ Total(few) <= Total(many)
  BY <1>1 DEF Total, Kept
<1> DEFINE clean(x) == \A f \in Kept : x[f] = 0
           grave(x) == (\E f \in Critical : x[f] > 0) \/ Total(x) >= WarningThreshold
<1>3. clean(many) => clean(few)
  BY <1>1
<1>4. grave(few) => grave(many)
  <2>1. ASSUME NEW f \in Critical, few[f] > 0 PROVE many[f] > 0
    BY <1>1, <2>1 DEF Critical, Kept
  <2>2. Total(few) >= WarningThreshold => Total(many) >= WarningThreshold
    BY <1>2, TextAssumption
  <2> QED
    BY <2>1, <2>2
<1>5. grave(few) /\ ~clean(few) => grave(many) /\ ~clean(many)
  BY <1>3, <1>4
<1>6. AggregateStatus(few) = IF clean(few) THEN "clean"
                             ELSE IF grave(few) THEN "review_required" ELSE "warning"
  BY <1>1 DEF AggregateStatus
<1>7. AggregateStatus(many) = IF clean(many) THEN "clean"
                              ELSE IF grave(many) THEN "review_required" ELSE "warning"
  BY <1>1 DEF AggregateStatus
<1> HIDE DEF clean, grave
<1> QED
  BY <1>3, <1>5, <1>6, <1>7, RankOfStatus

LEMMA ScanGrows ==
  ASSUME NEW t \in Texts, NEW u, Grows(t, u),
         NEW n \in Nat \ {0}, NEW o \in Nat, ~(InstructionDensity(t) > InstructionDensity(u))
  PROVE  Rank(IndexedStatus(t, n, o)) <= Rank(IndexedStatus(u, n, o))
<1>1. u \in Texts
  BY Grown
<1> PICK few : few = Findings(t, Chunks(t, n, o))
  OBVIOUS
<1> PICK many : many = Findings(u, Chunks(u, n, o))
  OBVIOUS
<1>2. \A k : Count(t, k) \in Nat /\ Count(u, k) \in Nat /\ Count(t, k) <= Count(u, k)
  BY CountGrows
<1>3. /\ UnicodeAnomalies(t) \in Nat /\ UnicodeAnomalies(u) \in Nat
      /\ UnicodeAnomalies(t) <= UnicodeAnomalies(u)
  BY <1>2 DEF UnicodeAnomalies
<1>4. /\ InstructionDensity(t) \in Nat /\ InstructionDensity(u) \in Nat
      /\ InstructionDensity(t) <= InstructionDensity(u)
  BY <1>1, DensityIsNat
<1>5. /\ RagBait(t, Chunks(t, n, o)) \in Nat /\ RagBait(u, Chunks(u, n, o)) \in Nat
      /\ RagBait(t, Chunks(t, n, o)) <= RagBait(u, Chunks(u, n, o))
  BY RagBaitGrows
<1>6. few \in [Kept -> Nat] /\ many \in [Kept -> Nat]
  BY <1>2, <1>3, <1>4, <1>5 DEF Findings, Kept
<1>7. \A f \in Kept : few[f] <= many[f]
  BY <1>2, <1>3, <1>4, <1>5 DEF Findings, Kept
<1> QED
  BY <1>6, <1>7, StatusFollows DEF IndexedStatus

(* A text that grows never looks cleaner than before, unless sentences     *)
(* were added that thin out its commands: however the chunks fall, each    *)
(* one with a directive has a successor with it at the same place.         *)
THEOREM StatusFallsOnlyByDilutionCorrect == TextSpec => StatusFallsOnlyByDilution
<1>1. TextInit => TextOK
  BY TextAssumption DEF TextInit, TextOK, Texts
<1>2. TextOK /\ [TextNext]_textVars => TextOK'
  BY TextNextOK
<1>3. TextOK /\ [TextNext]_textVars => [FallsOnlyByDilution]_textVars
  <2> SUFFICES ASSUME TextOK, NEW kind \in Kinds, Extend(kind) PROVE FallsOnlyByDilution
    BY DEF TextNext
  <2> PICK u : u = text'
    OBVIOUS
  <2>1. text' = u /\ size' = size /\ overlap' = overlap /\ Grows(text, u)
    BY TextAssumption DEF Extend, Grows
  <2>2. InstructionDensity(text) > InstructionDensity(u)
        \/ Rank(IndexedStatus(text, size, overlap)) <= Rank(IndexedStatus(u, size, overlap))
    BY <2>1, ScanGrows DEF TextOK
  <2>3. /\ Rank(IndexedStatus(text, size, overlap)) \in Int
        /\ Rank(IndexedStatus(u, size, overlap)) \in Int
    <3>1. \A found : AggregateStatus(found) \in {"clean", "warning", "review_required"}
      BY DEF AggregateStatus
    <3> QED
      BY <3>1, RankOfStatus DEF IndexedStatus
  <2> QED
    BY <2>1, <2>2, <2>3 DEF FallsOnlyByDilution
<1> QED
  BY <1>1, <1>2, <1>3, PTL DEF TextSpec, StatusFallsOnlyByDilution

(***************************************************************************)
(* The retrieval.                                                          *)
(***************************************************************************)
(* The levels a retrieval has read when it is at a statement.              *)
ReadBy(step) == CASE step \in {"idle", "task"} -> {}
                  [] step = "cluster" -> {2}
                  [] step = "org" -> {2, 3}
                  [] OTHER -> {2, 3, 4}

Reading == {"idle", "task", "cluster", "org", "papers"}
Places == Reading \union {"search", "again", "done"}

Found(threshold) == {p \in Scope : grade[p] >= threshold}

RagTypes ==
  /\ pc \in Places
  /\ attached \in [Levels -> SUBSET Collections]
  /\ ready \subseteq Pieces /\ papers \subseteq TaskPapers
  /\ grade \in [Pieces -> Grades]
  /\ asked \in Nat
  /\ DOMAIN level \subseteq Collections /\ \A c \in DOMAIN level : level[c] \in Levels
  /\ changes \in Nat

(* What was read of a collection nobody touched is what is so.             *)
NearestSoFar ==
  /\ \A c \in Collections \ touched :
       /\ c \in DOMAIN level => /\ level[c] \in ReadBy(pc) /\ c \in attached[level[c]]
                                /\ \A l \in ReadBy(pc) : c \in attached[l] => level[c] <= l
       /\ \A l \in ReadBy(pc) : c \in attached[l] => c \in DOMAIN level
  /\ changes = 0 => touched = {}
  /\ pc = "idle" => changes = 0

PapersRead ==
  pc \in {"search", "again", "done"} /\ changes = 0 =>
    papers = {q \in TaskPapers : \E p \in ready : Owner[p] = q}

(* Between the two searches.                                               *)
FirstSearched ==
  pc = "again" =>
    /\ IsFiniteSet(first) /\ Cardinality(first) < Enough /\ asked > Floor
    /\ ~stirred /\ Cardinality(first) < TopK => first = Found(asked)

RagInv ==
  /\ RagTypes /\ NearestSoFar /\ PapersRead /\ FirstSearched
  /\ pc \in Reading \union {"search"} => scored = <<>> /\ first = {}
  /\ AnswerIsBest

LEMMA NotAnswered == ASSUME ~Answered PROVE AnswerIsBest
BY DEF AnswerIsBest, NearestLevelCounts, OnlyThinAnswersFallBack, FallbackKeepsTheFirst,
       NothingBetterIsLeftOut

LEMMA InitRag == ASSUME RagInit PROVE RagInv
<1>1. DOMAIN level = {}
  BY DEF RagInit
<1>2. RagTypes
  BY <1>1 DEF RagInit, RagTypes, Places, Reading, Levels
<1>3. NearestSoFar
  BY <1>1 DEF RagInit, NearestSoFar, ReadBy
<1>4. PapersRead /\ FirstSearched /\ AnswerIsBest
  BY NotAnswered DEF RagInit, PapersRead, FirstSearched, Answered
<1> QED
  BY <1>2, <1>3, <1>4 DEF RagInit, RagInv

LEMMA RelateStep == ASSUME RagInv, Relate PROVE RagInv'
<1> PICK l0 \in Levels, c0 \in Collections :
      /\ attached' = [attached EXCEPT ![l0] = SymDiff(@, {c0})]
      /\ touched' = IF Busy THEN touched \union {c0} ELSE {}
  BY DEF Relate
<1>1. /\ UNCHANGED <<ready, grade, pc, asked, level, papers, scored, first, stirred>>
      /\ changes' = IF Busy THEN changes + 1 ELSE changes
      /\ pc = "idle" \/ Busy
  BY DEF Relate
<1>2. RagTypes /\ NearestSoFar /\ changes \in Nat
  BY DEF RagInv, RagTypes
<1>3. SymDiff(attached[l0], {c0}) \subseteq Collections
  BY <1>2 DEF RagTypes, SymDiff
<1>4. RagTypes'
  <2>1. attached' \in [Levels -> SUBSET Collections]
    BY <1>2, <1>3 DEF RagTypes
  <2>2. changes' \in Nat
    BY <1>1, <1>2
  <2>3. /\ pc' \in Places /\ ready' \subseteq Pieces /\ papers' \subseteq TaskPapers
        /\ grade' \in [Pieces -> Grades] /\ asked' \in Nat
        /\ DOMAIN level' \subseteq Collections /\ \A c \in DOMAIN level' : level'[c] \in Levels
    BY <1>1, <1>2 DEF RagTypes
  <2> QED
    BY <2>1, <2>2, <2>3 DEF RagTypes
<1>5. \A l \in Levels, c \in Collections : c # c0 => (c \in attached'[l] <=> c \in attached[l])
  <2> TAKE l \in Levels, c \in Collections
  <2>1. CASE l = l0
    BY <1>2, <2>1 DEF RagTypes, SymDiff
  <2>2. CASE l # l0
    BY <1>2, <2>2 DEF RagTypes
  <2> QED
    BY <2>1, <2>2
<1>6. ~Answered' /\ pc # "done"
  BY <1>1 DEF Answered, Busy, Steps, Range
<1>7. NearestSoFar'
  <2>1. CASE Busy
    <3>1. changes' # 0 /\ touched' = touched \union {c0} /\ pc # "idle"
      BY <1>1, <1>2, <2>1 DEF Busy, Steps, Range
    <3>2. ReadBy(pc)' = ReadBy(pc) /\ ReadBy(pc) \subseteq Levels
      BY <1>1 DEF ReadBy, Levels
    <3> QED
      BY <1>1, <1>2, <1>5, <3>1, <3>2 DEF NearestSoFar, RagTypes
  <2>2. CASE ~Busy
    <3>1. pc = "idle" /\ touched' = {} /\ changes' = changes
      BY <1>1, <2>2
    <3>2. ReadBy(pc) = {} /\ ReadBy(pc)' = {}
      BY <1>1, <3>1 DEF ReadBy
    <3>3. DOMAIN level \cap (Collections \ touched) = {} /\ touched = {}
      BY <1>2, <3>1, <3>2 DEF NearestSoFar
    <3> QED
      BY <1>1, <1>2, <3>1, <3>2, <3>3 DEF NearestSoFar
  <2> QED
    BY <2>1, <2>2
<1>8. PapersRead'
  <2>1. changes' = 0 => ~Busy
    BY <1>1, <1>2
  <2> QED
    BY <1>1, <2>1 DEF PapersRead
<1>9. FirstSearched'
  <2>1. Found(asked)' = Found(asked)
    BY <1>1 DEF Found, Scope
  <2> QED
    BY <1>1, <2>1 DEF RagInv, FirstSearched
<1>10. AnswerIsBest'
  BY <1>6 DEF AnswerIsBest, NearestLevelCounts, OnlyThinAnswersFallBack,
              FallbackKeepsTheFirst, NothingBetterIsLeftOut
<1> QED
  BY <1>1, <1>4, <1>7, <1>8, <1>9, <1>10 DEF RagInv

LEMMA RepublishStep == ASSUME RagInv, Republish PROVE RagInv'
<1> PICK p0 \in Pieces : ready' = SymDiff(ready, {p0})
  BY DEF Republish
<1>1. /\ UNCHANGED <<attached, grade, pc, asked, level, papers, scored, first, touched>>
      /\ changes' = IF Busy THEN changes + 1 ELSE changes
      /\ pc = "idle" \/ Busy
      /\ stirred' = (pc = "again")
  BY DEF Republish
<1>2. RagTypes /\ NearestSoFar /\ changes \in Nat
  BY DEF RagInv, RagTypes
<1>3. RagTypes'
  BY <1>1, <1>2 DEF RagTypes, SymDiff
<1>4. ~Answered'
  BY <1>1 DEF Answered, Busy, Steps, Range
<1>5. NearestSoFar'
  <2>1. changes' = 0 => changes = 0
    BY <1>1, <1>2
  <2>2. pc = "idle" => changes' = changes
    BY <1>1 DEF Busy, Steps, Range
  <2>3. ReadBy(pc)' = ReadBy(pc)
    BY <1>1
  <2> QED
    BY <1>1, <1>2, <2>1, <2>2, <2>3 DEF NearestSoFar
<1>6. PapersRead'
  BY <1>1, <1>2 DEF PapersRead
<1>7. FirstSearched'
  BY <1>1 DEF RagInv, FirstSearched
<1>8. AnswerIsBest'
  BY <1>4 DEF AnswerIsBest, NearestLevelCounts, OnlyThinAnswersFallBack,
              FallbackKeepsTheFirst, NothingBetterIsLeftOut
<1> QED
  BY <1>1, <1>3, <1>5, <1>6, <1>7, <1>8 DEF RagInv

LEMMA AskStep == ASSUME RagInv, Ask PROVE RagInv'
<1>1. /\ UNCHANGED <<attached, ready, grade, level, papers, scored, first, touched,
                     stirred, changes>>
      /\ pc = "idle" /\ pc' = "task" /\ asked' \in Thresholds
  BY DEF Ask
<1>2. RagTypes'
  BY <1>1, RetrievalAssumption DEF RagInv, RagTypes, Places, Reading
<1>3. NearestSoFar'
  BY <1>1 DEF RagInv, NearestSoFar, ReadBy
<1>4. PapersRead' /\ FirstSearched' /\ ~Answered'
  BY <1>1 DEF PapersRead, FirstSearched, Answered
<1>5. AnswerIsBest'
  BY <1>4 DEF AnswerIsBest, NearestLevelCounts, OnlyThinAnswersFallBack,
              FallbackKeepsTheFirst, NothingBetterIsLeftOut
<1> QED
  BY <1>1, <1>2, <1>3, <1>4, <1>5 DEF RagInv, Reading

(* A further level is read: collections of a nearer level keep theirs.     *)
LEMMA ReadLevelStep ==
  ASSUME RagInv, NEW step, NEW l, NEW next, ReadLevel(step, l, next),
         l \in Levels, step \in Reading, next \in Reading \ {"idle"},
         ReadBy(next) = ReadBy(step) \union {l}, \A k \in ReadBy(step) : k < l,
         ReadBy(step) \subseteq Levels
  PROVE  RagInv'
<1>1. /\ UNCHANGED <<attached, ready, grade, asked, papers, scored, first, touched,
                     stirred, changes>>
      /\ pc = step /\ pc' = next /\ level' = WithLevel(level, attached[l], l)
  BY DEF ReadLevel
<1>2. RagTypes /\ NearestSoFar
  BY DEF RagInv
<1>3. /\ DOMAIN level' = DOMAIN level \union attached[l]
      /\ \A c \in DOMAIN level : level'[c] = level[c]
      /\ \A c \in attached[l] \ DOMAIN level : level'[c] = l
  BY <1>1 DEF WithLevel
<1>4. attached[l] \subseteq Collections
  BY <1>2 DEF RagTypes
<1>5. RagTypes'
  <2>1. DOMAIN level' \subseteq Collections /\ \A c \in DOMAIN level' : level'[c] \in Levels
    BY <1>2, <1>3, <1>4 DEF RagTypes
  <2> QED
    BY <1>1, <1>2, <2>1 DEF RagTypes, Places
<1>6. NearestSoFar'
  <2>1. ASSUME NEW c \in Collections \ touched, c \in DOMAIN level'
        PROVE  /\ level'[c] \in ReadBy(next) /\ c \in attached[level'[c]]
               /\ \A k \in ReadBy(next) : c \in attached[k] => level'[c] <= k
    <3>1. CASE c \in DOMAIN level
      <4>1. /\ level'[c] = level[c] /\ level[c] \in ReadBy(step) /\ c \in attached[level[c]]
            /\ \A k \in ReadBy(step) : c \in attached[k] => level[c] <= k
        BY <1>1, <1>2, <1>3, <2>1, <3>1 DEF NearestSoFar
      <4>2. level[c] <= l
        BY <4>1 DEF Levels
      <4> QED
        BY <4>1, <4>2
    <3>2. CASE c \notin DOMAIN level
      <4>1. c \in attached[l] /\ level'[c] = l
        BY <1>3, <2>1, <3>2
      <4>2. \A k \in ReadBy(step) : c \notin attached[k]
        BY <1>1, <1>2, <2>1, <3>2 DEF NearestSoFar
      <4>3. l <= l
        BY DEF Levels
      <4> QED
        BY <4>1, <4>2, <4>3
    <3> QED
      BY <3>1, <3>2
  <2>2. ASSUME NEW c \in Collections \ touched, NEW k \in ReadBy(next), c \in attached[k]
        PROVE  c \in DOMAIN level'
    BY <1>1, <1>2, <1>3, <2>2 DEF NearestSoFar
  <2> QED
    BY <1>1, <1>2, <2>1, <2>2 DEF NearestSoFar
<1>7. PapersRead' /\ FirstSearched' /\ ~Answered'
  BY <1>1 DEF PapersRead, FirstSearched, Answered, Reading
<1>8. AnswerIsBest'
  BY <1>7 DEF AnswerIsBest, NearestLevelCounts, OnlyThinAnswersFallBack,
              FallbackKeepsTheFirst, NothingBetterIsLeftOut
<1> QED
  BY <1>1, <1>5, <1>6, <1>7, <1>8 DEF RagInv, Reading

LEMMA LevelSteps ==
  ASSUME RagInv, \/ ReadLevel("task", 2, "cluster") \/ ReadLevel("cluster", 3, "org")
                 \/ ReadLevel("org", 4, "papers")
  PROVE  RagInv'
<1>1. CASE ReadLevel("task", 2, "cluster")
  BY <1>1, ReadLevelStep DEF ReadBy, Reading, Levels
<1>2. CASE ReadLevel("cluster", 3, "org")
  BY <1>2, ReadLevelStep DEF ReadBy, Reading, Levels
<1>3. CASE ReadLevel("org", 4, "papers")
  BY <1>3, ReadLevelStep DEF ReadBy, Reading, Levels
<1> QED
  BY <1>1, <1>2, <1>3

LEMMA ReadPapersStep == ASSUME RagInv, ReadPapers PROVE RagInv'
<1>1. /\ UNCHANGED <<attached, ready, grade, asked, level, scored, first, touched,
                     stirred, changes>>
      /\ pc = "papers" /\ papers' = {q \in TaskPapers : \E p \in ready : Owner[p] = q}
      /\ pc' = IF level = <<>> /\ papers' = {} THEN "done" ELSE "search"
  BY DEF ReadPapers
<1>2. RagTypes /\ NearestSoFar /\ scored = <<>> /\ first = {}
  BY <1>1 DEF RagInv, Reading
<1>3. RagTypes'
  BY <1>1, <1>2 DEF RagTypes, Places
<1>4. ReadBy(pc) = {2, 3, 4} /\ ReadBy(pc)' = {2, 3, 4} /\ Levels = {2, 3, 4}
  BY <1>1 DEF ReadBy, Levels
<1>5. NearestSoFar'
  BY <1>1, <1>2, <1>4 DEF NearestSoFar
<1>6. PapersRead' /\ FirstSearched'
  BY <1>1 DEF PapersRead, FirstSearched
<1>7. AnswerIsBest'
  <2>1. CASE pc' = "search"
    BY <2>1 DEF AnswerIsBest, NearestLevelCounts, OnlyThinAnswersFallBack,
                FallbackKeepsTheFirst, NothingBetterIsLeftOut, Answered
  <2>2. CASE pc' = "done"
    <3>1. DOMAIN level = {} /\ papers' = {}
      BY <1>1, <2>2
    <3>2. Range(scored)' = {} /\ first' = {}
      BY <1>1, <1>2 DEF Range
    <3>3. NearestLevelCounts' /\ OnlyThinAnswersFallBack' /\ FallbackKeepsTheFirst'
      BY <3>2 DEF NearestLevelCounts, OnlyThinAnswersFallBack, FallbackKeepsTheFirst
    <3>4. ASSUME changes = 0, NEW p \in ready
          PROVE  Owner[p] \notin TaskPapers /\ \A l \in Levels : Owner[p] \notin attached[l]
      <4>1. Owner[p] \notin TaskPapers
        BY <1>1, <3>1
      <4>2. ASSUME NEW l \in Levels, Owner[p] \in attached[l] PROVE FALSE
        <5>1. Owner[p] \in Collections \ touched /\ l \in ReadBy(pc)
          BY <1>2, <1>4, <3>4, <4>2 DEF RagTypes, NearestSoFar
        <5> QED
          BY <1>2, <3>1, <4>2, <5>1 DEF NearestSoFar
      <4> QED
        BY <4>1, <4>2
    <3>5. NothingBetterIsLeftOut'
      BY <1>1, <3>4 DEF NothingBetterIsLeftOut
    <3> QED
      BY <3>3, <3>5 DEF AnswerIsBest
  <2> QED
    BY <1>1, <2>1, <2>2
<1> QED
  BY <1>1, <1>2, <1>3, <1>5, <1>6, <1>7 DEF RagInv, Reading

(***************************************************************************)
(* One search of the index.                                                *)
(***************************************************************************)
Given == {r.piece : r \in Range(scored)}

LEMMA RowFields ==
  ASSUME NEW r, NEW p, NEW g, NEW l, r = [piece |-> p, grade |-> g, level |-> l]
  PROVE  r.piece = p /\ r.grade = g /\ r.level = l
OBVIOUS

(* The chunks of a search: the best that were found, each once, with its   *)
(* similarity and its level.                                               *)
LEMMA SearchFacts ==
  ASSUME RagTypes, NEW threshold, VectorSearch(threshold)
  PROVE  \E chosen \in SUBSET Found(threshold) :
           /\ Best(Found(threshold), chosen) /\ IsFiniteSet(chosen)
           /\ Len(scored') = Cardinality(chosen) /\ Given' = chosen
           /\ \A r \in Range(scored)' : /\ r.piece \in chosen
                                        /\ r.grade = grade[r.piece]
                                        /\ r.level = PriorityLevel(r.piece)
<1> DEFINE found == Found(threshold)
<1>1. PICK chosen \in SUBSET found :
        /\ Best(found, chosen)
        /\ \E order \in Bijection(1..Cardinality(chosen), chosen) :
             scored' = [i \in DOMAIN order |->
                          [piece |-> order[i], grade |-> grade[order[i]],
                           level |-> PriorityLevel(order[i])]]
  BY DEF VectorSearch, Found
<1>2. PICK order \in Bijection(1..Cardinality(chosen), chosen) :
        scored' = [i \in DOMAIN order |->
                     [piece |-> order[i], grade |-> grade[order[i]],
                      level |-> PriorityLevel(order[i])]]
  BY <1>1
<1>3. IsFiniteSet(chosen) /\ Cardinality(chosen) \in Nat
  <2>1. chosen \in SUBSET Pieces
    BY <1>1 DEF Found, Scope
  <2> QED
    BY <2>1, RetrievalAssumption, FS_Subset, FS_CardinalityType
<1> PICK n \in Nat : n = Cardinality(chosen)
  BY <1>3
<1>4. /\ DOMAIN order = 1..n /\ \A i \in 1..n : order[i] \in chosen
      /\ \A p \in chosen : \E i \in 1..n : order[i] = p
  BY <1>2 DEF Bijection, Injection, Surjection
<1>5. DOMAIN scored' = 1..n /\ Len(scored') = n
  BY <1>2, <1>4
<1>6. \A i \in 1..n : /\ scored'[i].piece = order[i]
                      /\ scored'[i].grade = grade[order[i]]
                      /\ scored'[i].level = PriorityLevel(order[i])
  <2> TAKE i \in 1..n
  <2>1. scored'[i] = [piece |-> order[i], grade |-> grade[order[i]],
                      level |-> PriorityLevel(order[i])]
    BY <1>2, <1>4
  <2> QED
    BY <2>1, RowFields
<1>7. Range(scored)' = {scored'[i] : i \in 1..n}
  BY <1>5 DEF Range
<1>8. \A r \in Range(scored)' : /\ r.piece \in chosen
                                /\ r.grade = grade[r.piece]
                                /\ r.level = PriorityLevel(r.piece)
  <2> TAKE r \in Range(scored)'
  <2>1. PICK i \in 1..n : r = scored'[i]
    BY <1>7
  <2>2. /\ r.piece = order[i] /\ r.grade = grade[order[i]]
        /\ r.level = PriorityLevel(order[i])
    BY <1>6, <2>1
  <2> QED
    BY <1>4, <2>1, <2>2
<1>9. Given' = chosen
  <2>1. Given' = {r.piece : r \in Range(scored)'}
    BY DEF Given
  <2>2. ASSUME NEW p \in chosen PROVE p \in Given'
    <3>1. PICK i \in 1..n : order[i] = p
      BY <1>4
    <3>2. scored'[i] \in Range(scored)' /\ scored'[i].piece = p
      BY <1>6, <1>7, <3>1
    <3> QED
      BY <2>1, <3>2
  <2>3. Given' \subseteq chosen
    BY <1>8, <2>1
  <2> QED
    BY <2>2, <2>3
<1> QED
  BY <1>1, <1>3, <1>5, <1>8, <1>9

(* The best of what was found: all of it, or TopK that are at least as     *)
(* good as what is left out.                                               *)
LEMMA BestFacts ==
  ASSUME NEW found, IsFiniteSet(found), NEW chosen \in SUBSET found, Best(found, chosen)
  PROVE  /\ Cardinality(chosen) \in Nat /\ Cardinality(chosen) <= TopK
         /\ chosen = found \/ Cardinality(chosen) = TopK
         /\ \A p \in chosen, q \in found \ chosen : grade[q] <= grade[p]
<1>1. Cardinality(found) \in Nat /\ TopK \in Nat
  BY FS_CardinalityType, RetrievalAssumption
<1>2. /\ Cardinality(chosen) = TopK \/ Cardinality(chosen) = Cardinality(found)
      /\ Cardinality(chosen) <= TopK /\ Cardinality(chosen) \in Nat
  BY <1>1, MinOfTwo DEF Best
<1>3. Cardinality(chosen) = Cardinality(found) => chosen = found
  BY FS_Subset
<1> QED
  BY <1>2, <1>3 DEF Best

LEMMA FoundFacts ==
  ASSUME RagTypes, NEW threshold
  PROVE  /\ Found(threshold) \subseteq Pieces /\ IsFiniteSet(Found(threshold))
         /\ \A p \in Pieces : grade[p] \in Nat /\ Owner[p] \in TaskPapers \union Collections
<1>1. Found(threshold) \in SUBSET Pieces
  BY DEF Found, Scope
<1>2. IsFiniteSet(Found(threshold))
  BY <1>1, RetrievalAssumption, FS_Subset
<1>3. \A p \in Pieces : grade[p] \in Nat /\ Owner[p] \in TaskPapers \union Collections
  BY RetrievalAssumption DEF RagTypes
<1> QED
  BY <1>1, <1>2, <1>3

(* All levels have been read when the index is searched.                   *)
LEMMA LevelIsNearest ==
  ASSUME RagTypes, NearestSoFar, pc \in {"search", "again"}, NEW p \in Scope
  PROVE  IF Owner[p] \in TaskPapers THEN PriorityLevel(p) = 1
         ELSE Owner[p] \notin touched
              => PriorityLevel(p) = Min({l \in Levels : Owner[p] \in attached[l]})
<1>1. p \in Pieces /\ Owner[p] \in TaskPapers \union Collections /\ TaskPapers \cap Collections = {}
  BY RetrievalAssumption DEF Scope
<1>2. CASE Owner[p] \in TaskPapers
  BY <1>1, <1>2 DEF Scope, RagTypes, PriorityLevel
<1>3. CASE Owner[p] \notin TaskPapers
  <2> SUFFICES ASSUME Owner[p] \notin touched
               PROVE  PriorityLevel(p) = Min({l \in Levels : Owner[p] \in attached[l]})
    BY <1>3
  <2>1. Owner[p] \in DOMAIN level /\ Owner[p] \in Collections \ touched /\ Owner[p] \notin papers
    BY <1>1, <1>3 DEF Scope, RagTypes
  <2>2. ReadBy(pc) = {2, 3, 4} /\ Levels = {2, 3, 4}
    BY DEF ReadBy, Levels
  <2>3. /\ level[Owner[p]] \in Levels /\ Owner[p] \in attached[level[Owner[p]]]
        /\ \A l \in Levels : Owner[p] \in attached[l] => level[Owner[p]] <= l
    BY <2>1, <2>2 DEF NearestSoFar
  <2>4. {l \in Levels : Owner[p] \in attached[l]} \subseteq Int
    BY <2>2
  <2>5. Min({l \in Levels : Owner[p] \in attached[l]}) = level[Owner[p]]
    BY <2>3, <2>4, MinIs
  <2> QED
    BY <2>1, <2>5 DEF PriorityLevel
<1> QED
  BY <1>2, <1>3

(* While nothing changes the scope holds every chunk one could search.     *)
LEMMA ScopeIsComplete ==
  ASSUME RagTypes, NearestSoFar, PapersRead, pc \in {"search", "again"}, changes = 0,
         NEW p \in ready, p \notin Scope
  PROVE  Owner[p] \notin TaskPapers /\ \A l \in Levels : Owner[p] \notin attached[l]
<1>1. p \in Pieces /\ touched = {}
  BY DEF RagTypes, NearestSoFar
<1>2. Owner[p] \notin TaskPapers
  BY <1>1 DEF PapersRead, Scope
<1>3. ASSUME NEW l \in Levels, Owner[p] \in attached[l] PROVE FALSE
  <2>1. l \in ReadBy(pc) /\ Owner[p] \in Collections
    BY <1>3 DEF ReadBy, Levels, RagTypes
  <2>2. Owner[p] \in DOMAIN level
    BY <1>1, <1>3, <2>1 DEF NearestSoFar
  <2> QED
    BY <1>1, <2>2 DEF Scope
<1> QED
  BY <1>2, <1>3

LEMMA SearchStep == ASSUME RagInv, Search PROVE RagInv'
<1>1. /\ UNCHANGED <<attached, ready, grade, asked, level, papers, touched, changes>>
      /\ pc = "search" /\ VectorSearch(asked) /\ first' = Given' /\ stirred' = FALSE
      /\ pc' = IF NeedsFallback(Len(scored')) THEN "again" ELSE "done"
  BY DEF Search, Given
<1>2. RagTypes /\ NearestSoFar /\ PapersRead
  BY DEF RagInv
<1>3. PICK chosen \in SUBSET Found(asked) :
        /\ Best(Found(asked), chosen) /\ IsFiniteSet(chosen)
        /\ Len(scored') = Cardinality(chosen) /\ Given' = chosen
        /\ \A r \in Range(scored)' : /\ r.piece \in chosen
                                     /\ r.grade = grade[r.piece]
                                     /\ r.level = PriorityLevel(r.piece)
  BY <1>1, <1>2, SearchFacts
<1>4. /\ Cardinality(chosen) \in Nat /\ Cardinality(chosen) <= TopK
      /\ chosen = Found(asked) \/ Cardinality(chosen) = TopK
      /\ \A p \in chosen, q \in Found(asked) \ chosen : grade[q] <= grade[p]
  BY <1>2, <1>3, FoundFacts, BestFacts
<1>5. /\ asked \in Nat /\ Enough \in Nat /\ Floor \in Nat /\ TopK \in Nat
      /\ \A p \in Pieces : grade[p] \in Nat
      /\ chosen \subseteq Pieces
  BY <1>2, FoundFacts, RetrievalAssumption DEF RagTypes
<1>6. pc' = "again" => /\ IsFiniteSet(first') /\ Cardinality(first') < Enough
                       /\ asked > Floor
  BY <1>1, <1>3 DEF NeedsFallback
<1>7. pc' = "done" => ~(Cardinality(first') < Enough /\ asked > Floor)
  BY <1>1, <1>3 DEF NeedsFallback
<1>8. RagTypes'
  BY <1>1, <1>2 DEF RagTypes, Places
<1>9. NearestSoFar'
  <2>1. ReadBy(pc)' = ReadBy(pc) /\ pc' # "idle"
    BY <1>1 DEF ReadBy
  <2> QED
    BY <1>1, <1>2, <2>1 DEF NearestSoFar
<1>10. PapersRead'
  BY <1>1, <1>2 DEF PapersRead
<1>11. FirstSearched'
  <2>1. Found(asked)' = Found(asked)
    BY <1>1 DEF Found, Scope
  <2>2. Cardinality(first') < TopK => first' = Found(asked)
    BY <1>1, <1>3, <1>4, <1>5
  <2> QED
    BY <1>1, <1>6, <2>1, <2>2 DEF FirstSearched
<1>12. AnswerIsBest'
  <2>1. CASE pc' # "done"
    BY <2>1 DEF AnswerIsBest, NearestLevelCounts, OnlyThinAnswersFallBack,
                FallbackKeepsTheFirst, NothingBetterIsLeftOut, Answered
  <2>2. CASE pc' = "done"
    <3>1. NearestLevelCounts'
      <4> SUFFICES ASSUME NEW r \in Range(scored)'
                   PROVE  IF Owner[r.piece] \in TaskPapers THEN r.level = 1
                          ELSE Owner[r.piece] \notin touched
                               => r.level = Min({l \in Levels : Owner[r.piece] \in attached[l]})
        BY <1>1 DEF NearestLevelCounts
      <4>1. r.piece \in Scope /\ r.level = PriorityLevel(r.piece)
        BY <1>3 DEF Found
      <4> QED
        BY <1>1, <1>2, <4>1, LevelIsNearest
    <3>2. OnlyThinAnswersFallBack'
      <4> SUFFICES ASSUME NEW r \in Range(scored)'
                   PROVE  ~(r.grade < asked)
        BY <1>1 DEF OnlyThinAnswersFallBack
      <4>1. r.piece \in Pieces /\ r.grade = grade[r.piece] /\ grade[r.piece] >= asked
        BY <1>3, <1>5 DEF Found
      <4> QED
        BY <1>5, <4>1
    <3>3. FallbackKeepsTheFirst'
      BY <1>1 DEF FallbackKeepsTheFirst, Given
    <3>4. NothingBetterIsLeftOut'
      <4> PICK used : used = IF Cardinality(first') < Enough THEN Min({asked, Floor}) ELSE asked
        OBVIOUS
      <4>1. used = asked
        BY <1>5, <1>7, <2>2, MinOfTwo
      <4>2. ASSUME changes = 0, NEW p \in ready, p \notin chosen,
                   ~(Owner[p] \notin TaskPapers /\ \A l \in Levels : Owner[p] \notin attached[l]),
                   ~(grade[p] < asked)
            PROVE  Len(scored') = TopK /\ \A r \in Range(scored)' : r.grade >= grade[p]
        <5>1. p \in Scope
          BY <1>1, <1>2, <4>2, ScopeIsComplete
        <5>2. p \in Pieces /\ p \in Found(asked) \ chosen
          BY <1>5, <4>2, <5>1 DEF Found, Scope
        <5>3. Len(scored') = TopK
          BY <1>3, <1>4, <5>2
        <5>4. \A r \in Range(scored)' : r.grade >= grade[p]
          BY <1>3, <1>4, <1>5, <5>2
        <5> QED
          BY <5>3, <5>4
      <4>3. chosen = {r.piece : r \in Range(scored)'}
        BY <1>3 DEF Given
      <4> QED
        BY <1>1, <4>1, <4>2, <4>3 DEF NothingBetterIsLeftOut
    <3> QED
      BY <3>1, <3>2, <3>3, <3>4 DEF AnswerIsBest
  <2> QED
    BY <2>1, <2>2
<1> QED
  BY <1>1, <1>8, <1>9, <1>10, <1>11, <1>12 DEF RagInv, Reading

(* The second search has a lower threshold: when the first one found fewer *)
(* than TopK, it found everything above its own, and all of that is better *)
(* than what the lower threshold adds.                                     *)
LEMMA SearchAgainStep == ASSUME RagInv, SearchAgain PROVE RagInv'
<1>1. /\ UNCHANGED <<attached, ready, grade, asked, level, papers, first, touched,
                     stirred, changes>>
      /\ pc = "again" /\ VectorSearch(Floor) /\ pc' = "done"
  BY DEF SearchAgain
<1>2. RagTypes /\ NearestSoFar /\ PapersRead /\ FirstSearched
  BY DEF RagInv
<1>3. PICK chosen \in SUBSET Found(Floor) :
        /\ Best(Found(Floor), chosen) /\ IsFiniteSet(chosen)
        /\ Len(scored') = Cardinality(chosen) /\ Given' = chosen
        /\ \A r \in Range(scored)' : /\ r.piece \in chosen
                                     /\ r.grade = grade[r.piece]
                                     /\ r.level = PriorityLevel(r.piece)
  BY <1>1, <1>2, SearchFacts
<1>4. /\ Cardinality(chosen) \in Nat /\ Cardinality(chosen) <= TopK
      /\ chosen = Found(Floor) \/ Cardinality(chosen) = TopK
      /\ \A p \in chosen, q \in Found(Floor) \ chosen : grade[q] <= grade[p]
  BY <1>2, <1>3, FoundFacts, BestFacts
<1>5. /\ asked \in Nat /\ Enough \in Nat /\ Floor \in Nat /\ TopK \in Nat
      /\ \A p \in Pieces : grade[p] \in Nat
      /\ chosen \subseteq Pieces
  BY <1>2, FoundFacts, RetrievalAssumption DEF RagTypes
<1>6. /\ IsFiniteSet(first) /\ Cardinality(first) < Enough /\ asked > Floor
      /\ ~stirred /\ Cardinality(first) < TopK => first = Found(asked)
  BY <1>1, <1>2 DEF FirstSearched
<1>7. RagTypes'
  BY <1>1, <1>2 DEF RagTypes, Places
<1>8. NearestSoFar'
  <2>1. ReadBy(pc)' = ReadBy(pc) /\ pc' # "idle"
    BY <1>1 DEF ReadBy
  <2> QED
    BY <1>1, <1>2, <2>1 DEF NearestSoFar
<1>9. PapersRead' /\ FirstSearched'
  BY <1>1, <1>2 DEF PapersRead, FirstSearched
<1>10. NearestLevelCounts'
  <2> SUFFICES ASSUME NEW r \in Range(scored)'
               PROVE  IF Owner[r.piece] \in TaskPapers THEN r.level = 1
                      ELSE Owner[r.piece] \notin touched
                           => r.level = Min({l \in Levels : Owner[r.piece] \in attached[l]})
    BY <1>1 DEF NearestLevelCounts
  <2>1. r.piece \in Scope /\ r.level = PriorityLevel(r.piece)
    BY <1>3 DEF Found
  <2> QED
    BY <1>1, <1>2, <2>1, LevelIsNearest
<1>11. OnlyThinAnswersFallBack'
  <2> SUFFICES ASSUME NEW r \in Range(scored)'
               PROVE  Cardinality(first) < Enough /\ r.grade >= Floor
    BY <1>1 DEF OnlyThinAnswersFallBack
  <2> QED
    BY <1>3, <1>6 DEF Found
<1>12. FallbackKeepsTheFirst'
  <2> SUFFICES ASSUME ~stirred, Cardinality(first) < Min({Enough, TopK}), NEW p \in first
               PROVE  p \in chosen
    BY <1>1, <1>3 DEF FallbackKeepsTheFirst, Given
  <2>1. IsFiniteSet(Found(asked)) /\ Found(asked) \subseteq Pieces
    BY <1>2, FoundFacts
  <2>2. Cardinality(first) < TopK /\ first = Found(asked) /\ Cardinality(first) \in Nat
    <3>1. Cardinality(first) \in Nat
      BY <1>6, FS_CardinalityType
    <3>2. Cardinality(first) < TopK
      BY <1>5, <3>1, MinOfTwo
    <3> QED
      BY <1>6, <3>1, <3>2
  <2>3. p \in Pieces /\ p \in Found(Floor) /\ grade[p] >= asked
    BY <1>5, <1>6, <2>1, <2>2 DEF Found
  <2> SUFFICES ASSUME p \notin chosen PROVE FALSE
    OBVIOUS
  <2>4. Cardinality(chosen) = TopK
    BY <1>4, <2>3
  <2>5. \A q \in chosen : grade[q] >= grade[p] /\ q \in Scope
    BY <1>3, <1>4, <1>5, <2>3 DEF Found
  <2>6. chosen \in SUBSET first
    BY <1>5, <2>2, <2>3, <2>5 DEF Found
  <2>7. Cardinality(chosen) <= Cardinality(first)
    BY <2>1, <2>2, <2>6, FS_Subset
  <2> QED
    BY <1>5, <2>2, <2>4, <2>7
<1>13. NothingBetterIsLeftOut'
  <2>1. Min({asked, Floor}) = Floor
    BY <1>5, <1>6, MinOfTwo
  <2>2. ASSUME changes = 0, NEW p \in ready, p \notin chosen,
               ~(Owner[p] \notin TaskPapers /\ \A l \in Levels : Owner[p] \notin attached[l]),
               ~(grade[p] < Floor)
        PROVE  Len(scored') = TopK /\ \A r \in Range(scored)' : r.grade >= grade[p]
    <3>1. p \in Scope
      BY <1>1, <1>2, <2>2, ScopeIsComplete
    <3>2. p \in Pieces /\ p \in Found(Floor) \ chosen
      BY <1>5, <2>2, <3>1 DEF Found, Scope
    <3>3. Len(scored') = TopK
      BY <1>3, <1>4, <3>2
    <3>4. \A r \in Range(scored)' : r.grade >= grade[p]
      BY <1>3, <1>4, <1>5, <3>2
    <3> QED
      BY <3>3, <3>4
  <2>3. chosen = {r.piece : r \in Range(scored)'}
    BY <1>3 DEF Given
  <2> QED
    BY <1>1, <1>6, <2>1, <2>2, <2>3 DEF NothingBetterIsLeftOut
<1> QED
  BY <1>1, <1>7, <1>8, <1>9, <1>10, <1>11, <1>12, <1>13 DEF RagInv, Reading, AnswerIsBest

(* The specification of Retrieval alone. *)
RagSpec == RagInit /\ [][RagNext]_ragVars

(* For every index, scope and threshold: each chunk of an answer has the   *)
(* nearest level its collection is attached at, only thin answers go below *)
(* the threshold, the second search loses nothing, and nothing better is   *)
(* left out.                                                               *)
THEOREM AnswerIsBestCorrect == RagSpec => []AnswerIsBest
<1>1. RagInit => RagInv
  BY InitRag
<1>2. RagInv /\ [RagNext]_ragVars => RagInv'
  <2> SUFFICES ASSUME RagInv, [RagNext]_ragVars PROVE RagInv'
    OBVIOUS
  <2>1. CASE Relate \/ Republish \/ Ask
    BY <2>1, RelateStep, RepublishStep, AskStep
  <2>2. CASE \/ ReadLevel("task", 2, "cluster") \/ ReadLevel("cluster", 3, "org")
             \/ ReadLevel("org", 4, "papers")
    BY <2>2, LevelSteps
  <2>3. CASE ReadPapers \/ Search \/ SearchAgain
    BY <2>3, ReadPapersStep, SearchStep, SearchAgainStep
  <2>4. CASE UNCHANGED ragVars
    <3>1. RagTypes'
      BY <2>4 DEF ragVars, RagInv, RagTypes
    <3>2. NearestSoFar'
      BY <2>4 DEF ragVars, RagInv, NearestSoFar, ReadBy
    <3>3. PapersRead'
      BY <2>4 DEF ragVars, RagInv, PapersRead
    <3>4. FirstSearched'
      BY <2>4 DEF ragVars, RagInv, FirstSearched, Found, Scope
    <3>5. (pc \in Reading \union {"search"} => scored = <<>> /\ first = {})'
      BY <2>4 DEF ragVars, RagInv
    <3>6. NearestLevelCounts' /\ OnlyThinAnswersFallBack'
      BY <2>4 DEF ragVars, RagInv, AnswerIsBest, NearestLevelCounts, OnlyThinAnswersFallBack,
                  Answered
    <3>7. FallbackKeepsTheFirst' /\ NothingBetterIsLeftOut'
      BY <2>4 DEF ragVars, RagInv, AnswerIsBest, FallbackKeepsTheFirst,
                  NothingBetterIsLeftOut, Answered
    <3> QED
      BY <3>1, <3>2, <3>3, <3>4, <3>5, <3>6, <3>7 DEF RagInv, AnswerIsBest
  <2> QED
    BY <2>1, <2>2, <2>3, <2>4 DEF RagNext
<1>3. RagInv => AnswerIsBest
  BY DEF RagInv
<1> QED
  BY <1>1, <1>2, <1>3, PTL DEF RagSpec

=============================================================================
