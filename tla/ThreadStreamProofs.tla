------------------------- MODULE ThreadStreamProofs -------------------------
(***************************************************************************)
(* Exchanges on a thread, for every number of streams, sends and marks: an   *)
(* exchange is stored whole or not at all, what a thread is charged never    *)
(* exceeds what its answers cost and is exact while nothing overlaps, and    *)
(* what a context lacks was left out by an older summary.                    *)
(*                                                                           *)
(* Only Commit writes a stream's rows, and it writes all of them.  The       *)
(* tokens a stream read when it began are the answers' of streams            *)
(* committed by then, so adding its own cost never counts an answer twice;   *)
(* while no two streams are live, nothing was committed since it began.      *)
(*                                                                           *)
(* The history has an invariant of its own (HistInv): a summary row goes     *)
(* back to a committed stream, whose window and notes do not change any      *)
(* more.                                                                     *)
(***************************************************************************)
EXTENDS ThreadStream, FiniteSetTheorems, TLAPS

Places == {"idle"} \cup Live \cup Ended
PcOK == pc \in [Streams \cup Sends \cup Marks -> Places]

(* What the client of each stream heard. *)
ToldOK ==
  /\ DOMAIN told = Streams
  /\ \A s \in Streams :
       /\ pc[s] \in {"told", "committed"} => told[s] = {"done"}
       /\ pc[s] \in {"idle", "granted", "prepared", "assembling", "summarising", "asking",
                     "flushing", "answered"} => told[s] = {}

(* Rows are of committed streams and of sends, both rows of each. *)
RowsOK ==
  /\ \A m \in messages :
       m.by \in Committed \cup Sends /\ m.kind \in {"user", "assistant", "summary"}
  /\ \A s \in Committed : /\ \E m \in messages : m.by = s /\ m.kind = "user"
                          /\ \E m \in messages : m.by = s /\ m.kind = "assistant"
  /\ usage \subseteq Committed \cup Marks
  /\ memory \subseteq Committed

(* What each generator keeps. *)
RunOK ==
  /\ DOMAIN run = Streams
  /\ \A s \in Streams :
       /\ DOMAIN run[s] = DOMAIN NewRun
       /\ run[s].loaded \in Nat /\ run[s].fallback \in BOOLEAN

(* What the thread was charged, and what each stream read. *)
Answers == Cardinality(Committed)
Charged ==
  /\ tokensUsed \in Nat /\ tokensUsed <= Cost * Answers
  /\ \A s \in Streams : pc[s] \in InTxn => run[s].loaded <= Cost * Answers
Serial ==
  ~overlapped =>
    /\ \A s, t \in Streams : pc[s] \in Live /\ pc[t] \in Live => s = t
    /\ tokensUsed = Cost * Answers
    /\ \A s \in Streams : /\ pc[s] \in InTxn => run[s].loaded = tokensUsed
                          /\ pc[s] \in Live => (run[s].fallback <=> BudgetWarning(tokensUsed))
IInv ==
  /\ PcOK /\ ToldOK /\ RowsOK /\ RunOK
  /\ budgeted \in BOOLEAN
  /\ Charged /\ Serial /\ OverrunsOnceWhenSerial

(***************************************************************************)
(* Kinds of steps.                                                         *)
(***************************************************************************)
(* A generator goes on inside its transaction. *)
Advance(s) ==
  /\ pc[s] \in InTxn
  /\ \E x \in InTxn : /\ pc' = [pc EXCEPT ![s] = x]
                      /\ x = "told" => told'[s] = told[s] \cup {"done"}
                      /\ x # "told" => told'[s] = told[s]
                      /\ pc[s] # "told"
  /\ DOMAIN told' = DOMAIN told /\ \A t \in Streams \ {s} : told'[t] = told[t]
  /\ DOMAIN run' = DOMAIN run /\ \A t \in Streams \ {s} : run'[t] = run[t]
  /\ DOMAIN run'[s] = DOMAIN run[s]
  /\ run'[s].loaded = run[s].loaded /\ run'[s].fallback = run[s].fallback
  /\ UNCHANGED <<tables, overlapped>>

(* A generator ends without a commit. *)
Leave(s) ==
  /\ pc[s] \in Live
  /\ \E x \in {"failed", "gone"} : pc' = [pc EXCEPT ![s] = x]
  /\ run' = [run EXCEPT ![s] = NewRun]
  /\ DOMAIN told' = DOMAIN told /\ \A t \in Streams \ {s} : told'[t] = told[t]
  /\ UNCHANGED <<tables, overlapped>>

(***************************************************************************)
(* Lemmas.                                                                 *)
(***************************************************************************)
LEMMA CommittedFinite == IsFiniteSet(Committed) /\ Answers \in Nat
BY StreamAssumption, FS_Subset, FS_CardinalityType DEF Committed, Answers

(* The set of answers changes only when a stream commits. *)
LEMMA CommittedStays ==
  ASSUME PcOK, NEW s \in Streams, NEW x \in Places \ {"committed"},
         pc[s] # "committed", pc' = [pc EXCEPT ![s] = x]
  PROVE  Committed' = Committed /\ Answers' = Answers /\ PcOK'
<1>1. Committed' = Committed
  BY DEF Committed, PcOK
<1>2. PcOK'
  BY DEF PcOK
<1> QED
  BY <1>1, <1>2 DEF Answers

(* Rows stay right when neither they nor the answers change. *)
LEMMA RowsStay ==
  ASSUME RowsOK, UNCHANGED tables, Committed' = Committed
  PROVE  RowsOK'
BY DEF RowsOK, tables

(* The answers without a warning stay the same when no stream commits. *)
LEMMA OverrunsStay ==
  ASSUME OverrunsOnceWhenSerial, budgeted' = budgeted, overlapped' = overlapped,
         Committed' = Committed, \A s \in Committed : run'[s].fallback = run[s].fallback
  PROVE  OverrunsOnceWhenSerial'
<1>1. {s \in Committed : ~run[s].fallback}' = {s \in Committed : ~run[s].fallback}
  OBVIOUS
<1> QED
  BY <1>1 DEF OverrunsOnceWhenSerial

LEMMA InitIInv == ASSUME Init PROVE IInv
<1>1. PcOK /\ ToldOK
  BY DEF Init, PcOK, Places, ToldOK
<1>2. Committed = {}
  BY DEF Init, Committed
<1>3. Answers = 0
  BY <1>2, FS_EmptySet DEF Answers
<1>4. RowsOK
  BY <1>2 DEF Init, RowsOK
<1>5. RunOK
  BY DEF Init, RunOK, NewRun
<1>6. Charged /\ Serial
  BY <1>3, StreamAssumption DEF Init, Charged, Serial, InTxn, Live
<1>7. {s \in Committed : ~run[s].fallback} = {}
  BY <1>2
<1>8. OverrunsOnceWhenSerial
  <2>1. Cardinality({s \in Committed : ~run[s].fallback}) = 0
    BY <1>7, FS_EmptySet
  <2>2. Cost * 0 < WarnAt + Cost
    BY StreamAssumption
  <2> QED
    BY <2>1, <2>2 DEF OverrunsOnceWhenSerial
<1> QED
  BY <1>1, <1>4, <1>5, <1>6, <1>8 DEF Init, IInv

(***************************************************************************)
(* The steps.                                                              *)
(***************************************************************************)
LEMMA AdvanceStep ==
  ASSUME IInv, NEW s \in Streams, Advance(s)
  PROVE  IInv'
<1> USE DEF IInv
<1> PICK x \in InTxn : /\ pc' = [pc EXCEPT ![s] = x]
                       /\ x = "told" => told'[s] = told[s] \cup {"done"}
                       /\ x # "told" => told'[s] = told[s]
                       /\ pc[s] # "told"
  BY DEF Advance
<1>1. pc[s] \in InTxn /\ x \in Places \ {"committed"} /\ pc[s] # "committed"
  BY DEF Advance, InTxn, Live, Places, Ended
<1>2. Committed' = Committed /\ Answers' = Answers /\ PcOK'
  BY <1>1, CommittedStays
<1>3. pc'[s] = x /\ \A t \in Streams \ {s} : pc'[t] = pc[t]
  BY DEF PcOK
<1>4. RowsOK'
  BY <1>2, RowsStay DEF Advance
<1>5. ToldOK'
  BY <1>1, <1>3 DEF Advance, ToldOK, InTxn, Live
<1>6. \A t \in Streams : /\ run'[t].loaded = run[t].loaded /\ run'[t].fallback = run[t].fallback
                         /\ DOMAIN run'[t] = DOMAIN run[t]
  BY DEF Advance
<1>7. RunOK'
  BY <1>6 DEF Advance, RunOK, NewRun
<1>8. Charged'
  BY <1>1, <1>2, <1>3, <1>6 DEF Advance, tables, Charged
<1>9. Serial'
  <2>1. \A t \in Streams : (pc'[t] \in InTxn <=> pc[t] \in InTxn) /\ (pc'[t] \in Live <=> pc[t] \in Live)
    BY <1>1, <1>3 DEF InTxn
  <2> QED
    BY <1>2, <1>6, <2>1 DEF Advance, tables, Serial, BudgetWarning
<1>10. OverrunsOnceWhenSerial'
  BY <1>2, <1>6, OverrunsStay DEF Advance, tables, Committed
<1>11. budgeted' \in BOOLEAN
  BY DEF Advance, tables
<1> QED
  BY <1>2, <1>4, <1>5, <1>7, <1>8, <1>9, <1>10, <1>11

LEMMA LeaveStep ==
  ASSUME IInv, NEW s \in Streams, Leave(s)
  PROVE  IInv'
<1> USE DEF IInv
<1> PICK x \in {"failed", "gone"} : pc' = [pc EXCEPT ![s] = x]
  BY DEF Leave
<1>1. pc[s] \in Live /\ x \in Places \ {"committed"} /\ pc[s] # "committed"
  BY DEF Leave, Live, Places, Ended
<1>2. Committed' = Committed /\ Answers' = Answers /\ PcOK'
  BY <1>1, CommittedStays
<1>3. pc'[s] = x /\ \A t \in Streams \ {s} : pc'[t] = pc[t]
  BY DEF PcOK
<1>4. RowsOK'
  BY <1>2, RowsStay DEF Leave
<1>5. ToldOK'
  BY <1>3 DEF Leave, ToldOK
<1>6. \A t \in Streams \ {s} : run'[t] = run[t]
  BY DEF Leave, RunOK
<1>7. run'[s] = NewRun
  BY DEF Leave, RunOK
<1>8. RunOK'
  BY <1>6, <1>7 DEF Leave, RunOK, NewRun
<1>9. Charged'
  BY <1>2, <1>3, <1>6 DEF Leave, tables, Charged, InTxn, Live
<1>10. Serial'
  BY <1>2, <1>3, <1>6 DEF Leave, tables, Serial, BudgetWarning, InTxn, Live
<1>11. OverrunsOnceWhenSerial'
  BY <1>1, <1>2, <1>6, OverrunsStay DEF Leave, tables, Committed
<1>12. budgeted' \in BOOLEAN
  BY DEF Leave, tables
<1> QED
  BY <1>2, <1>4, <1>5, <1>8, <1>9, <1>10, <1>11, <1>12

(* A request is refused, and nothing else happens. *)
LEMMA RefuseStep ==
  ASSUME IInv, NEW s \in Streams, Refuse(s)
  PROVE  IInv'
<1> USE DEF IInv
<1>1. pc[s] = "idle" /\ pc' = [pc EXCEPT ![s] = "refused"] /\ "refused" \in Places \ {"committed"}
  BY DEF Refuse, Live, Places, Ended
<1>2. Committed' = Committed /\ Answers' = Answers /\ PcOK'
  BY <1>1, CommittedStays
<1>3. pc'[s] = "refused" /\ \A t \in Streams \ {s} : pc'[t] = pc[t]
  BY <1>1 DEF PcOK
<1>4. UNCHANGED <<messages, usage, memory, tokensUsed, budgeted, run, told, overlapped>>
  BY DEF Refuse, tables
<1>5. RowsOK'
  BY <1>2, <1>4, RowsStay DEF tables
<1>6. ToldOK' /\ RunOK'
  BY <1>3, <1>4 DEF ToldOK, RunOK
<1>7. Charged' /\ Serial'
  BY <1>2, <1>3, <1>4 DEF Charged, Serial, BudgetWarning, InTxn, Live
<1>8. OverrunsOnceWhenSerial'
  BY <1>2, <1>4, OverrunsStay
<1> QED
  BY <1>2, <1>4, <1>5, <1>6, <1>7, <1>8

(* A request that is granted notes the warning; no other stream may be     *)
(* live then, or the two overlap. *)
LEMMA GrantStep ==
  ASSUME IInv, NEW s \in Streams, Grant(s)
  PROVE  IInv'
<1> USE DEF IInv
<1>1. pc[s] = "idle" /\ pc' = [pc EXCEPT ![s] = "granted"] /\ "granted" \in Places \ {"committed"}
  BY DEF Grant, Live, Places, Ended
<1>2. Committed' = Committed /\ Answers' = Answers /\ PcOK'
  BY <1>1, CommittedStays
<1>3. pc'[s] = "granted" /\ \A t \in Streams \ {s} : pc'[t] = pc[t]
  BY <1>1 DEF PcOK
<1>4. UNCHANGED <<messages, usage, memory, tokensUsed, budgeted, told>>
  BY DEF Grant, tables
<1>5. RowsOK'
  BY <1>2, <1>4, RowsStay DEF tables
<1>6. ToldOK'
  BY <1>1, <1>3, <1>4 DEF ToldOK
<1> PICK warned \in BOOLEAN : warned <=> BudgetWarning(tokensUsed)
  BY DEF BudgetWarning
<1>7. warned <=> BudgetWarning(tokensUsed)'
  BY <1>4 DEF BudgetWarning
<1>8. run' = [run EXCEPT ![s].fallback = warned]
  BY DEF Grant, BudgetWarning
<1>9. /\ \A t \in Streams \ {s} : run'[t] = run[t]
      /\ DOMAIN run' = Streams /\ DOMAIN run'[s] = DOMAIN run[s]
      /\ run'[s].loaded = run[s].loaded /\ run'[s].fallback = warned
  BY <1>8 DEF RunOK, NewRun
<1>10. RunOK'
  BY <1>9 DEF RunOK
<1>11. Charged'
  BY <1>2, <1>3, <1>4, <1>9 DEF Charged, InTxn, Live
<1>12. Serial'
  <2> SUFFICES ASSUME ~overlapped'
               PROVE  Serial'
    BY DEF Serial
  <2>1. ~overlapped /\ \A t \in Streams : pc[t] \notin Live
    BY DEF Grant
  <2>2. \A t \in Streams : t # s => pc'[t] \notin Live
    BY <1>3, <2>1
  <2>3. pc'[s] \notin InTxn
    BY <1>3 DEF InTxn, Live
  <2>4. tokensUsed' = Cost * Answers'
    BY <1>2, <1>4, <2>1 DEF Serial
  <2> QED
    BY <1>7, <1>9, <2>2, <2>3, <2>4 DEF Serial, InTxn
<1>13. OverrunsOnceWhenSerial'
  <2>1. \A t \in Committed : run'[t].fallback = run[t].fallback
    BY <1>1, <1>9 DEF Committed
  <2>2. {t \in Committed : ~run[t].fallback}' = {t \in Committed : ~run[t].fallback}
    BY <1>2, <2>1
  <2>3. ~overlapped' => ~overlapped
    BY DEF Grant
  <2> QED
    BY <1>4, <2>2, <2>3 DEF OverrunsOnceWhenSerial
<1> QED
  BY <1>2, <1>4, <1>5, <1>6, <1>10, <1>11, <1>12, <1>13

(* The generator begins: it reads what the thread was charged so far. *)
LEMMA BeginStep ==
  ASSUME IInv, NEW s \in Streams, Begin(s)
  PROVE  IInv'
<1> USE DEF IInv
<1>1. pc[s] = "granted" /\ pc' = [pc EXCEPT ![s] = "prepared"] /\ "prepared" \in Places \ {"committed"}
  BY DEF Begin, At, Live, Places, Ended
<1>2. Committed' = Committed /\ Answers' = Answers /\ PcOK'
  BY <1>1, CommittedStays
<1>3. pc'[s] = "prepared" /\ \A t \in Streams \ {s} : pc'[t] = pc[t]
  BY <1>1 DEF PcOK
<1>4. UNCHANGED <<messages, usage, memory, tokensUsed, budgeted, told, overlapped>>
  BY DEF Begin, tables
<1>5. RowsOK'
  BY <1>2, <1>4, RowsStay DEF tables
<1>6. ToldOK'
  BY <1>1, <1>3, <1>4 DEF ToldOK
<1>7. /\ \A t \in Streams \ {s} : run'[t] = run[t]
      /\ DOMAIN run' = Streams /\ DOMAIN run'[s] = DOMAIN run[s]
      /\ run'[s].loaded = tokensUsed /\ run'[s].fallback = run[s].fallback
  BY DEF Begin, RunOK, NewRun
<1>8. RunOK'
  BY <1>7 DEF RunOK, Charged
<1>9. Charged'
  BY <1>2, <1>3, <1>4, <1>7 DEF Charged
<1>10. Serial'
  <2>1. \A t \in Streams : pc'[t] \in Live <=> pc[t] \in Live
    BY <1>1, <1>3 DEF Live
  <2>2. \A t \in Streams \ {s} : pc'[t] \in InTxn <=> pc[t] \in InTxn
    BY <1>3
  <2> QED
    BY <1>2, <1>4, <1>7, <2>1, <2>2 DEF Serial, BudgetWarning
<1>11. OverrunsOnceWhenSerial'
  <2>1. \A t \in Committed : run'[t].fallback = run[t].fallback
    BY <1>7 DEF Committed
  <2> QED
    BY <1>2, <1>4, <2>1, OverrunsStay
<1> QED
  BY <1>2, <1>4, <1>5, <1>6, <1>8, <1>9, <1>10, <1>11

(***************************************************************************)
(* The steps inside a transaction advance it; the others end it.           *)
(***************************************************************************)
LEMMA ContextKeeps ==
  ASSUME RunOK, NEW s, s \in Streams, NEW window, NEW covered, Context(s, window, covered)
  PROVE  /\ DOMAIN run' = DOMAIN run /\ \A t \in Streams \ {s} : run'[t] = run[t]
         /\ DOMAIN run'[s] = DOMAIN run[s]
         /\ run'[s].loaded = run[s].loaded /\ run'[s].fallback = run[s].fallback
BY DEF Context, RunOK, NewRun

LEMMA AssembleAdvances ==
  ASSUME IInv, NEW s \in Streams, Assemble(s)
  PROVE  Advance(s)
<1>1. PICK x \in {"asking", "summarising"} : At(s, "assembling", x)
  BY DEF Assemble
<1>2. PICK window, covered : Context(s, window, covered)
  BY DEF Assemble
<1>3. UNCHANGED <<tables, told, overlapped>>
  BY DEF Assemble, tables
<1>4. /\ DOMAIN run' = DOMAIN run /\ \A t \in Streams \ {s} : run'[t] = run[t]
      /\ DOMAIN run'[s] = DOMAIN run[s]
      /\ run'[s].loaded = run[s].loaded /\ run'[s].fallback = run[s].fallback
  BY <1>2, ContextKeeps DEF IInv
<1>5. pc[s] = "assembling" /\ pc' = [pc EXCEPT ![s] = x] /\ x \in InTxn /\ x # "told"
  BY <1>1 DEF At, InTxn, Live
<1> QED
  BY <1>3, <1>4, <1>5 DEF Advance, InTxn, Live

LEMMA GeneratorAdvances ==
  ASSUME IInv, NEW s \in Streams,
         Announce(s) \/ Summarise(s) \/ Reply(s) \/ Flush(s) \/ TellDone(s)
  PROVE  Advance(s)
<1> USE DEF At, InTxn, Live, Advance
<1>1. ASSUME Announce(s) PROVE Advance(s)
  <2> PICK b : b = WillCompact(messages)
    OBVIOUS
  <2>1. run' = [run EXCEPT ![s].announced = b]
    BY <1>1 DEF Announce
  <2>2. /\ DOMAIN run' = DOMAIN run /\ \A t \in Streams \ {s} : run'[t] = run[t]
        /\ DOMAIN run'[s] = DOMAIN run[s]
        /\ run'[s].loaded = run[s].loaded /\ run'[s].fallback = run[s].fallback
    BY <2>1 DEF IInv, RunOK, NewRun
  <2> QED
    BY <1>1, <2>2 DEF Announce, tables
<1>2. ASSUME Summarise(s) PROVE Advance(s)
  <2>1. /\ DOMAIN run' = DOMAIN run /\ \A t \in Streams \ {s} : run'[t] = run[t]
        /\ DOMAIN run'[s] = DOMAIN run[s]
        /\ run'[s].loaded = run[s].loaded /\ run'[s].fallback = run[s].fallback
    BY <1>2 DEF Summarise, IInv, RunOK, NewRun
  <2> QED
    BY <1>2, <2>1 DEF Summarise, tables
<1>3. ASSUME Reply(s) PROVE Advance(s)
  BY <1>3 DEF Reply, tables
<1>4. ASSUME Flush(s) PROVE Advance(s)
  BY <1>4 DEF Flush, tables
<1>5. ASSUME TellDone(s) PROVE Advance(s)
  <2>1. PICK valid \in MemoryOutcomes : run' = [run EXCEPT ![s].remembers = valid]
    BY <1>5 DEF TellDone
  <2>2. /\ DOMAIN run' = DOMAIN run /\ \A t \in Streams \ {s} : run'[t] = run[t]
        /\ DOMAIN run'[s] = DOMAIN run[s]
        /\ run'[s].loaded = run[s].loaded /\ run'[s].fallback = run[s].fallback
    BY <2>1 DEF IInv, RunOK, NewRun
  <2>3. /\ told'[s] = told[s] \cup {"done"}
        /\ DOMAIN told' = DOMAIN told /\ \A t \in Streams \ {s} : told'[t] = told[t]
    BY <1>5 DEF TellDone, IInv, ToldOK
  <2> QED
    BY <1>5, <2>2, <2>3 DEF TellDone, tables
<1> QED
  BY <1>1, <1>2, <1>3, <1>4, <1>5

LEMMA GeneratorLeaves ==
  ASSUME IInv, NEW s \in Streams, BeginFails(s) \/ Fail(s) \/ Disconnect(s)
  PROVE  Leave(s)
<1>1. pc[s] \in Live
  BY DEF BeginFails, Fail, Disconnect, InTxn, Live
<1>2. PICK x \in {"failed", "gone"} : Closes(s, x)
  BY DEF BeginFails, Fail, Disconnect
<1>3. DOMAIN told' = DOMAIN told /\ \A t \in Streams \ {s} : told'[t] = told[t]
  BY DEF BeginFails, Fail, Disconnect, IInv, ToldOK
<1>4. UNCHANGED <<tables, overlapped>>
  BY DEF BeginFails, Fail, Disconnect, tables
<1> QED
  BY <1>1, <1>2, <1>3, <1>4 DEF Leave, Closes

(***************************************************************************)
(* The commit.                                                             *)
(***************************************************************************)
LEMMA CommitCounts ==
  ASSUME PcOK, NEW s \in Streams, Commit(s)
  PROVE  /\ Committed' = Committed \cup {s} /\ s \notin Committed
         /\ Answers' = Answers + 1 /\ Answers \in Nat
<1>1. Committed' = Committed \cup {s} /\ s \notin Committed
  BY DEF Commit, At, PcOK, Committed
<1>2. IsFiniteSet(Committed) /\ Answers \in Nat
  BY CommittedFinite
<1>3. Cardinality(Committed \cup {s}) = Cardinality(Committed) + 1
  BY <1>1, <1>2, FS_AddElement
<1> QED
  BY <1>1, <1>2, <1>3 DEF Answers

LEMMA CommitRows ==
  ASSUME RowsOK, NEW s \in Streams, Commit(s), Committed' = Committed \cup {s}
  PROVE  RowsOK'
<1> PICK new : new = OwnRows(s)
  OBVIOUS
<1>1. messages' = messages \cup new
  BY DEF Commit
<1>2. \A m \in new : m.by = s /\ m.kind \in {"user", "assistant", "summary"}
  BY DEF OwnRows, Row
<1>3. /\ \E m \in new : m.by = s /\ m.kind = "user"
      /\ \E m \in new : m.by = s /\ m.kind = "assistant"
  <2> PICK at : at = run[s].at
    OBVIOUS
  <2>1. Row(s, "user", at, {}) \in new /\ Row(s, "assistant", at, {}) \in new
    BY DEF OwnRows
  <2> QED
    BY <2>1 DEF Row
<1>4. usage' \subseteq usage \cup {s} /\ memory' \subseteq memory \cup {s}
  BY DEF Commit
<1>5. \A row \in messages' : row.by \in Committed' \cup Sends
                            /\ row.kind \in {"user", "assistant", "summary"}
  BY <1>1, <1>2 DEF RowsOK
<1>6. \A t \in Committed' : /\ \E row \in messages' : row.by = t /\ row.kind = "user"
                            /\ \E row \in messages' : row.by = t /\ row.kind = "assistant"
  BY <1>1, <1>3 DEF RowsOK
<1>7. usage' \subseteq Committed' \cup Marks /\ memory' \subseteq Committed'
  BY <1>4 DEF RowsOK
<1> QED
  BY <1>5, <1>6, <1>7 DEF RowsOK

LEMMA CommitStep ==
  ASSUME IInv, NEW s \in Streams, Commit(s)
  PROVE  IInv'
<1> USE DEF IInv
<1>1. pc[s] = "told" /\ pc' = [pc EXCEPT ![s] = "committed"]
  BY DEF Commit, At
<1>2. /\ Committed' = Committed \cup {s} /\ s \notin Committed
      /\ Answers' = Answers + 1 /\ Answers \in Nat
  BY CommitCounts
<1>3. PcOK'
  BY <1>1 DEF PcOK, Places, Ended
<1>4. pc'[s] = "committed" /\ \A t \in Streams \ {s} : pc'[t] = pc[t]
  BY <1>1 DEF PcOK
<1>5. UNCHANGED <<budgeted, run, told, overlapped>>
  BY DEF Commit
<1>6. RowsOK'
  BY <1>2, CommitRows
<1>7. ToldOK' /\ RunOK'
  BY <1>1, <1>4, <1>5 DEF ToldOK, RunOK
<1>8. tokensUsed' = run[s].loaded + Cost /\ run[s].loaded \in Nat /\ Cost \in Nat \ {0}
  BY StreamAssumption DEF Commit, RunOK
<1>9. Cost * Answers' = Cost * Answers + Cost
  BY <1>2, <1>8
<1>10. Cost * Answers \in Nat
  BY <1>2, <1>8
<1>11. pc[s] \in InTxn /\ pc[s] \in Live
  BY <1>1 DEF InTxn, Live
<1>12. Charged'
  <2>1. tokensUsed' \in Nat /\ tokensUsed' <= Cost * Answers'
    BY <1>8, <1>9, <1>10, <1>11 DEF Charged
  <2>2. ASSUME NEW t \in Streams, pc'[t] \in InTxn
        PROVE  run'[t].loaded <= Cost * Answers'
    <3>1. pc[t] \in InTxn
      BY <1>4, <1>11, <2>2
    <3> QED
      BY <1>5, <1>8, <1>9, <1>10, <3>1 DEF Charged, RunOK
  <2> QED
    BY <2>1, <2>2 DEF Charged
<1>13. Serial'
  <2> SUFFICES ASSUME ~overlapped'
               PROVE  Serial'
    BY DEF Serial
  <2>1. /\ \A t \in Streams \ {s} : pc[t] \notin Live
        /\ run[s].loaded = Cost * Answers
    BY <1>5, <1>11 DEF Serial
  <2>2. \A t \in Streams : pc'[t] \notin Live
    BY <1>4, <2>1 DEF Live
  <2> QED
    BY <1>8, <1>9, <2>1, <2>2 DEF Serial, InTxn
<1>14. OverrunsOnceWhenSerial'
  <2> SUFFICES ASSUME budgeted', ~overlapped'
               PROVE  Cost * Cardinality({t \in Committed : ~run[t].fallback})' < WarnAt + Cost
    BY DEF OverrunsOnceWhenSerial
  <2> DEFINE Below == {t \in Committed : ~run[t].fallback}
  <2>1. IsFiniteSet(Below) /\ Cardinality(Below) \in Nat /\ Cardinality(Below) <= Answers
    BY CommittedFinite, FS_Subset, FS_CardinalityType DEF Answers
  <2>2. Cost * Cardinality(Below) < WarnAt + Cost
    BY <1>5 DEF OverrunsOnceWhenSerial
  <2>3. CASE run[s].fallback
    <3>1. Below' = Below
      BY <1>2, <1>5, <2>3
    <3> QED
      BY <2>2, <3>1
  <2>4. CASE ~run[s].fallback
    <3>1. Below' = Below \cup {s} /\ s \notin Below
      BY <1>2, <1>5, <2>4
    <3>2. Cardinality(Below \cup {s}) = Cardinality(Below) + 1
      BY <2>1, <3>1, FS_AddElement
    <3>3. tokensUsed = Cost * Answers /\ tokensUsed < WarnAt
      <4>1. ~BudgetWarning(tokensUsed) /\ tokensUsed = Cost * Answers
        BY <1>5, <1>11, <2>4 DEF Serial
      <4>2. budgeted /\ tokensUsed \in Nat /\ WarnAt \in Nat
        BY <1>5, StreamAssumption DEF Charged
      <4> QED
        BY <4>1, <4>2 DEF BudgetWarning
    <3> PICK n \in Nat : n = Cardinality(Below)
      BY <2>1
    <3>4. Cost * n <= Cost * Answers
      BY <1>2, <1>8, <2>1
    <3>5. Cost * (n + 1) = Cost * n + Cost /\ Cost * n \in Nat /\ WarnAt \in Nat
      BY <1>8, StreamAssumption
    <3>6. Cost * (n + 1) < WarnAt + Cost
      BY <1>8, <1>10, <3>3, <3>4, <3>5
    <3> QED
      BY <3>1, <3>2, <3>6
  <2> QED
    BY <2>3, <2>4
<1>15. budgeted' \in BOOLEAN
  BY <1>5
<1> QED
  BY <1>3, <1>6, <1>7, <1>12, <1>13, <1>14, <1>15

(***************************************************************************)
(* The other requests leave every stream where it is.                      *)
(***************************************************************************)
LEMMA OthersStep ==
  ASSUME IInv, PcOK', \A s \in Streams : pc'[s] = pc[s],
         RowsOK', UNCHANGED <<tokensUsed, budgeted, run, told>>,
         overlapped => overlapped'
  PROVE  IInv'
<1> USE DEF IInv
<1>1. Committed' = Committed /\ Answers' = Answers
  BY DEF Committed, Answers
<1>2. ToldOK' /\ RunOK'
  BY DEF ToldOK, RunOK
<1>3. Charged' /\ Serial'
  BY <1>1 DEF Charged, Serial, BudgetWarning
<1>4. {s \in Committed : ~run[s].fallback}' = {s \in Committed : ~run[s].fallback}
  BY <1>1
<1>5. OverrunsOnceWhenSerial'
  BY <1>4 DEF OverrunsOnceWhenSerial
<1> QED
  BY <1>2, <1>3, <1>5

LEMMA SendStep ==
  ASSUME IInv, NEW m \in Sends, Send(m)
  PROVE  IInv'
<1>1. pc' = [pc EXCEPT ![m] = "committed"] /\ m \notin Streams
  BY StreamAssumption DEF Send, At
<1>2. PcOK' /\ \A s \in Streams : pc'[s] = pc[s]
  BY <1>1 DEF IInv, PcOK, Places, Ended
<1>3. Committed' = Committed
  BY <1>2 DEF Committed
<1> PICK row : row = Row(m, "user", clock', {})
  OBVIOUS
<1>4. /\ messages' = messages \cup {row} /\ row.by = m /\ row.kind = "user"
      /\ UNCHANGED <<usage, memory>>
  BY DEF Send, Row
<1>5. RowsOK'
  BY <1>3, <1>4 DEF IInv, RowsOK
<1> QED
  BY <1>2, <1>5, OthersStep DEF Send

LEMMA MarkCheckStep ==
  ASSUME IInv, NEW m \in Marks, MarkCheck(m)
  PROVE  IInv'
<1>1. PICK x \in {"prepared", "committed", "failed"} : pc' = [pc EXCEPT ![m] = x]
  <2> PICK x : x = CASE usage = {} -> "prepared"
                     [] Cardinality(usage) = 1 -> "committed"
                     [] OTHER -> "failed"
    OBVIOUS
  <2>1. pc' = [pc EXCEPT ![m] = x]
    BY DEF MarkCheck
  <2>2. ~(usage = {} /\ Cardinality(usage) = 1)
    BY FS_EmptySet
  <2>3. x \in {"prepared", "committed", "failed"}
    <3>1. CASE usage = {}
      BY <2>2, <3>1
    <3>2. CASE usage # {} /\ Cardinality(usage) = 1
      BY <3>2
    <3>3. CASE usage # {} /\ Cardinality(usage) # 1
      BY <3>3
    <3> QED
      BY <3>1, <3>2, <3>3
  <2> QED
    BY <2>1, <2>3
<1>2. PcOK' /\ \A s \in Streams : pc'[s] = pc[s]
  BY <1>1, StreamAssumption DEF IInv, PcOK, Places, Live, Ended
<1>3. UNCHANGED <<tables, run, told, overlapped>>
  BY DEF MarkCheck, tables
<1>4. Committed' = Committed
  BY <1>2 DEF Committed
<1>5. RowsOK'
  BY <1>3, <1>4, RowsStay DEF IInv
<1> QED
  BY <1>2, <1>3, <1>5, OthersStep DEF tables

LEMMA MarkInsertStep ==
  ASSUME IInv, NEW m \in Marks, MarkInsert(m)
  PROVE  IInv'
<1>1. pc' = [pc EXCEPT ![m] = "committed"] /\ m \notin Streams
  BY StreamAssumption DEF MarkInsert, At
<1>2. PcOK' /\ \A s \in Streams : pc'[s] = pc[s]
  BY <1>1 DEF IInv, PcOK, Places, Ended
<1>3. Committed' = Committed
  BY <1>2 DEF Committed
<1>4. RowsOK'
  BY <1>3 DEF MarkInsert, IInv, RowsOK
<1> QED
  BY <1>2, <1>4, OthersStep DEF MarkInsert

LEMMA StutterStep ==
  ASSUME IInv, UNCHANGED vars
  PROVE  IInv'
<1>1. UNCHANGED <<messages, usage, memory, tokensUsed, budgeted, pc, run, told, overlapped>>
  BY DEF vars
<1>2. Committed' = Committed
  BY <1>1 DEF Committed
<1>3. PcOK' /\ RowsOK'
  BY <1>1, <1>2 DEF IInv, PcOK, RowsOK
<1> QED
  BY <1>1, <1>3, OthersStep

LEMMA NextIInv == ASSUME IInv, [Next]_vars PROVE IInv'
<1>1. ASSUME NEW s \in Streams, Grant(s) PROVE IInv'
  BY <1>1, GrantStep
<1>2. ASSUME NEW s \in Streams, Refuse(s) PROVE IInv'
  BY <1>2, RefuseStep
<1>3. ASSUME NEW s \in Streams, Begin(s) PROVE IInv'
  BY <1>3, BeginStep
<1>4. ASSUME NEW s \in Streams, BeginFails(s) \/ Fail(s) \/ Disconnect(s) PROVE IInv'
  BY <1>4, GeneratorLeaves, LeaveStep
<1>5. ASSUME NEW s \in Streams, Assemble(s) PROVE IInv'
  BY <1>5, AssembleAdvances, AdvanceStep
<1>6. ASSUME NEW s \in Streams,
             Announce(s) \/ Summarise(s) \/ Reply(s) \/ Flush(s) \/ TellDone(s)
      PROVE  IInv'
  BY <1>6, GeneratorAdvances, AdvanceStep
<1>7. ASSUME NEW s \in Streams, Commit(s) PROVE IInv'
  BY <1>7, CommitStep
<1>8. ASSUME NEW m \in Sends, Send(m) PROVE IInv'
  BY <1>8, SendStep
<1>9. ASSUME NEW m \in Marks, MarkCheck(m) \/ MarkInsert(m) PROVE IInv'
  BY <1>9, MarkCheckStep, MarkInsertStep
<1>10. ASSUME UNCHANGED vars PROVE IInv'
  BY <1>10, StutterStep
<1> QED
  BY <1>1, <1>2, <1>3, <1>4, <1>5, <1>6, <1>7, <1>8, <1>9, <1>10 DEF Next, AllEnded

LEMMA SpecIInv == Spec => []IInv
<1>1. Init => IInv
  BY InitIInv
<1>2. IInv /\ [Next]_vars => IInv'
  BY NextIInv
<1> QED
  BY <1>1, <1>2, PTL DEF Spec

(***************************************************************************)
(* What the model is given of the conversation.  A summary row remembers   *)
(* what its maker left out of its window, and the maker's own notes stay   *)
(* as they were once it has committed; so whoever reuses the summary can   *)
(* point at them for whatever is missing.  The first summary exists        *)
(* because each new row is older or younger than the oldest one so far.    *)
(***************************************************************************)
Early == {"idle", "granted", "prepared", "assembling", "summarising"}

Recent(s) ==
  /\ run[s].verbatim = run[s].seen \/ Cardinality(run[s].verbatim) >= Keep
  /\ \A m \in run[s].verbatim, n \in run[s].seen \ run[s].verbatim : n.at <= m.at

Explained(s) ==
  \A x \in Lost(s) : \E m \in Summaries(messages) :
    m.by # s /\ (x \in run[m.by].verbatim \/ x \notin run[m.by].seen)

HeardRight(s) ==
  /\ pc[s] = "assembling" => (run[s].announced <=> WillCompact(messages))
  /\ pc[s] = "summarising" => run[s].announced
  /\ Assembled(s) => (run[s].announced <=> run[s].compacted)

StreamHist(s) ==
  /\ run[s].at \in Nat /\ run[s].announced \in BOOLEAN /\ run[s].compacted \in BOOLEAN
  /\ pc[s] \in Early => ~run[s].compacted
  /\ pc[s] = "summarising" \/ Assembled(s) => Recent(s)
  /\ Assembled(s) => Explained(s)
  /\ Assembled(s) /\ run[s].compacted => run[s].covered = run[s].seen \ run[s].verbatim
  /\ ~overlapped => HeardRight(s)

SummariesOK ==
  \A m \in Summaries(messages) :
    m.by \in Committed /\ m.covers = run[m.by].seen \ run[m.by].verbatim

OldestSummary ==
  Summaries(messages) # {} =>
    \E m \in Summaries(messages) : \A n \in Summaries(messages) : m.at <= n.at

HistInv ==
  /\ clock \in Nat /\ \A m \in messages : m.at \in Nat
  /\ SummariesOK /\ OldestSummary
  /\ \A s \in Streams : StreamHist(s)

LEMMA InitHist == ASSUME Init PROVE HistInv
<1>1. Summaries(messages) = {}
  BY DEF Init, Summaries
<1>2. \A s \in Streams : pc[s] = "idle" /\ run[s] = NewRun
  BY DEF Init
<1>3. \A s \in Streams : StreamHist(s)
  <2> SUFFICES ASSUME NEW s \in Streams PROVE StreamHist(s)
    OBVIOUS
  <2>1. /\ run[s].at \in Nat /\ run[s].announced \in BOOLEAN
        /\ run[s].compacted \in BOOLEAN /\ ~run[s].compacted
    <3>1. /\ NewRun.at \in Nat /\ NewRun.announced \in BOOLEAN
          /\ NewRun.compacted \in BOOLEAN /\ ~NewRun.compacted
      BY DEF NewRun
    <3> QED
      BY <1>2, <3>1
  <2>2. pc[s] \notin {"assembling", "summarising"} /\ ~Assembled(s)
    BY <1>2 DEF Assembled
  <2>3. HeardRight(s)
    BY <2>2 DEF HeardRight
  <2> QED
    BY <2>1, <2>2, <2>3 DEF StreamHist
<1> QED
  BY <1>1, <1>3 DEF Init, HistInv, SummariesOK, OldestSummary

(* A stream that stands still stays explained while rows are only added;   *)
(* an announcement stays right unless rows come in between.                *)
LEMMA StandingHist ==
  ASSUME HistInv, NEW t \in Streams, pc'[t] = pc[t], run'[t] = run[t],
         messages \subseteq messages', overlapped => overlapped',
         \A u \in Committed : run'[u] = run[u],
         messages' = messages \/ overlapped' \/ pc[t] \notin Live
  PROVE  StreamHist(t)'
<1>1. StreamHist(t) /\ SummariesOK
  BY DEF HistInv
<1>2. Assembled(t)' <=> Assembled(t)
  BY DEF Assembled
<1>3. Recent(t)' <=> Recent(t)
  BY DEF Recent
<1>4. Explained(t) => Explained(t)'
  <2>1. Summaries(messages) \subseteq Summaries(messages)'
    BY DEF Summaries
  <2>2. \A m \in Summaries(messages) : run'[m.by] = run[m.by]
    BY <1>1 DEF SummariesOK
  <2>3. Lost(t)' = Lost(t)
    BY DEF Lost
  <2> QED
    BY <2>1, <2>2, <2>3 DEF Explained
<1>5. ASSUME ~overlapped' PROVE HeardRight(t)'
  <2>1. HeardRight(t)
    BY <1>1, <1>5 DEF StreamHist
  <2>2. pc[t] = "assembling" => messages' = messages
    BY <1>5 DEF Live
  <2>3. pc[t] = "assembling" => (WillCompact(messages)' <=> WillCompact(messages))
    BY <2>2
  <2> QED
    BY <1>2, <2>1, <2>3 DEF HeardRight
<1> QED
  BY <1>1, <1>2, <1>3, <1>4, <1>5 DEF StreamHist

(* One stream moves, before its commit, and only its own notes change.     *)
LEMMA OneMovesHist ==
  ASSUME IInv, HistInv, NEW s \in Streams, pc[s] # "committed",
         \A t \in Streams \ {s} : pc'[t] = pc[t] /\ run'[t] = run[t],
         messages' = messages, clock' \in Nat, overlapped => overlapped',
         StreamHist(s)'
  PROVE  HistInv'
<1>1. \A u \in Committed : u # s /\ pc'[u] = pc[u] /\ run'[u] = run[u]
  BY DEF Committed
<1>2. Committed \subseteq Committed'
  BY <1>1 DEF Committed
<1>3. SummariesOK'
  BY <1>1, <1>2 DEF HistInv, SummariesOK
<1>4. OldestSummary'
  BY DEF HistInv, OldestSummary
<1>5. \A t \in Streams \ {s} : StreamHist(t)'
  BY <1>1, StandingHist
<1> QED
  BY <1>3, <1>4, <1>5 DEF HistInv

(***************************************************************************)
(* The steps, with respect to it.                                          *)
(***************************************************************************)
LEMMA MovesPc ==
  ASSUME IInv, NEW s \in Streams, NEW x, pc' = [pc EXCEPT ![s] = x]
  PROVE  pc'[s] = x /\ \A t \in Streams \ {s} : pc'[t] = pc[t]
BY DEF IInv, PcOK

LEMMA QuietHist ==
  ASSUME IInv, HistInv, NEW s \in Streams, Refuse(s) \/ Grant(s) \/ Begin(s)
  PROVE  HistInv'
<1>1. PICK x \in {"refused", "granted", "prepared"} : pc' = [pc EXCEPT ![s] = x]
  BY DEF Refuse, Grant, Begin, At
<1>2. pc'[s] = x /\ \A t \in Streams \ {s} : pc'[t] = pc[t]
  BY <1>1, MovesPc
<1>3. pc[s] \in {"idle", "granted"} /\ messages' = messages /\ (overlapped => overlapped')
  <2>1. pc[s] \in {"idle", "granted"} /\ messages' = messages
    BY DEF Refuse, Grant, Begin, At, tables
  <2>2. overlapped => overlapped'
    BY DEF Refuse, Grant, Begin
  <2> QED
    BY <2>1, <2>2
<1>4. clock' \in Nat
  BY DEF Refuse, Grant, Begin, HistInv
<1> PICK warned : warned = BudgetWarning(tokensUsed)
  OBVIOUS
<1> PICK uses : uses = (s \in Prompted /\ usage = {})
  OBVIOUS
<1>5. \/ run' = run
      \/ run' = [run EXCEPT ![s].fallback = warned]
      \/ run' = [run EXCEPT ![s] = [@ EXCEPT !.at = clock', !.loaded = tokensUsed,
                                             !.usesPrompt = uses]]
  BY DEF Refuse, Grant, Begin
<1>6. /\ \A t \in Streams \ {s} : run'[t] = run[t]
      /\ run'[s].at = run[s].at \/ run'[s].at = clock'
      /\ run'[s].announced = run[s].announced /\ run'[s].compacted = run[s].compacted
  BY <1>5 DEF IInv, RunOK, NewRun
<1>7. StreamHist(s)'
  <2>1. StreamHist(s) /\ pc[s] \in Early
    BY <1>3 DEF HistInv, Early
  <2> QED
    BY <1>2, <1>4, <1>6, <2>1 DEF StreamHist, Assembled, HeardRight
<1> QED
  BY <1>2, <1>3, <1>4, <1>6, <1>7, OneMovesHist

LEMMA LeaveHist ==
  ASSUME IInv, HistInv, NEW s \in Streams, BeginFails(s) \/ Fail(s) \/ Disconnect(s)
  PROVE  HistInv'
<1>1. Leave(s)
  BY GeneratorLeaves
<1>2. PICK x \in {"failed", "gone"} : pc' = [pc EXCEPT ![s] = x]
  BY <1>1 DEF Leave
<1>3. pc'[s] = x /\ \A t \in Streams \ {s} : pc'[t] = pc[t]
  BY <1>2, MovesPc
<1>4. run'[s] = NewRun /\ \A t \in Streams \ {s} : run'[t] = run[t]
  BY <1>1 DEF Leave, IInv, RunOK
<1>5. messages' = messages /\ (overlapped => overlapped') /\ clock' \in Nat
  BY DEF BeginFails, Fail, Disconnect, tables, HistInv
<1>6. pc[s] # "committed"
  BY <1>1 DEF Leave, Live
<1>7. StreamHist(s)'
  BY <1>3, <1>4 DEF StreamHist, NewRun, Early, Assembled, HeardRight
<1> QED
  BY <1>3, <1>4, <1>5, <1>6, <1>7, OneMovesHist

LEMMA AnnounceHist ==
  ASSUME IInv, HistInv, NEW s \in Streams, Announce(s)
  PROVE  HistInv'
<1>1. pc[s] = "prepared" /\ pc' = [pc EXCEPT ![s] = "assembling"]
  BY DEF Announce, At
<1>2. pc'[s] = "assembling" /\ \A t \in Streams \ {s} : pc'[t] = pc[t]
  BY <1>1, MovesPc
<1>3. messages' = messages /\ overlapped' = overlapped /\ clock' \in Nat
  BY DEF Announce, tables, HistInv
<1> PICK b \in BOOLEAN : b <=> WillCompact(messages)
  BY DEF WillCompact
<1>4. run' = [run EXCEPT ![s].announced = b]
  BY DEF Announce, WillCompact
<1>5. /\ \A t \in Streams \ {s} : run'[t] = run[t]
      /\ run'[s].announced = b
      /\ run'[s].at = run[s].at /\ run'[s].compacted = run[s].compacted
  BY <1>4 DEF IInv, RunOK, NewRun
<1>6. WillCompact(messages)' <=> b
  BY <1>3
<1>7. StreamHist(s)'
  <2>1. StreamHist(s) /\ pc[s] \in Early
    BY <1>1 DEF HistInv, Early
  <2> QED
    BY <1>2, <1>5, <1>6, <2>1 DEF StreamHist, Assembled, HeardRight
<1> QED
  BY <1>1, <1>2, <1>3, <1>5, <1>7, OneMovesHist

(* A window is recent, whatever order the ties took.                       *)
LEMMA WindowIsRecent ==
  ASSUME NEW rows, NEW window \in Windows(rows)
  PROVE  /\ Cardinality(window) >= Keep
         /\ \A m \in window, n \in rows \ window : n.at <= m.at
BY StreamAssumption DEF Windows, kSubset

(* The first summary is one of them, and what it does not cover was recent *)
(* or not yet there when its maker read the conversation.                  *)
LEMMA FirstSummaryExplains ==
  ASSUME HistInv, Summaries(messages) # {}, NEW x, x \notin FirstSummary(messages).covers
  PROVE  \E m \in Summaries(messages) :
           m.by \in Committed /\ (x \in run[m.by].verbatim \/ x \notin run[m.by].seen)
<1>1. \E m \in Summaries(messages) : \A n \in Summaries(messages) : m.at <= n.at
  BY DEF HistInv, OldestSummary
<1>2. FirstSummary(messages) \in Summaries(messages)
  BY <1>1 DEF FirstSummary
<1> QED
  BY <1>2 DEF HistInv, SummariesOK

LEMMA AssembleHist ==
  ASSUME IInv, HistInv, NEW s \in Streams, Assemble(s)
  PROVE  HistInv'
<1> DEFINE rows == NonSummary(messages)
<1> DEFINE Assembles(x, window, covered) ==
             /\ pc[s] = "assembling" /\ pc' = [pc EXCEPT ![s] = x]
             /\ Context(s, window, covered)
             /\ \/ ~TooLong(messages) /\ window = rows /\ x = "asking"
                \/ /\ TooLong(messages) /\ Summaries(messages) # {} /\ x = "asking"
                   /\ window \in Windows(rows) /\ covered = FirstSummary(messages).covers
                \/ /\ TooLong(messages) /\ Summaries(messages) = {} /\ x = "summarising"
                   /\ window \in Windows(rows)
<1>0. \E x \in {"asking", "summarising"} : \E window, covered : Assembles(x, window, covered)
  <2>1. CASE ~TooLong(messages) /\ At(s, "assembling", "asking")
             /\ Context(s, NonSummary(messages), UNION {m.covers : m \in Summaries(messages)})
    BY <2>1 DEF At
  <2>2. CASE /\ TooLong(messages) /\ Summaries(messages) # {} /\ At(s, "assembling", "asking")
             /\ \E window \in Windows(NonSummary(messages)) :
                  Context(s, window, FirstSummary(messages).covers)
    BY <2>2 DEF At
  <2>3. CASE /\ TooLong(messages) /\ Summaries(messages) = {} /\ At(s, "assembling", "summarising")
             /\ \E window \in Windows(NonSummary(messages)) : Context(s, window, {})
    BY <2>3 DEF At
  <2> QED
    BY <2>1, <2>2, <2>3 DEF Assemble
<1>10. PICK x \in {"asking", "summarising"} :
         \E window, covered : Assembles(x, window, covered)
  BY <1>0
<1>1. PICK window, covered :
        /\ pc[s] = "assembling" /\ pc' = [pc EXCEPT ![s] = x]
        /\ Context(s, window, covered)
        /\ \/ ~TooLong(messages) /\ window = rows /\ x = "asking"
           \/ /\ TooLong(messages) /\ Summaries(messages) # {} /\ x = "asking"
              /\ window \in Windows(rows) /\ covered = FirstSummary(messages).covers
           \/ /\ TooLong(messages) /\ Summaries(messages) = {} /\ x = "summarising"
              /\ window \in Windows(rows)
  BY <1>10
<1>2. pc'[s] = x /\ \A t \in Streams \ {s} : pc'[t] = pc[t]
  BY <1>1, MovesPc
<1>3. messages' = messages /\ overlapped' = overlapped /\ clock' \in Nat
  BY DEF Assemble, tables, HistInv
<1> PICK seen : seen = rows
  OBVIOUS
<1>4. /\ \A t \in Streams \ {s} : run'[t] = run[t]
      /\ run'[s].seen = seen /\ run'[s].verbatim = window /\ run'[s].covered = covered
      /\ run'[s].at = run[s].at
      /\ run'[s].announced = run[s].announced /\ run'[s].compacted = run[s].compacted
  <2>1. run' = [run EXCEPT ![s] = [@ EXCEPT !.seen = seen, !.verbatim = window,
                                            !.covered = covered]]
    BY <1>1 DEF Context
  <2> QED
    BY <2>1 DEF IInv, RunOK, NewRun
<1>5. StreamHist(s) /\ ~run[s].compacted
  BY <1>1 DEF HistInv, StreamHist, Early
<1>6. Recent(s)'
  <2>1. CASE window = seen
    BY <1>4, <2>1 DEF Recent
  <2>2. CASE window \in Windows(seen)
    BY <1>4, <2>2, WindowIsRecent DEF Recent
  <2> QED
    BY <1>1, <2>1, <2>2
<1>7. x = "asking" => Explained(s)'
  <2> SUFFICES ASSUME x = "asking", NEW y \in Lost(s)'
               PROVE  \E m \in Summaries(messages)' :
                        m.by # s /\ (y \in run'[m.by].verbatim \/ y \notin run'[m.by].seen)
    BY DEF Explained
  <2>1. y \in seen /\ y \notin window /\ y \notin covered
    BY <1>4 DEF Lost
  <2>2. Summaries(messages) # {} /\ covered = FirstSummary(messages).covers
    BY <1>1, <2>1
  <2>3. PICK m \in Summaries(messages) :
          m.by \in Committed /\ (y \in run[m.by].verbatim \/ y \notin run[m.by].seen)
    BY <2>1, <2>2, FirstSummaryExplains
  <2>4. m.by \in Streams /\ m.by # s
    BY <1>1, <2>3 DEF Committed
  <2> QED
    BY <1>3, <1>4, <2>3, <2>4
<1>8. ~overlapped' => HeardRight(s)'
  <2> SUFFICES ASSUME ~overlapped' PROVE HeardRight(s)'
    OBVIOUS
  <2>1. run[s].announced <=> WillCompact(messages)
    BY <1>1, <1>3, <1>5 DEF StreamHist, HeardRight
  <2>2. run[s].announced <=> x = "summarising"
    BY <1>1, <2>1 DEF WillCompact
  <2> QED
    BY <1>2, <1>4, <1>5, <2>2 DEF HeardRight, Assembled
<1>9. StreamHist(s)'
  BY <1>2, <1>4, <1>5, <1>6, <1>7, <1>8 DEF StreamHist, Assembled
<1> QED
  BY <1>1, <1>2, <1>3, <1>4, <1>9, OneMovesHist

LEMMA SummariseHist ==
  ASSUME IInv, HistInv, NEW s \in Streams, Summarise(s)
  PROVE  HistInv'
<1>1. pc[s] = "summarising" /\ pc' = [pc EXCEPT ![s] = "asking"]
  BY DEF Summarise, At
<1>2. pc'[s] = "asking" /\ \A t \in Streams \ {s} : pc'[t] = pc[t]
  BY <1>1, MovesPc
<1>3. messages' = messages /\ overlapped' = overlapped /\ clock' \in Nat
  BY DEF Summarise, tables, HistInv
<1>4. /\ \A t \in Streams \ {s} : run'[t] = run[t]
      /\ run'[s].compacted = TRUE /\ run'[s].covered = run[s].seen \ run[s].verbatim
      /\ run'[s].seen = run[s].seen /\ run'[s].verbatim = run[s].verbatim
      /\ run'[s].at = run[s].at /\ run'[s].announced = run[s].announced
  BY DEF Summarise, IInv, RunOK, NewRun
<1>5. StreamHist(s)
  BY DEF HistInv
<1>6. Recent(s)'
  BY <1>1, <1>4, <1>5 DEF StreamHist, Recent
<1>7. Explained(s)'
  <2>1. Lost(s)' = {}
    BY <1>4 DEF Lost
  <2> QED
    BY <2>1 DEF Explained
<1>8. ~overlapped' => HeardRight(s)'
  BY <1>1, <1>2, <1>3, <1>4, <1>5 DEF StreamHist, HeardRight
<1>9. StreamHist(s)'
  BY <1>2, <1>4, <1>5, <1>6, <1>7, <1>8 DEF StreamHist, Early
<1> QED
  BY <1>1, <1>2, <1>3, <1>4, <1>9, OneMovesHist

LEMMA AnswerHist ==
  ASSUME IInv, HistInv, NEW s \in Streams, Reply(s) \/ Flush(s) \/ TellDone(s)
  PROVE  HistInv'
<1>1. PICK x \in {"flushing", "answered", "told"} : pc' = [pc EXCEPT ![s] = x]
  BY DEF Reply, Flush, TellDone, At
<1>2. pc'[s] = x /\ \A t \in Streams \ {s} : pc'[t] = pc[t]
  BY <1>1, MovesPc
<1>3. pc[s] \in {"asking", "flushing", "answered"}
  BY DEF Reply, Flush, TellDone, At
<1>4. messages' = messages /\ overlapped' = overlapped /\ clock' \in Nat
  BY DEF Reply, Flush, TellDone, tables, HistInv
<1>5. run' = run \/ \E valid \in MemoryOutcomes : run' = [run EXCEPT ![s].remembers = valid]
  BY DEF Reply, Flush, TellDone
<1>6. /\ \A t \in Streams \ {s} : run'[t] = run[t]
      /\ run'[s].compacted = run[s].compacted /\ run'[s].covered = run[s].covered
      /\ run'[s].seen = run[s].seen /\ run'[s].verbatim = run[s].verbatim
      /\ run'[s].at = run[s].at /\ run'[s].announced = run[s].announced
  BY <1>5 DEF IInv, RunOK, NewRun
<1>7. StreamHist(s) /\ Assembled(s) /\ Assembled(s)' /\ pc'[s] \notin Early
  BY <1>2, <1>3 DEF HistInv, Assembled, Early
<1>8. Recent(s)'
  BY <1>6, <1>7 DEF StreamHist, Recent
<1>9. Explained(s)'
  <2>1. Lost(s)' = Lost(s) /\ Explained(s)
    BY <1>6, <1>7 DEF Lost, StreamHist
  <2>2. \A m \in Summaries(messages) : m.by \in Streams
    BY DEF HistInv, SummariesOK, Committed
  <2> QED
    BY <1>4, <1>6, <2>1, <2>2 DEF Explained
<1>10. ~overlapped' => HeardRight(s)'
  BY <1>2, <1>4, <1>6, <1>7 DEF StreamHist, HeardRight, Assembled
<1>11. StreamHist(s)'
  BY <1>6, <1>7, <1>8, <1>9, <1>10 DEF StreamHist
<1> QED
  BY <1>2, <1>3, <1>4, <1>6, <1>11, OneMovesHist

(* The commit adds the summary that was made, with what it covers.         *)
LEMMA CommitHist ==
  ASSUME IInv, HistInv, NEW s \in Streams, Commit(s)
  PROVE  HistInv'
<1>1. pc[s] = "told" /\ pc' = [pc EXCEPT ![s] = "committed"]
  BY DEF Commit, At
<1>2. pc'[s] = "committed" /\ \A t \in Streams \ {s} : pc'[t] = pc[t]
  BY <1>1, MovesPc
<1>3. run' = run /\ overlapped' = overlapped /\ clock' \in Nat
  BY DEF Commit, HistInv
<1>4. StreamHist(s) /\ Assembled(s) /\ Assembled(s)'
  BY <1>1, <1>2 DEF HistInv, Assembled
<1>5. Committed' = Committed \cup {s}
  BY <1>2 DEF Committed
<1> PICK new : new = OwnRows(s)
  OBVIOUS
<1>6. messages' = messages \cup new
  BY DEF Commit
<1>7. \A m \in new : /\ m.by = s /\ m.at = run[s].at
                     /\ m.kind = "summary" => run[s].compacted /\ m.covers = run[s].covered
  BY DEF OwnRows, Row
<1>8. run[s].at \in Nat /\ \A m \in messages : m.at \in Nat
  BY <1>4 DEF StreamHist, HistInv
<1>9. \A m \in messages' : m.at \in Nat
  BY <1>6, <1>7, <1>8
<1>10. SummariesOK'
  <2> SUFFICES ASSUME NEW m \in Summaries(messages)'
               PROVE  m.by \in Committed' /\ m.covers = run'[m.by].seen \ run'[m.by].verbatim
    BY DEF SummariesOK
  <2>1. CASE m \in messages
    BY <1>3, <1>5, <2>1 DEF Summaries, HistInv, SummariesOK
  <2>2. CASE m \in new
    BY <1>3, <1>4, <1>5, <1>7, <2>2 DEF Summaries, StreamHist
  <2> QED
    BY <1>6, <2>1, <2>2 DEF Summaries
<1>11. OldestSummary'
  <2> SUFFICES ASSUME Summaries(messages)' # {}
               PROVE  \E m \in Summaries(messages)' : \A n \in Summaries(messages)' : m.at <= n.at
    BY DEF OldestSummary
  <2>1. Summaries(messages)' = Summaries(messages) \cup Summaries(new)
    BY <1>6 DEF Summaries
  <2>2. /\ \A m \in Summaries(messages) : m.at \in Nat
        /\ \A m \in Summaries(new) : m.at = run[s].at
    BY <1>7, <1>8 DEF Summaries
  <2>3. CASE Summaries(messages) = {}
    BY <1>8, <2>1, <2>2, <2>3
  <2>4. CASE Summaries(messages) # {}
    <3>1. PICK m \in Summaries(messages) : \A n \in Summaries(messages) : m.at <= n.at
      BY <2>4 DEF HistInv, OldestSummary
    <3>2. CASE m.at <= run[s].at
      BY <2>1, <2>2, <3>1, <3>2
    <3>3. CASE ~(m.at <= run[s].at)
      <4>1. CASE Summaries(new) = {}
        BY <2>1, <3>1, <4>1
      <4>2. CASE Summaries(new) # {}
        BY <1>8, <2>1, <2>2, <3>1, <3>3, <4>2
      <4> QED
        BY <4>1, <4>2
    <3> QED
      BY <3>2, <3>3
  <2> QED
    BY <2>3, <2>4
<1>12. \A t \in Streams \ {s} : StreamHist(t)'
  <2>1. ~overlapped' => \A t \in Streams \ {s} : pc[t] \notin Live
    BY <1>1, <1>3 DEF IInv, Serial, Live
  <2> QED
    BY <1>2, <1>3, <1>6, <2>1, StandingHist
<1>13. StreamHist(s)'
  <2>1. Explained(s) => Explained(s)'
    <3>1. Summaries(messages) \subseteq Summaries(messages)'
      BY <1>6 DEF Summaries
    <3>2. Lost(s)' = Lost(s)
      BY <1>3 DEF Lost
    <3> QED
      BY <1>3, <3>1, <3>2 DEF Explained
  <2>2. Recent(s)' <=> Recent(s)
    BY <1>3 DEF Recent
  <2>3. ~overlapped => HeardRight(s)'
    BY <1>2, <1>3, <1>4 DEF StreamHist, HeardRight
  <2> QED
    BY <1>2, <1>3, <1>4, <2>1, <2>2, <2>3 DEF StreamHist, Early
<1> QED
  BY <1>3, <1>9, <1>10, <1>11, <1>12, <1>13 DEF HistInv

(* A saved message is no summary; while a stream is live it overlaps.      *)
LEMMA SendHist ==
  ASSUME IInv, HistInv, NEW m \in Sends, Send(m)
  PROVE  HistInv'
<1>1. \A s \in Streams : pc'[s] = pc[s]
  BY StreamAssumption DEF Send, At, IInv, PcOK
<1>2. run' = run /\ clock' \in Nat /\ (overlapped => overlapped')
  <2>1. run' = run /\ clock' \in Nat
    BY DEF Send, HistInv
  <2>2. overlapped => overlapped'
    BY DEF Send
  <2> QED
    BY <2>1, <2>2
<1> PICK row : row = Row(m, "user", clock', {})
  OBVIOUS
<1>3. messages' = messages \cup {row} /\ row.kind = "user" /\ row.at = clock'
  BY DEF Send, Row
<1>4. Summaries(messages)' = Summaries(messages)
  BY <1>3 DEF Summaries
<1>5. Committed' = Committed
  BY <1>1 DEF Committed
<1>6. SummariesOK' /\ OldestSummary'
  BY <1>2, <1>4, <1>5 DEF HistInv, SummariesOK, OldestSummary
<1>7. \A s \in Streams : overlapped' \/ pc[s] \notin Live
  BY DEF Send
<1>8. \A s \in Streams : StreamHist(s)'
  BY <1>1, <1>2, <1>3, <1>7, StandingHist
<1> QED
  BY <1>2, <1>3, <1>6, <1>8 DEF HistInv

LEMMA RestHist ==
  ASSUME HistInv, \A s \in Streams : pc'[s] = pc[s],
         UNCHANGED <<messages, run, clock, overlapped>>
  PROVE  HistInv'
<1>1. Committed' = Committed
  BY DEF Committed
<1>2. SummariesOK' /\ OldestSummary'
  BY <1>1 DEF HistInv, SummariesOK, OldestSummary
<1>3. \A s \in Streams : StreamHist(s)'
  BY StandingHist
<1> QED
  BY <1>2, <1>3 DEF HistInv

LEMMA NextHist == ASSUME IInv, HistInv, [Next]_vars PROVE HistInv'
<1>1. ASSUME NEW s \in Streams, Refuse(s) \/ Grant(s) \/ Begin(s) PROVE HistInv'
  BY <1>1, QuietHist
<1>2. ASSUME NEW s \in Streams, BeginFails(s) \/ Fail(s) \/ Disconnect(s) PROVE HistInv'
  BY <1>2, LeaveHist
<1>3. ASSUME NEW s \in Streams, Announce(s) PROVE HistInv'
  BY <1>3, AnnounceHist
<1>4. ASSUME NEW s \in Streams, Assemble(s) PROVE HistInv'
  BY <1>4, AssembleHist
<1>5. ASSUME NEW s \in Streams, Summarise(s) PROVE HistInv'
  BY <1>5, SummariseHist
<1>6. ASSUME NEW s \in Streams, Reply(s) \/ Flush(s) \/ TellDone(s) PROVE HistInv'
  BY <1>6, AnswerHist
<1>7. ASSUME NEW s \in Streams, Commit(s) PROVE HistInv'
  BY <1>7, CommitHist
<1>8. ASSUME NEW m \in Sends, Send(m) PROVE HistInv'
  BY <1>8, SendHist
<1>9. ASSUME NEW m \in Marks, MarkCheck(m) \/ MarkInsert(m) PROVE HistInv'
  <2>1. \A s \in Streams : pc'[s] = pc[s]
    BY <1>9, StreamAssumption DEF MarkCheck, MarkInsert, At, IInv, PcOK
  <2>2. UNCHANGED <<messages, run, clock, overlapped>>
    BY <1>9 DEF MarkCheck, MarkInsert, tables
  <2> QED
    BY <2>1, <2>2, RestHist
<1>10. ASSUME UNCHANGED vars PROVE HistInv'
  BY <1>10, RestHist DEF vars
<1> QED
  BY <1>1, <1>2, <1>3, <1>4, <1>5, <1>6, <1>7, <1>8, <1>9, <1>10 DEF Next, AllEnded

LEMMA SpecHist == Spec => []HistInv
<1>1. Init => HistInv
  BY InitHist
<1>2. IInv /\ HistInv /\ [Next]_vars => HistInv'
  BY NextHist
<1> QED
  BY <1>1, <1>2, SpecIInv, PTL DEF Spec

(***************************************************************************)
(* The theorems.                                                           *)
(***************************************************************************)
(* An exchange is stored whole or not at all, and only for a client that   *)
(* heard "done" and never "error", however many requests share the thread. *)
THEOREM ExchangesAreWholeCorrect == Spec => []ExchangesAreWhole
<1>1. IInv => ExchangesAreWhole
  <2> SUFFICES ASSUME IInv PROVE ExchangesAreWhole
    OBVIOUS
  <2>1. ASSUME NEW s \in Streams
        PROVE  {m.kind : m \in {n \in messages : n.by = s}} \ {"summary"} =
                 IF s \in Committed THEN {"user", "assistant"} ELSE {}
    <3>1. s \notin Sends
      BY StreamAssumption
    <3> QED
      BY <3>1 DEF IInv, RowsOK
  <2>2. Streams \cap ({m.by : m \in messages} \cup usage \cup memory) \subseteq Committed
    BY StreamAssumption DEF IInv, RowsOK
  <2>3. \A s \in Committed : told[s] = {"done"}
    BY DEF IInv, ToldOK, Committed
  <2> QED
    BY <2>1, <2>2, <2>3 DEF ExchangesAreWhole
<1> QED
  BY <1>1, SpecIInv, PTL

(* A thread is never charged for more than its stored answers cost; while  *)
(* nothing overlaps the charge is exact and at most one answer starts      *)
(* below the warning threshold and ends above it.                          *)
THEOREM UsageIsChargedCorrect == Spec => []UsageIsCharged
<1>1. IInv => UsageIsCharged
  BY DEF IInv, Charged, Serial, Answers, UsageIsCharged, UsageNeverOvercounts,
         UsageExactWhenSerial
<1> QED
  BY <1>1, SpecIInv, PTL

(* The model always gets the latest messages; an older one it misses was   *)
(* recent, or not yet sent, when the summary it was given instead was      *)
(* made; and while nothing overlaps a summary is announced to the client   *)
(* exactly when one is made.                                               *)
THEOREM ContextIsExplainedCorrect == Spec => []ContextIsExplained
<1>1. HistInv => ContextIsExplained
  BY DEF HistInv, StreamHist, ContextIsExplained, RecentIsKept, LossNeedsOldSummary,
         AnnouncedWhenSerial, Recent, Explained, HeardRight
<1> QED
  BY <1>1, SpecHist, PTL

=============================================================================
