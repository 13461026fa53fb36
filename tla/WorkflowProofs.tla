--------------------------- MODULE WorkflowProofs ---------------------------
(***************************************************************************)
(* Theorems about Workflow, for every number of workers, users, steps and  *)
(* prompts and every bound on the faults: its types, its safety, and that  *)
(* every commit is a step of WorkflowContract or none.                     *)
(***************************************************************************)
EXTENDS WorkflowRefinement, TLAPS

-----------------------------------------------------------------------------
(***************************************************************************)
(* Types of the parts.                                                     *)
(***************************************************************************)
LEMMA StepsFacts == N \in Nat /\ 1 \in Steps /\ N \in Steps /\ Steps \subseteq Nat /\ Steps \subseteq 0..N
BY WorkflowAssumption DEF WorkflowAssumption, Steps

LEMMA ElementType == ASSUME NEW S, NEW q \in Seq(S), NEW i \in 1..Len(q) PROVE q[i] \in S
OBVIOUS

LEMMA SendType ==
  ASSUME queue \in [Steps -> Nat], NEW s \in Steps, Send(s)
  PROVE  queue' \in [Steps -> Nat]
BY DEF Send

LEMMA LostType ==
  ASSUME faults \in Faults, NEW s \in Steps
  PROVE  [faults EXCEPT !.torn = @ + 1, !.lost = @ \cup {s}] \in Faults
<1>1. faults = [aborts |-> faults.aborts, torn |-> faults.torn, timeouts |-> faults.timeouts, lost |-> faults.lost]
  BY DEF Faults
<1>2. faults.lost \in SUBSET Steps /\ faults.torn \in Nat /\ faults.aborts \in Nat /\ faults.timeouts \in Nat
  BY DEF Faults
<1>3. faults.lost \cup {s} \in SUBSET Steps /\ faults.torn + 1 \in Nat
  BY <1>2
<1> QED
  BY <1>1, <1>2, <1>3 DEF Faults

LEMMA CountsType ==
  ASSUME faults \in Faults
  PROVE  /\ [faults EXCEPT !.aborts = @ + 1] \in Faults
         /\ [faults EXCEPT !.timeouts = @ + 1] \in Faults
BY DEF Faults

LEMMA FaultsType ==
  ASSUME faults \in Faults,
         \/ faults' = [faults EXCEPT !.aborts = @ + 1]
         \/ \E s \in Steps : faults' = [faults EXCEPT !.torn = @ + 1, !.lost = @ \cup {s}]
         \/ faults' = [faults EXCEPT !.timeouts = @ + 1]
  PROVE  faults' \in Faults
BY LostType, CountsType

LEMMA IdleJobType == IdleJob \in Job /\ NewRow \in Row
BY StepsFacts DEF IdleJob, Job, Row, NewRow, NewExec, StepStatus, ExecStatus

LEMMA LoadedType == ASSUME steps \in [Steps -> StepRow], NEW s \in Steps PROVE Loaded(s) \in Row
BY DEF StepRow, Row, Loaded

LEMMA FailedType == ASSUME NEW j \in Job PROVE Failed(j) \in Job
<1>1. j.row.retries + 1 \in Nat /\ j.row \in Row
  BY DEF Job, Row
<1>2. [j.row EXCEPT !.retries = @ + 1] \in Row
  BY <1>1 DEF Row
<1>3. \A st \in {"failed", "pending"}, p \in {"failing", "retrying"} :
        [j EXCEPT !.row.retries = @ + 1, !.row.status = st, !.pc = p] \in Job
  BY <1>1, <1>2 DEF Job, Row, StepStatus
<1> QED
  BY <1>3 DEF Failed

LEMMA CompletedType ==
  ASSUME NEW j \in Job
  PROVE  /\ Completed(j) \in Job
         /\ [Completed(j) EXCEPT !.pc = "commit"] \in Job
         /\ [Completed(j) EXCEPT !.pc = "commit", !.exec.status = "complete"] \in Job
<1>1. j.msg \in 0..N
  BY StepsFacts DEF Job
<1>2. Completed(j) \in Job
  BY <1>1 DEF Completed, Job, Row, StepStatus
<1> HIDE DEF Completed
<1> QED
  BY <1>2 DEF Job, ExecStatus

LEMMA GivesBackType ==
  ASSUME queue \in [Steps -> Nat], job \in [Workers -> Job], NEW w \in Workers, GivesBack(w)
  PROVE  queue' \in [Steps -> Nat] /\ job' \in [Workers -> Job]
<1>1. job[w].msg \in Steps
  BY DEF Job
<1> QED
  BY <1>1, IdleJobType DEF GivesBack

-----------------------------------------------------------------------------
(***************************************************************************)
(* Types of the state.                                                     *)
(***************************************************************************)
LEMMA TypeInit == Init => TypeOK
<1> SUFFICES ASSUME Init PROVE TypeOK
  OBVIOUS
<1>1. steps \in [Steps -> StepRow]
  BY DEF Init, StepStatus, StepRow
<1>2. execution \in ExecRow
  BY StepsFacts DEF Init, ExecRow
<1>3. responder \in [Users -> Request] /\ \A u \in Users : responder[u].pc = "idle"
  BY DEF Init, Request
<1>4. faults \in Faults
  BY DEF Init, Faults
<1> QED
  BY <1>1, <1>2, <1>3, <1>4, IdleJobType DEF Init, TypeOK

LEMMA TypeStart == TypeOK /\ Start => TypeOK'
<1> SUFFICES ASSUME TypeOK, Start PROVE TypeOK'
  OBVIOUS
<1>1. CASE StartSend
  <2>1. queue' \in [Steps -> Nat]
    BY <1>1, StepsFacts, SendType DEF StartSend, TypeOK
  <2> QED
    BY <1>1, <2>1 DEF StartSend, TypeOK, dbVars
<1>2. CASE StartCommit
  <2>1. execution' \in ExecRow
    BY <1>2, StepsFacts DEF StartCommit, NewExec, ExecStatus, ExecRow
  <2> QED
    BY <1>2, <2>1 DEF StartCommit, TypeOK
<1>3. CASE StartAbort
  BY <1>3, FaultsType DEF StartAbort, TypeOK, dbVars
<1> QED
  BY <1>1, <1>2, <1>3 DEF Start

LEMMA RespondType ==
  ASSUME NEW u \in Users, TypeOK, responder[u].pc # "idle"
  PROVE  /\ responder[u].item \in 1..Len(interventions)
         /\ interventions[responder[u].item] \in Question
         /\ interventions[responder[u].item].step \in Steps
<1>1. responder[u].item \in 1..Len(interventions) /\ interventions \in Seq(Question)
  BY DEF TypeOK
<1>2. interventions[responder[u].item] \in Question
  BY <1>1, ElementType
<1> QED
  BY <1>1, <1>2 DEF Question

LEMMA TypeRespond == ASSUME NEW u \in Users PROVE TypeOK /\ Respond(u) => TypeOK'
<1> SUFFICES ASSUME TypeOK, Respond(u) PROVE TypeOK'
  OBVIOUS
<1>1. CASE \E i \in 1..Len(interventions) : RespondCheck(u, i)
  <2> PICK i \in 1..Len(interventions) : RespondCheck(u, i)
    BY <1>1
  <2>1. [pc |-> "checked", item |-> i] \in Request
    BY DEF Request, TypeOK
  <2> QED
    BY <2>1 DEF RespondCheck, TypeOK, dbVars
<1>2. CASE RespondSend(u)
  <2>1. queue' \in [Steps -> Nat]
    BY <1>2, RespondType, SendType DEF RespondSend, TypeOK
  <2>2. [responder[u] EXCEPT !.pc = "sent"] \in Request
    BY DEF TypeOK, Request
  <2>3. [responder[u] EXCEPT !.pc = "sent"].item = responder[u].item
    BY DEF TypeOK, Request
  <2>4. responder' = [responder EXCEPT ![u] = [responder[u] EXCEPT !.pc = "sent"]]
    BY <1>2 DEF RespondSend
  <2>5. responder[u].pc # "idle"
    BY <1>2 DEF RespondSend
  <2>6. responder' \in [Users -> Request]
    BY <2>2, <2>4 DEF TypeOK
  <2>7. \A v \in Users : responder'[v].pc # "idle" => responder'[v].item \in 1..Len(interventions)
    BY <2>3, <2>4, <2>5 DEF TypeOK
  <2> QED
    BY <1>2, <2>1, <2>6, <2>7 DEF RespondSend, TypeOK, dbVars
<1>3. [pc |-> "idle", item |-> 0] \in Request
  BY DEF Request
<1>4. CASE RespondCommit(u)
  <2> DEFINE i == responder[u].item
  <2>1. i \in 1..Len(interventions) /\ interventions[i] \in Question
    BY <1>4, RespondType DEF RespondCommit
  <2>2. [interventions[i] EXCEPT !.answered = TRUE] \in Question
    BY <2>1 DEF Question
  <2>3. interventions' = [interventions EXCEPT ![i] = [interventions[i] EXCEPT !.answered = TRUE]]
    BY <1>4 DEF RespondCommit
  <2>4. interventions \in Seq(Question)
    BY DEF TypeOK
  <2>5. interventions' \in Seq(Question) /\ Len(interventions') = Len(interventions)
    <3> HIDE DEF i
    <3> QED
      BY <2>1, <2>2, <2>3, <2>4
  <2>6. execution' \in ExecRow
    BY <1>4 DEF RespondCommit, TypeOK, ExecStatus, ExecRow
  <2> QED
    BY <1>3, <1>4, <2>5, <2>6 DEF RespondCommit, TypeOK
<1>5. CASE RespondAbort(u)
  BY <1>3, <1>5, FaultsType DEF RespondAbort, TypeOK, dbVars
<1> QED
  BY <1>1, <1>2, <1>4, <1>5 DEF Respond

-----------------------------------------------------------------------------
(***************************************************************************)
(* What the actions of a worker do to its job, and what they leave alone.  *)
(***************************************************************************)
LEMMA JobUpdate ==
  ASSUME NEW w \in Workers, job \in [Workers -> Job], NEW j \in Job, job' = [job EXCEPT ![w] = j]
  PROVE  job' \in [Workers -> Job]
OBVIOUS

LEMMA ReceiveType ==
  ASSUME TypeOK, NEW w \in Workers, NEW s \in Steps, Receive(w, s)
  PROVE  job' \in [Workers -> Job] /\ queue' \in [Steps -> Nat]
<1>1. queue' \in [Steps -> Nat]
  BY DEF Receive, TypeOK
<1>2. execution.index \in 0..N /\ 0 \in 0..N
  BY StepsFacts DEF TypeOK, ExecRow
<1>3. Loaded(s) \in Row /\ NewRow \in Row
  BY LoadedType, IdleJobType DEF TypeOK
<1>4. NewExec \in [status : ExecStatus, index : 0..N]
  BY <1>2 DEF NewExec, ExecStatus
<1>5. [status |-> "running", index |-> execution.index] \in [status : ExecStatus, index : 0..N]
  BY <1>2 DEF ExecStatus
<1>6. \A p \in {"ack", "loaded"}, b \in 0..N, r \in Row, e \in [status : ExecStatus, index : 0..N] :
        [IdleJob EXCEPT !.pc = p, !.msg = s, !.leased = TRUE, !.baseIndex = b,
                        !.base = r, !.row = r, !.exec = e] \in Job
  BY IdleJobType DEF Job
<1>7. \E j \in Job : job' = [job EXCEPT ![w] = j]
  <2>1. CASE Skips(s)
    BY <2>1, <1>2, <1>3, <1>4, <1>6 DEF Receive
  <2>2. CASE ~Skips(s)
    BY <2>2, <1>2, <1>3, <1>5, <1>6 DEF Receive
  <2> QED
    BY <2>1, <2>2
<1> QED
  BY <1>1, <1>7, JobUpdate DEF TypeOK

LEMMA BeginType ==
  ASSUME TypeOK, NEW w \in Workers, BeginAttempt(w)
  PROVE  job' \in [Workers -> Job]
<1> DEFINE j == job[w]
           p == IF PromptsLeft(j.msg, j.row.done) THEN "prompting" ELSE "finishing"
           k == [j EXCEPT !.pc = p, !.row.status = "running", !.row.linked = TRUE]
<1>1. j \in Job
  BY DEF TypeOK
<1>2. p \in {"prompting", "finishing"}
  OBVIOUS
<1>3. k \in Job
  <2> HIDE DEF j, p
  <2> QED
    BY <1>1, <1>2 DEF Job, Row, StepStatus
<1>4. job' = [job EXCEPT ![w] = k]
  BY DEF BeginAttempt
<1> HIDE DEF k
<1> QED
  BY <1>3, <1>4, JobUpdate DEF TypeOK

LEMMA ReplyType ==
  ASSUME TypeOK, NEW w \in Workers, NEW reply, Reply(w, reply)
  PROVE  job' \in [Workers -> Job]
<1> DEFINE j == job[w]
<1>1. j \in Job /\ j.row.done + 1 \in Nat /\ j.asked \in BOOLEAN /\ j.plain \in BOOLEAN
  BY DEF TypeOK, Job, Row
<1>2. \A a, b \in BOOLEAN, p \in {"pausing", "finishing", "prompting"}, d \in {j.row.done, j.row.done + 1} :
        [j EXCEPT !.asked = a, !.plain = b, !.pc = p, !.row.done = d] \in Job
  <2> HIDE DEF j
  <2> QED
    BY <1>1 DEF Job, Row
<1>3. \E k \in Job : job' = [job EXCEPT ![w] = k]
  BY <1>1, <1>2 DEF Reply
<1> QED
  BY <1>3, JobUpdate DEF TypeOK

LEMMA TypeWork == ASSUME NEW w \in Workers PROVE TypeOK /\ Work(w) => TypeOK'
<1> SUFFICES ASSUME TypeOK, Work(w) PROVE TypeOK'
  OBVIOUS
<1> DEFINE j == job[w]
<1>0. j \in Job /\ job \in [Workers -> Job]
  BY DEF TypeOK
<1>1. CASE \E s \in Steps : Receive(w, s)
  BY <1>1, ReceiveType DEF Receive, TypeOK, dbVars
<1>2. CASE BeginAttempt(w)
  BY <1>2, BeginType DEF BeginAttempt, TypeOK, dbVars
<1>3. CASE \E reply \in {"plain", "ask", "unsure"} : Reply(w, reply)
  <2> PICK reply \in {"plain", "ask", "unsure"} : Reply(w, reply)
    BY <1>3
  <2>1. job' \in [Workers -> Job]
    BY ReplyType
  <2>2. UNCHANGED <<dbVars, queue, starter, responder, faults>>
    BY DEF Reply
  <2> QED
    BY <2>1, <2>2 DEF TypeOK, dbVars
<1>4. CASE AttemptFails(w)
  BY <1>0, <1>4, FailedType, JobUpdate DEF AttemptFails, TypeOK, dbVars
<1>5. CASE GiveUp(w) \/ Pause(w)
  <2>1. \A st \in ExecStatus :
          [j EXCEPT !.pc = "commit", !.execLock = TRUE, !.exec.status = st] \in Job
    <3> HIDE DEF j
    <3> QED
      BY <1>0 DEF Job
  <2>2. \E st \in {"failed", "paused"} :
          job' = [job EXCEPT ![w] = [j EXCEPT !.pc = "commit", !.execLock = TRUE, !.exec.status = st]]
    <3>1. CASE GiveUp(w)
      BY <3>1 DEF GiveUp
    <3>2. CASE Pause(w)
      BY <3>2 DEF Pause
    <3> QED
      BY <1>5, <3>1, <3>2
  <2>3. job' \in [Workers -> Job]
    <3> HIDE DEF j
    <3> QED
      BY <1>0, <2>1, <2>2, JobUpdate DEF ExecStatus
  <2> QED
    BY <1>5, <2>3 DEF GiveUp, Pause, TypeOK, dbVars
<1>6. CASE Finish(w)
  <2>1. CASE \E t \in Steps : CompleteAndSend(w, t)
    <3> PICK t \in Steps : CompleteAndSend(w, t)
      BY <2>1
    <3>1. queue' \in [Steps -> Nat]
      BY SendType DEF CompleteAndSend, TypeOK
    <3>2. job' \in [Workers -> Job]
      BY <1>0, CompletedType, JobUpdate DEF CompleteAndSend
    <3> QED
      BY <3>1, <3>2 DEF CompleteAndSend, TypeOK, dbVars
  <2>2. CASE CompleteSendFails(w)
    <3>1. Failed(Completed(j)) \in Job
      BY <1>0, CompletedType, FailedType
    <3> QED
      BY <1>0, <2>2, <3>1, JobUpdate, FaultsType DEF CompleteSendFails, TypeOK, dbVars
  <2>3. CASE CompleteLast(w)
    BY <1>0, <2>3, CompletedType, JobUpdate DEF CompleteLast, TypeOK, dbVars
  <2> QED
    BY <1>6, <2>1, <2>2, <2>3 DEF Finish
<1>7. CASE Commit(w)
  <2>1. job' \in [Workers -> Job]
    <3>1. [IdleJob EXCEPT !.pc = "ack", !.msg = j.msg, !.leased = j.leased] \in Job
      BY <1>0, IdleJobType DEF Job
    <3> QED
      BY <1>0, <1>7, <3>1, JobUpdate DEF Commit
  <2>2. j.msg \in Steps /\ j.row \in Row /\ j.exec \in [status : ExecStatus, index : 0..N]
    BY <1>0 DEF Job
  <2>3. steps' \in [Steps -> StepRow]
    <3> DEFINE old == steps[j.msg]
    <3>1. old \in StepRow /\ steps \in [Steps -> StepRow]
      BY <2>2 DEF TypeOK
    <3>2. old.threads + 1 \in Nat
      BY <3>1 DEF StepRow
    <3>3. [status  |-> IF StatusWritten(j) THEN j.row.status ELSE old.status,
           retries |-> Flushed(j.base.retries, j.row.retries, old.retries),
           done    |-> Flushed(j.base.done, j.row.done, old.done),
           linked  |-> old.linked \/ j.row.linked,
           threads |-> IF j.base.linked THEN old.threads ELSE old.threads + 1] \in StepRow
      <4> HIDE DEF j, old
      <4> QED
        BY <2>2, <3>1, <3>2 DEF StepRow, Row, Flushed
    <3> QED
      BY <1>7, <2>2, <3>1, <3>3 DEF Commit
  <2>4. execution' \in ExecRow
    BY <1>7, <2>2 DEF Commit, TypeOK, Flushed, ExecRow
  <2>5. interventions' \in Seq(Question) /\ Len(interventions') >= Len(interventions)
    <3> DEFINE q == [step |-> j.msg, answered |-> FALSE]
    <3>1. q \in Question /\ interventions \in Seq(Question)
      BY <2>2 DEF Question, TypeOK
    <3>2. interventions' \in {interventions, Append(interventions, q)}
      BY <1>7 DEF Commit
    <3> HIDE DEF q
    <3> QED
      BY <3>1, <3>2
  <2> QED
    BY <1>7, <2>1, <2>3, <2>4, <2>5 DEF Commit, TypeOK
<1>8. CASE Ack(w)
  BY <1>0, <1>8, IdleJobType, JobUpdate DEF Ack, TypeOK, dbVars
<1> QED
  BY <1>1, <1>2, <1>3, <1>4, <1>5, <1>6, <1>7, <1>8 DEF Work

LEMMA TypeDisturb == ASSUME NEW w \in Workers PROVE TypeOK /\ Disturb(w) => TypeOK'
<1> SUFFICES ASSUME TypeOK, Disturb(w) PROVE TypeOK'
  OBVIOUS
<1>1. CASE Abort(w) \/ TornCommit(w) \/ AckLost(w)
  <2>1. GivesBack(w) /\ UNCHANGED <<dbVars, starter, responder>>
    BY <1>1 DEF Abort, TornCommit, AckLost
  <2>2. job[w].msg \in Steps
    BY DEF TypeOK, Job
  <2>3. faults' \in Faults
    BY <1>1, <2>2, FaultsType DEF Abort, TornCommit, AckLost, TypeOK
  <2> QED
    BY <2>1, <2>3, GivesBackType DEF TypeOK, dbVars
<1>2. CASE VisibilityTimeout(w)
  <2>1. job[w] \in Job /\ job[w].msg \in Steps
    BY DEF TypeOK, Job
  <2>2. [job[w] EXCEPT !.leased = FALSE] \in Job
    BY <2>1 DEF Job
  <2> QED
    BY <1>2, <2>1, <2>2, SendType, FaultsType DEF VisibilityTimeout, TypeOK, dbVars
<1> QED
  BY <1>1, <1>2 DEF Disturb

LEMMA TypeStep == TypeOK /\ [Next]_vars => TypeOK'
<1> SUFFICES ASSUME TypeOK, [Next]_vars PROVE TypeOK'
  OBVIOUS
<1>1. CASE UNCHANGED vars
  BY <1>1 DEF TypeOK, vars
<1>2. ASSUME NEW w \in Workers, PollEmpty(w) PROVE TypeOK'
  BY <1>2 DEF TypeOK, PollEmpty, vars
<1> QED
  BY <1>1, <1>2, TypeStart, TypeRespond, TypeWork, TypeDisturb DEF Next

\* Every reachable state is well typed; in particular a request that is being
\* handled always names an intervention that exists, and current_thread_index
\* never leaves the range of the template.
THEOREM TypeCorrect == Spec => []TypeOK
BY TypeInit, TypeStep, PTL DEF Spec

-----------------------------------------------------------------------------

(***************************************************************************)
(* Phase ties the place a worker has reached in execute_thread to the      *)
(* statuses its transaction has written so far.                            *)
(***************************************************************************)
Phase(j) ==
  /\ j.pc \in {"prompting", "pausing", "finishing"} => j.row.status = "running"
  /\ j.pc = "failing" => j.row.status = "failed"
  /\ j.pc # "commit" => j.exec.status = "running"
  /\ j.pc = "commit" =>
       \/ j.exec.status \in {"running", "complete"} /\ j.row.status = "complete"
       \/ j.exec.status = "paused" /\ j.row.status = "running"
       \/ j.exec.status = "failed" /\ j.row.status = "failed"

PhaseOK == \A w \in Workers : Phase(job[w])

-----------------------------------------------------------------------------
(***************************************************************************)
(* What each kind of step does to the jobs.  Attempt covers the steps      *)
(* inside a transaction, between the receipt of a message and its end.     *)
(***************************************************************************)
Attempt(w) ==
  \/ BeginAttempt(w)
  \/ \E reply \in {"plain", "ask", "unsure"} : Reply(w, reply)
  \/ AttemptFails(w)
  \/ GiveUp(w)
  \/ Pause(w)
  \/ Finish(w)

Leave(w) == Commit(w) \/ Ack(w) \/ Abort(w) \/ TornCommit(w) \/ AckLost(w)

LEMMA StepCases ==
  ASSUME [Next]_vars
  PROVE  \/ UNCHANGED vars
         \/ Start
         \/ \E u \in Users : Respond(u)
         \/ \E w \in Workers, s \in Steps : Receive(w, s)
         \/ \E w \in Workers : Attempt(w) \/ Leave(w) \/ VisibilityTimeout(w)
BY Zenon DEF Next, Work, Disturb, Attempt, Leave, PollEmpty

LEMMA JobKept ==
  ASSUME UNCHANGED vars \/ Start \/ \E u \in Users : Respond(u)
  PROVE  UNCHANGED job
BY DEF vars, Start, StartSend, StartCommit, StartAbort, Respond, RespondCheck, RespondSend,
       RespondCommit, RespondAbort

LEMMA ReceiveEffect ==
  ASSUME TypeOK, NEW w \in Workers, NEW s \in Steps, Receive(w, s)
  PROVE  /\ \A v \in Workers \ {w} : job'[v] = job[v]
         /\ job'[w].pc = IF Skips(s) THEN "ack" ELSE "loaded"
         /\ job'[w].msg = s
         /\ job'[w].exec.status = "running"
BY DEF Receive, TypeOK, IdleJob, NewExec, Job

LEMMA FailedEffect ==
  ASSUME NEW j \in Job
  PROVE  /\ Failed(j).pc \in {"failing", "retrying"}
         /\ Failed(j).pc = "failing" => Failed(j).row.status = "failed"
         /\ Failed(j).msg = j.msg
         /\ Failed(j).exec = j.exec
BY DEF Failed, Job, Row

LEMMA CompletedEffect ==
  ASSUME NEW j \in Job
  PROVE  /\ Completed(j).row.status = "complete"
         /\ Completed(j).msg = j.msg
         /\ Completed(j).exec.status = j.exec.status
         /\ Completed(j).pc = j.pc
BY DEF Completed, Job, Row

\* An attempt stays with its message, keeps the phases, and takes the step's row
\* only in BeginAttempt.
LEMMA AttemptEffect ==
  ASSUME TypeOK, NEW w \in Workers, Phase(job[w]), Attempt(w)
  PROVE  /\ \A v \in Workers \ {w} : job'[v] = job[v]
         /\ job'[w].msg = job[w].msg
         /\ job[w].pc \notin {"idle", "ack", "commit"}
         /\ job'[w].pc \notin {"idle", "ack", "loaded"}
         /\ Phase(job'[w])
         /\ HoldsStep(w) \/ StepFree(w)
<1> DEFINE j == job[w]
<1>0. j \in Job /\ job \in [Workers -> Job]
  BY DEF TypeOK
<1>1. CASE BeginAttempt(w)
  BY <1>0, <1>1 DEF BeginAttempt, Phase, Job, Row
<1>2. CASE \E reply \in {"plain", "ask", "unsure"} : Reply(w, reply)
  BY <1>0, <1>2 DEF Reply, Phase, Job, Row, HoldsStep
<1>3. CASE AttemptFails(w)
  <2>1. job' = [job EXCEPT ![w] = Failed(j)] /\ j.pc = "prompting"
    BY <1>3 DEF AttemptFails
  <2> QED
    BY <1>0, <2>1, FailedEffect DEF Phase, HoldsStep
<1>4. CASE GiveUp(w)
  BY <1>0, <1>4 DEF GiveUp, Phase, Job, Row, HoldsStep
<1>5. CASE Pause(w)
  BY <1>0, <1>5 DEF Pause, Phase, Job, Row, HoldsStep
<1>6. CASE Finish(w)
  <2> DEFINE c == Completed(j)
  <2>1. c \in Job /\ c.row.status = "complete" /\ c.msg = j.msg /\ c.exec.status = j.exec.status
    BY <1>0, CompletedType, CompletedEffect
  <2>2. j.pc = "finishing" /\ j.exec.status = "running"
    BY <1>6 DEF Finish, CompleteAndSend, CompleteSendFails, CompleteLast, Phase
  <2>3. job' = [job EXCEPT ![w] = job'[w]]
        /\ \/ job'[w] = [c EXCEPT !.pc = "commit"]
           \/ job'[w] = Failed(c)
           \/ job'[w] = [c EXCEPT !.pc = "commit", !.exec.status = "complete"]
    BY <1>0, <1>6 DEF Finish, CompleteAndSend, CompleteSendFails, CompleteLast
  <2> HIDE DEF c
  <2>4. /\ job'[w].msg = j.msg
        /\ job'[w].pc \in {"failing", "retrying", "commit"}
        /\ Phase(job'[w])
    <3>1. CASE job'[w] = [c EXCEPT !.pc = "commit"]
      BY <2>1, <2>2, <3>1 DEF Phase, Job
    <3>2. CASE job'[w] = Failed(c)
      BY <2>1, <2>2, <3>2, FailedEffect DEF Phase
    <3>3. CASE job'[w] = [c EXCEPT !.pc = "commit", !.exec.status = "complete"]
      BY <2>1, <2>2, <3>3 DEF Phase, Job
    <3> QED
      BY <2>3, <3>1, <3>2, <3>3
  <2> QED
    BY <1>0, <2>2, <2>3, <2>4 DEF HoldsStep
<1> QED
  BY <1>1, <1>2, <1>3, <1>4, <1>5, <1>6 DEF Attempt

LEMMA LeaveEffect ==
  ASSUME TypeOK, NEW w \in Workers, Leave(w)
  PROVE  /\ \A v \in Workers \ {w} : job'[v] = job[v]
         /\ job[w].pc # "idle"
         /\ job'[w].pc \in {"idle", "ack"}
         /\ job'[w].pc = "ack" => job'[w].msg = job[w].msg
         /\ job'[w].exec.status = "running"
         /\ ~Commit(w) => UNCHANGED dbVars
<1>0. job \in [Workers -> Job]
  BY DEF TypeOK
<1>1. CASE Commit(w)
  BY <1>0, <1>1 DEF Commit, IdleJob, NewExec
<1>2. CASE Ack(w)
  BY <1>0, <1>2 DEF Ack, IdleJob, NewExec
<1>3. CASE Abort(w) \/ TornCommit(w) \/ AckLost(w)
  <2>1. job' = [job EXCEPT ![w] = IdleJob] /\ job[w].pc # "idle" /\ UNCHANGED dbVars
    BY <1>3 DEF Abort, TornCommit, AckLost, GivesBack, SentUncommitted
  <2> QED
    BY <1>0, <2>1 DEF IdleJob, NewExec
<1> QED
  BY <1>1, <1>2, <1>3 DEF Leave, Ack

LEMMA TimeoutEffect ==
  ASSUME TypeOK, NEW w \in Workers, VisibilityTimeout(w)
  PROVE  /\ \A v \in Workers \ {w} : job'[v] = job[v]
         /\ job[w].pc # "idle"
         /\ job'[w].pc = job[w].pc
         /\ job'[w].msg = job[w].msg
         /\ job'[w].row = job[w].row
         /\ job'[w].exec = job[w].exec
BY DEF VisibilityTimeout, TypeOK, Job

-----------------------------------------------------------------------------
(***************************************************************************)
(* Phases, and one worker per step.                                        *)
(***************************************************************************)
LEMMA PhaseInit == Init => PhaseOK
BY DEF Init, IdleJob, NewExec, PhaseOK, Phase

LEMMA PhaseStep == TypeOK /\ PhaseOK /\ [Next]_vars => PhaseOK'
<1> SUFFICES ASSUME TypeOK, PhaseOK, [Next]_vars PROVE PhaseOK'
  OBVIOUS
<1>1. CASE UNCHANGED vars \/ Start \/ \E u \in Users : Respond(u)
  BY <1>1, JobKept DEF PhaseOK
<1>2. CASE \E w \in Workers, s \in Steps : Receive(w, s)
  BY <1>2, ReceiveEffect DEF PhaseOK, Phase
<1>3. CASE \E w \in Workers : Attempt(w)
  BY <1>3, AttemptEffect DEF PhaseOK
<1>4. CASE \E w \in Workers : Leave(w)
  BY <1>4, LeaveEffect DEF PhaseOK, Phase
<1>5. CASE \E w \in Workers : VisibilityTimeout(w)
  BY <1>5, TimeoutEffect DEF PhaseOK, Phase
<1> QED
  BY <1>1, <1>2, <1>3, <1>4, <1>5, StepCases

-----------------------------------------------------------------------------
(***************************************************************************)
(* A paused execution can be answered.                                     *)
(***************************************************************************)
LEMMA OnlyCommitsWrite ==
  ASSUME [Next]_vars
  PROVE  \/ UNCHANGED dbVars
         \/ StartCommit
         \/ \E u \in Users : RespondCommit(u)
         \/ \E w \in Workers : Commit(w)
BY ZenonT(60) DEF vars, dbVars, Next, Start, Respond, Work, Finish, Disturb, StartSend, StartAbort, RespondCheck,
   RespondSend, RespondAbort, Receive, BeginAttempt, Reply, AttemptFails, GiveUp, Pause,
   CompleteAndSend, CompleteSendFails, CompleteLast, Ack, Abort, TornCommit, AckLost,
   VisibilityTimeout, PollEmpty

LEMMA AnswerableStep == TypeOK /\ PausedIsAnswerable /\ [Next]_vars => PausedIsAnswerable'
<1> SUFFICES ASSUME TypeOK, PausedIsAnswerable, [Next]_vars, execution'.status = "paused"
             PROVE  Open' # {}
  BY DEF PausedIsAnswerable
<1>0. execution \in ExecRow /\ interventions \in Seq(Question)
  BY DEF TypeOK
<1>1. CASE UNCHANGED dbVars
  BY <1>1 DEF PausedIsAnswerable, Open, dbVars
<1>2. CASE StartCommit
  BY <1>2 DEF StartCommit, NewExec
<1>3. CASE \E u \in Users : RespondCommit(u)
  BY <1>0, <1>3 DEF RespondCommit, ExecRow
<1>4. CASE \E w \in Workers : Commit(w)
  <2> PICK w \in Workers : Commit(w)
    BY <1>4
  <2>1. CASE job[w].exec.status = "paused"
    <3> DEFINE q == [step |-> job[w].msg, answered |-> FALSE]
    <3>1. interventions' = Append(interventions, q) /\ job[w].msg \in Steps
      BY <2>1 DEF Commit, TypeOK, Job
    <3>2. q \in Question
      BY <3>1 DEF Question
    <3>3. Len(interventions') = Len(interventions) + 1 /\ interventions'[Len(interventions) + 1] = q
      <4> HIDE DEF q
      <4> QED
        BY <1>0, <3>1, <3>2
    <3>4. Len(interventions) + 1 \in Open'
      BY <1>0, <3>3 DEF Open
    <3> QED
      BY <3>4
  <2>2. CASE job[w].exec.status # "paused"
    <3>1. interventions' = interventions
      BY <2>2 DEF Commit
    <3>2. execution.status = "paused"
      BY <2>2 DEF Commit, Flushed
    <3> QED
      BY <3>1, <3>2 DEF PausedIsAnswerable, Open
  <2> QED
    BY <2>1, <2>2
<1> QED
  BY <1>1, <1>2, <1>3, <1>4, OnlyCommitsWrite

\* A paused execution always has an intervention left that resume accepts,
\* whatever workers overlap and whatever requests are answered at once: pausing
\* and answering are each one transaction over both rows.
THEOREM PausedIsAnswerableCorrect == Spec => []PausedIsAnswerable
<1>1. Init => PausedIsAnswerable
  BY DEF Init, PausedIsAnswerable
<1> QED
  BY <1>1, TypeInit, TypeStep, AnswerableStep, PTL DEF Spec

-----------------------------------------------------------------------------
(***************************************************************************)
(* Completion.  A committed step status never returns to pending, so the   *)
(* pending steps a worker does not find when it completes the execution    *)
(* cannot reappear before it commits.                                      *)
(***************************************************************************)
NonePendingBut(s) == \A t \in Steps \ {s} : steps[t].status # "pending"

CompletionInv ==
  /\ CompleteLeavesNonePending
  /\ \A w \in Workers :
       job[w].pc = "commit" /\ job[w].exec.status = "complete" => NonePendingBut(job[w].msg)

LEMMA CommitStatus ==
  ASSUME TypeOK, PhaseOK, NEW w \in Workers, Commit(w)
  PROVE  /\ job[w].msg \in Steps
         /\ \A t \in Steps \ {job[w].msg} : steps'[t] = steps[t]
         /\ job[w].row.status = "complete" => steps'[job[w].msg].status = "complete"
         /\ steps'[job[w].msg].status \in {steps[job[w].msg].status, job[w].row.status}
         /\ job[w].row.status # "pending"
<1>1. job[w].msg \in Steps /\ job[w].row.status # "pending" /\ steps \in [Steps -> StepRow]
  BY DEF TypeOK, Job, PhaseOK, Phase, Commit
<1>2. /\ \A t \in Steps \ {job[w].msg} : steps'[t] = steps[t]
      /\ steps'[job[w].msg].status =
           IF StatusWritten(job[w]) THEN job[w].row.status ELSE steps[job[w].msg].status
  BY <1>1 DEF Commit
<1>3. job[w].row.status = "complete" => StatusWritten(job[w])
  BY DEF StatusWritten
<1> QED
  BY <1>1, <1>2, <1>3

LEMMA StepsKept ==
  ASSUME TypeOK, PhaseOK, [Next]_vars, NEW t \in Steps, steps[t].status # "pending"
  PROVE  steps'[t].status # "pending"
<1>1. CASE UNCHANGED steps
  BY <1>1
<1>2. CASE \E w \in Workers : Commit(w)
  BY <1>2, CommitStatus
<1> QED
  BY <1>1, <1>2, OnlyCommitsWrite DEF dbVars, StartCommit, RespondCommit

LEMMA CompletionStep == TypeOK /\ PhaseOK /\ CompletionInv /\ [Next]_vars => CompletionInv'
<1> SUFFICES ASSUME TypeOK, PhaseOK, CompletionInv, [Next]_vars PROVE CompletionInv'
  OBVIOUS
<1>1. CompleteLeavesNonePending'
  <2> SUFFICES ASSUME execution'.status = "complete", NEW s \in Steps PROVE steps'[s].status # "pending"
    BY DEF CompleteLeavesNonePending
  <2>1. CASE execution.status = "complete"
    BY <2>1, StepsKept DEF CompletionInv, CompleteLeavesNonePending
  <2>2. CASE execution.status # "complete"
    <3>1. PICK w \in Workers : Commit(w)
      <4>1. CASE UNCHANGED dbVars
        BY <2>2, <4>1 DEF dbVars
      <4>2. CASE StartCommit
        BY <4>2 DEF StartCommit, NewExec
      <4>3. CASE \E u \in Users : RespondCommit(u)
        BY <4>3 DEF RespondCommit, TypeOK, ExecRow
      <4> QED
        BY <4>1, <4>2, <4>3, OnlyCommitsWrite
    <3>2. job[w].pc = "commit" /\ job[w].exec.status = "complete"
      BY <2>2, <3>1 DEF Commit, Flushed
    <3>3. job[w].row.status = "complete"
      BY <3>2 DEF PhaseOK, Phase
    <3>4. CASE s = job[w].msg
      BY <3>1, <3>3, <3>4, CommitStatus
    <3>5. CASE s # job[w].msg
      BY <3>2, <3>5, StepsKept DEF CompletionInv, NonePendingBut
    <3> QED
      BY <3>4, <3>5
  <2> QED
    BY <2>1, <2>2
<1>2. ASSUME NEW w \in Workers, job'[w].pc = "commit", job'[w].exec.status = "complete"
      PROVE  \A t \in Steps \ {job'[w].msg} : steps'[t].status # "pending"
  <2>1. CASE job[w].pc = "commit" /\ job[w].exec.status = "complete" /\ job'[w].msg = job[w].msg
    BY <1>2, <2>1, StepsKept DEF CompletionInv, NonePendingBut
  <2>2. CASE CompleteLast(w)
    <3>1. job'[w].msg = job[w].msg
      <4>1. job[w] \in Job /\ job \in [Workers -> Job]
        BY DEF TypeOK
      <4>2. Attempt(w) /\ Phase(job[w])
        BY <2>2 DEF Attempt, Finish, PhaseOK
      <4> QED
        BY <4>2, AttemptEffect
    <3>2. NonePendingBut(job[w].msg)
      BY <2>2 DEF CompleteLast, PendingAfter, NonePendingBut
    <3> QED
      BY <3>1, <3>2, StepsKept DEF NonePendingBut
  <2>3. \/ job[w].pc = "commit" /\ job[w].exec.status = "complete" /\ job'[w].msg = job[w].msg
        \/ CompleteLast(w)
    <3>1. CASE UNCHANGED vars \/ Start \/ \E u \in Users : Respond(u)
      BY <1>2, <3>1, JobKept
    <3>2. CASE \E v \in Workers, s \in Steps : Receive(v, s)
      BY <1>2, <3>2, ReceiveEffect
    <3>3. CASE \E v \in Workers : Leave(v)
      BY <1>2, <3>3, LeaveEffect
    <3>4. CASE \E v \in Workers : VisibilityTimeout(v)
      BY <1>2, <3>4, TimeoutEffect
    <3>5. CASE \E v \in Workers : Attempt(v)
      <4> PICK v \in Workers : Attempt(v)
        BY <3>5
      <4>1. CASE v # w
        BY <1>2, <4>1, AttemptEffect DEF PhaseOK
      <4>2. CASE v = w
        <5>1. job[w] \in Job /\ job \in [Workers -> Job] /\ job[w].pc # "commit" /\ job[w].exec.status = "running"
          BY <4>2, AttemptEffect DEF TypeOK, PhaseOK, Phase
        <5>2. CASE \/ BeginAttempt(w) \/ AttemptFails(w) \/ GiveUp(w) \/ Pause(w)
                   \/ \E reply \in {"plain", "ask", "unsure"} : Reply(w, reply)
          <6>1. job'[w].exec.status # "complete"
            <7>1. CASE AttemptFails(w)
              BY <5>1, <7>1, FailedEffect DEF AttemptFails
            <7>2. CASE \E reply \in {"plain", "ask", "unsure"} : Reply(w, reply)
              BY <5>1, <7>2 DEF Reply, Job
            <7>3. CASE BeginAttempt(w)
              BY <5>1, <7>3 DEF BeginAttempt, Job
            <7>4. CASE GiveUp(w) \/ Pause(w)
              BY <5>1, <7>4 DEF GiveUp, Pause, Job
            <7> QED
              BY <5>2, <7>1, <7>2, <7>3, <7>4
          <6> QED
            BY <1>2, <6>1
        <5>3. CASE \E t \in Steps : CompleteAndSend(w, t)
          <6> DEFINE c == Completed(job[w])
          <6>0. c \in Job /\ job'[w] = [c EXCEPT !.pc = "commit"]
            BY <5>1, <5>3, CompletedType DEF CompleteAndSend
          <6>1. job'[w].exec.status = c.exec.status
            <7> HIDE DEF c
            <7> QED
              BY <6>0 DEF Job
          <6> QED
            BY <1>2, <5>1, <6>1, CompletedEffect
        <5>4. CASE CompleteSendFails(w)
          <6>1. job'[w] = Failed(Completed(job[w]))
            BY <5>1, <5>4 DEF CompleteSendFails
          <6> QED
            BY <1>2, <5>1, <6>1, CompletedType, FailedEffect
        <5> QED
          BY <4>2, <5>2, <5>3, <5>4 DEF Attempt, Finish
      <4> QED
        BY <4>1, <4>2
    <3> QED
      BY <3>1, <3>2, <3>3, <3>4, <3>5, StepCases
  <2> QED
    BY <2>1, <2>2, <2>3
<1> QED
  BY <1>1, <1>2 DEF CompletionInv, NonePendingBut

\* An execution that says it is complete has no step left to run, even when
\* workers overlap and transactions are lost in between.
THEOREM CompletionCorrect == Spec => []CompleteLeavesNonePending
<1>1. Init => CompletionInv
  BY DEF Init, IdleJob, CompletionInv, CompleteLeavesNonePending
<1>2. CompletionInv => CompleteLeavesNonePending
  BY DEF CompletionInv
<1> QED
  BY <1>1, <1>2, TypeInit, TypeStep, PhaseInit, PhaseStep, CompletionStep, PTL DEF Spec

-----------------------------------------------------------------------------
(***************************************************************************)
(* Steps run in the order of the template, up to the first completion that *)
(* was lost after the next step was sent.  The theorems need what the      *)
(* deployment gives and the code does not: one worker (infra/workers.ts).  *)
(* Nothing is assumed of the requests, retries, redeliveries and lost      *)
(* transactions.                                                           *)
(***************************************************************************)
OneWorker == \A v, w \in Workers : v = w

\* Step t is complete, or nothing is claimed of it.
Settled(t) == steps[t].status = "complete" \/ Excused(t)

\* Every step before s is complete, as far as anything is claimed.
Reached(s) == \A t \in Steps : t < s => Settled(t)

StartedInOrder == \A s \in Steps : steps[s].status # "pending" => Reached(s)

HeldInOrder == \A w \in Workers : job[w].pc # "idle" => Reached(job[w].msg)

AskedInOrder == \A i \in 1..Len(interventions) : Reached(interventions[i].step)

\* The step a worker runs is not complete, so nothing complete is written over.
WorkIsLeft == \A w \in Workers : Working(w) => steps[job[w].msg].status # "complete"

OrderInv ==
  /\ StartedInOrder
  /\ HeldInOrder
  /\ AskedInOrder
  /\ WorkIsLeft
  /\ MessagesInOrder

LEMMA OrderGivesStepsInOrder == OrderInv => StepsInOrder
BY DEF OrderInv, StartedInOrder, HeldInOrder, Reached, Settled, StepsInOrder, Working

-----------------------------------------------------------------------------
(***************************************************************************)
(* Steps that leave the rows alone: enough is said of the queue and of the *)
(* jobs to carry the invariant over.                                       *)
(***************************************************************************)
LEMMA LostGrows == ASSUME TypeOK, [Next]_vars PROVE faults.lost \subseteq faults'.lost
<1>1. CASE UNCHANGED faults
  BY <1>1
<1>2. CASE \E w \in Workers : TornCommit(w)
  BY <1>2 DEF TornCommit, TypeOK, Faults
<1>3. CASE \/ faults' = [faults EXCEPT !.aborts = @ + 1]
           \/ faults' = [faults EXCEPT !.timeouts = @ + 1]
  BY <1>3 DEF TypeOK, Faults
<1> QED
  BY <1>1, <1>2, <1>3
  DEF vars, Next, Start, Respond, Work, Finish, Disturb, StartSend, StartCommit, StartAbort, RespondCheck,
      RespondSend, RespondCommit, RespondAbort, Receive, BeginAttempt, Reply, AttemptFails, GiveUp, Pause,
      CompleteAndSend, CompleteSendFails, CompleteLast, Commit, Ack, Abort, AckLost, VisibilityTimeout,
      PollEmpty

LEMMA SettledStays ==
  ASSUME TypeOK, [Next]_vars, NEW t \in Steps, Settled(t), steps[t].status = "complete" => steps'[t].status = "complete"
  PROVE  Settled(t)'
BY LostGrows DEF Settled, Excused

LEMMA AskedStep == ASSUME TypeOK, NEW i \in 1..Len(interventions) PROVE interventions[i].step \in Steps
<1>1. interventions[i] \in Question
  BY ElementType DEF TypeOK
<1> QED
  BY <1>1 DEF Question

LEMMA CarryOver ==
  ASSUME TypeOK, [Next]_vars, OrderInv, UNCHANGED <<steps, interventions>>,
         \A s \in Steps : queue'[s] > 0 => queue[s] > 0 \/ Reached(s),
         \A w \in Workers : job'[w].pc # "idle" => Reached(job'[w].msg),
         \A w \in Workers : Working(w)' => steps[job'[w].msg].status # "complete",
         \A w \in Workers : SentUncommitted(w) => SentUncommitted(w)' /\ job'[w].msg = job[w].msg
  PROVE  OrderInv'
<1>0. /\ \A t \in Steps : Settled(t) => Settled(t)'
      /\ \A s \in Steps : Reached(s) => Reached(s)'
  BY SettledStays DEF Reached
<1>a. \A i \in 1..Len(interventions) : interventions[i].step \in Steps
  BY AskedStep
<1>b. \A w \in Workers : job[w].msg \in Steps /\ job'[w].msg \in Steps
  BY TypeStep DEF TypeOK, Job
<1>1. StartedInOrder' /\ AskedInOrder'
  BY <1>0, <1>a DEF OrderInv, StartedInOrder, AskedInOrder
<1>2. HeldInOrder'
  BY <1>0, <1>b DEF HeldInOrder
<1>3. WorkIsLeft'
  BY DEF WorkIsLeft
<1>4. MessagesInOrder'
  <2> SUFFICES ASSUME NEW s \in Steps, NEW t \in Steps, queue'[s] > 0, t < s
               PROVE  \/ Settled(t)'
                      \/ \E w \in Workers : SentUncommitted(w)' /\ job'[w].msg = t
    BY DEF MessagesInOrder, Settled
  <2>1. CASE Reached(s)
    BY <1>0, <2>1 DEF Reached
  <2>2. CASE queue[s] > 0
    BY <1>0, <2>2 DEF OrderInv, MessagesInOrder, Settled
  <2> QED
    BY <2>1, <2>2
<1> QED
  BY <1>1, <1>2, <1>3, <1>4 DEF OrderInv

\* A request sends the first step, or a step that has asked.
LEMMA OrderRequest ==
  ASSUME TypeOK, [Next]_vars, OrderInv, Start \/ \E u \in Users : Respond(u)
  PROVE  OrderInv'
<1>1. UNCHANGED job
  BY JobKept
<1>2. queue \in [Steps -> Nat] /\ Reached(1)
  BY DEF TypeOK, Reached, Steps
<1>3. CASE StartSend
  <2>1. \A s \in Steps : queue'[s] > 0 => queue[s] > 0 \/ s = 1
    BY <1>2, <1>3, StepsFacts DEF StartSend, Send
  <2> QED
    BY <1>1, <1>2, <1>3, <2>1, CarryOver
    DEF StartSend, dbVars, OrderInv, HeldInOrder, WorkIsLeft, Working, SentUncommitted
<1>4. CASE \E u \in Users : RespondSend(u)
  <2> PICK u \in Users : RespondSend(u)
    BY <1>4
  <2> DEFINE a == interventions[responder[u].item].step
  <2>1. a \in Steps /\ Reached(a)
    BY RespondType DEF RespondSend, OrderInv, AskedInOrder
  <2>2. \A s \in Steps : queue'[s] > 0 => queue[s] > 0 \/ s = a
    <3>1. queue' = [queue EXCEPT ![a] = @ + 1]
      BY DEF RespondSend, Send
    <3> HIDE DEF a
    <3> QED
      BY <1>2, <2>1, <3>1
  <2>3. UNCHANGED <<steps, interventions>>
    BY DEF RespondSend, dbVars
  <2> QED
    BY <1>1, <2>1, <2>2, <2>3, CarryOver DEF OrderInv, HeldInOrder, WorkIsLeft, Working, SentUncommitted
<1>5. CASE \E u \in Users : RespondCommit(u)
  <2> PICK u \in Users : RespondCommit(u)
    BY <1>5
  <2> DEFINE i == responder[u].item
  <2>1. i \in 1..Len(interventions) /\ interventions \in Seq(Question)
    BY RespondType DEF RespondCommit, TypeOK
  <2>2. /\ interventions' = [interventions EXCEPT ![i] = [interventions[i] EXCEPT !.answered = TRUE]]
        /\ UNCHANGED <<steps, queue>>
    BY DEF RespondCommit
  <2>3. /\ Len(interventions') = Len(interventions)
        /\ \A k \in 1..Len(interventions) : interventions'[k].step = interventions[k].step
    <3>1. interventions[i] \in Question
      BY <2>1, ElementType
    <3> HIDE DEF i
    <3>2. \A k \in 1..Len(interventions) : k # i => interventions'[k] = interventions[k]
      BY <2>1, <2>2
    <3>3. interventions'[i] = [interventions[i] EXCEPT !.answered = TRUE]
      <4> DEFINE e == [interventions[i] EXCEPT !.answered = TRUE]
      <4>1. interventions' = [interventions EXCEPT ![i] = e]
        BY <2>2
      <4> HIDE DEF e
      <4>2. interventions'[i] = e
        BY <2>1, <4>1
      <4> QED
        BY <4>2 DEF e
    <3>4. interventions'[i].step = interventions[i].step
      BY <3>1, <3>3 DEF Question
    <3> QED
      BY <2>1, <2>2, <3>2, <3>4
  <2>4. UNCHANGED faults
    BY DEF RespondCommit
  <2>5. AskedInOrder'
    BY <2>2, <2>3, <2>4 DEF OrderInv, AskedInOrder, Reached, Settled, Excused
  <2> QED
    BY <1>1, <2>2, <2>4, <2>5
    DEF OrderInv, StartedInOrder, HeldInOrder, WorkIsLeft, MessagesInOrder, Working, SentUncommitted, Reached,
        Settled, Excused
<1>6. CASE \/ StartCommit \/ StartAbort
           \/ \E u \in Users : RespondAbort(u) \/ \E i \in 1..Len(interventions) : RespondCheck(u, i)
  <2>1. UNCHANGED <<steps, interventions, queue>>
    BY <1>6 DEF StartCommit, StartAbort, RespondAbort, RespondCheck, dbVars
  <2> QED
    BY <1>1, <2>1, CarryOver DEF OrderInv, HeldInOrder, WorkIsLeft, Working, SentUncommitted
<1> QED
  BY <1>3, <1>4, <1>5, <1>6 DEF Start, Respond

-----------------------------------------------------------------------------
(***************************************************************************)
(* Steps of the worker.                                                    *)
(***************************************************************************)
LEMMA OrderReceive ==
  ASSUME OneWorker, TypeOK, [Next]_vars, OrderInv, NEW w \in Workers, NEW s \in Steps, Receive(w, s)
  PROVE  OrderInv'
<1>1. queue[s] > 0 /\ job[w].pc = "idle" /\ UNCHANGED <<steps, interventions>>
  BY DEF Receive, dbVars
<1>2. Reached(s)
  BY <1>1 DEF OneWorker, OrderInv, MessagesInOrder, SentUncommitted, Reached, Settled
<1>3. \A t \in Steps : queue'[t] > 0 => queue[t] > 0
  BY <1>1 DEF Receive, TypeOK
<1>4. Working(w)' => steps[s].status # "complete"
  BY ReceiveEffect DEF Working, Skips
<1> QED
  BY <1>1, <1>2, <1>3, <1>4, ReceiveEffect, CarryOver
  DEF OneWorker, SentUncommitted

\* The step that is sent is the first that is not complete but for the sender's.
LEMMA NextIsReached ==
  ASSUME TypeOK, OrderInv, NEW w \in Workers, NEW t \in Steps, job[w].msg \in Steps, Working(w),
         NextPending(w, t), NEW r \in Steps, r < t
  PROVE  Settled(r) \/ r = job[w].msg
<1> SUFFICES ASSUME r # job[w].msg PROVE Settled(r)
  OBVIOUS
<1>1. steps[r].status # "pending"
  BY StepsFacts DEF NextPending, PendingAfter
<1>2. CASE r < job[w].msg
  BY <1>2 DEF OrderInv, HeldInOrder, Reached, Working
<1>3. CASE job[w].msg < r
  <2>1. Settled(job[w].msg)
    BY <1>1, <1>3 DEF OrderInv, StartedInOrder, Reached
  <2>2. PICK u \in faults.lost : u <= job[w].msg
    BY <2>1 DEF Settled, Excused, OrderInv, WorkIsLeft
  <2>3. u \in Nat /\ job[w].msg \in Nat /\ r \in Nat
    BY <2>2, StepsFacts DEF TypeOK, Faults
  <2> QED
    BY <1>3, <2>2, <2>3 DEF Settled, Excused
<1> QED
  <2>1. r \in Nat /\ job[w].msg \in Nat
    BY StepsFacts
  <2> QED
    BY <1>2, <1>3, <2>1

LEMMA OrderAttempt ==
  ASSUME OneWorker, TypeOK, [Next]_vars, PhaseOK, OrderInv, NEW w \in Workers, Attempt(w)
  PROVE  OrderInv'
<1>0. /\ job[w] \in Job
      /\ job \in [Workers -> Job]
      /\ queue \in [Steps -> Nat]
      /\ job[w].msg \in Steps
      /\ Phase(job[w])
  BY DEF TypeOK, Job, PhaseOK
<1>1. /\ job'[w].msg = job[w].msg
      /\ job[w].pc \notin {"idle", "ack", "commit"}
      /\ Working(w)
  BY <1>0, AttemptEffect DEF Working
<1>2. UNCHANGED <<steps, interventions>>
  BY DEF Attempt, BeginAttempt, Reply, AttemptFails, GiveUp, Pause, Finish, CompleteAndSend,
         CompleteSendFails, CompleteLast, dbVars
<1>3. CASE \E t \in Steps : CompleteAndSend(w, t)
  <2> PICK t \in Steps : CompleteAndSend(w, t)
    BY <1>3
  <2>1. NextPending(w, t) /\ queue' = [queue EXCEPT ![t] = @ + 1]
    BY DEF CompleteAndSend, Send
  <2>2. SentUncommitted(w)'
    <3> DEFINE c == Completed(job[w])
    <3>1. c \in Job /\ job'[w] = [c EXCEPT !.pc = "commit"] /\ c.exec.status = "running"
      BY <1>0, <1>1, CompletedType, CompletedEffect DEF CompleteAndSend, Phase
    <3>2. job'[w].pc = "commit" /\ job'[w].exec.status = "running"
      <4> HIDE DEF c
      <4> QED
        BY <3>1 DEF Job
    <3> QED
      BY <3>2 DEF SentUncommitted
  <2>3. \A s \in Steps : queue'[s] > 0 => queue[s] > 0 \/ s = t
    BY <1>0, <2>1
  <2>4. MessagesInOrder'
    <3> SUFFICES ASSUME NEW s \in Steps, NEW r \in Steps, queue'[s] > 0, r < s
                 PROVE  Settled(r) \/ r = job[w].msg
      BY <1>1, <1>2, <2>2, SettledStays DEF MessagesInOrder, Settled
    <3>1. CASE s = t
      BY <1>0, <1>1, <2>1, <3>1, NextIsReached
    <3>2. CASE s # t
      BY <1>1, <2>3, <3>2 DEF OrderInv, MessagesInOrder, SentUncommitted, OneWorker, Settled
    <3> QED
      BY <3>1, <3>2
  <2>5. UNCHANGED faults
    BY DEF CompleteAndSend
  <2> QED
    BY <1>1, <1>2, <2>4, <2>5 DEF OrderInv, StartedInOrder, HeldInOrder, AskedInOrder, WorkIsLeft,
                            Working, Reached, Settled, Excused, OneWorker
<1>4. CASE UNCHANGED queue
  BY <1>1, <1>2, <1>4, CarryOver DEF OrderInv, HeldInOrder, WorkIsLeft, Working, SentUncommitted, OneWorker
<1> QED
  BY <1>3, <1>4 DEF Attempt, BeginAttempt, Reply, AttemptFails, GiveUp, Pause, Finish, CompleteSendFails, CompleteLast

LEMMA OrderCommit ==
  ASSUME OneWorker, TypeOK, [Next]_vars, PhaseOK, OrderInv, NEW w \in Workers, Commit(w)
  PROVE  OrderInv'
<1> DEFINE m == job[w].msg
<1>1. /\ job[w].pc = "commit"
      /\ job'[w].pc = "ack"
      /\ job'[w].msg = m
      /\ queue' = queue
      /\ m \in Steps
      /\ Reached(m)
      /\ steps[m].status # "complete"
  BY CommitStatus DEF Commit, TypeOK, OrderInv, HeldInOrder, WorkIsLeft, Working, IdleJob
<1>2. /\ \A t \in Steps \ {m} : steps'[t] = steps[t]
      /\ \A t \in Steps : steps[t].status = "complete" => steps'[t].status = "complete"
  BY <1>1, CommitStatus
<1>3. /\ \A t \in Steps : Settled(t) => Settled(t)'
      /\ \A s \in Steps : Reached(s) => Reached(s)'
  BY <1>2, SettledStays DEF Reached
<1>4. StartedInOrder'
  <2> SUFFICES ASSUME NEW s \in Steps, steps'[s].status # "pending" PROVE Reached(s)'
    BY DEF StartedInOrder
  <2>1. CASE s = m
    BY <1>1, <1>3, <2>1
  <2>2. CASE s # m
    BY <1>2, <1>3, <2>2 DEF OrderInv, StartedInOrder
  <2> QED
    BY <2>1, <2>2
<1>5. HeldInOrder'
  <2>1. \A t \in Steps : t < m => Settled(t)'
    BY <1>1, <1>3 DEF Reached
  <2>2. \A v \in Workers : v = w
    BY DEF OneWorker
  <2> QED
    BY <1>1, <2>1, <2>2 DEF HeldInOrder, Reached
<1>6. AskedInOrder'
  <2> DEFINE q == [step |-> m, answered |-> FALSE]
  <2>1. q \in Question /\ interventions \in Seq(Question) /\ q.step = m
    BY <1>1 DEF Question, TypeOK
  <2>2. interventions' \in {interventions, Append(interventions, q)}
    BY DEF Commit
  <2>3. \A i \in 1..Len(interventions') :
          \/ i \in 1..Len(interventions) /\ interventions'[i] = interventions[i]
          \/ interventions'[i] = q
    <3> HIDE DEF q
    <3> QED
      BY <2>1, <2>2
  <2>4. \A i \in 1..Len(interventions) : interventions[i].step \in Steps
    <3> SUFFICES ASSUME NEW i \in 1..Len(interventions) PROVE interventions[i].step \in Steps
      OBVIOUS
    <3>1. interventions[i] \in Question
      BY <2>1, ElementType
    <3> QED
      BY <3>1 DEF Question
  <2> SUFFICES ASSUME NEW i \in 1..Len(interventions')
               PROVE  \A t \in Steps : t < interventions'[i].step => Settled(t)'
    BY DEF AskedInOrder, Reached
  <2>5. interventions'[i].step \in Steps /\ Reached(interventions'[i].step)
    <3> HIDE DEF q, m
    <3> QED
      BY <1>1, <2>1, <2>3, <2>4 DEF OrderInv, AskedInOrder
  <2> QED
    BY <1>3, <2>5 DEF Reached
<1>7. WorkIsLeft'
  BY <1>1 DEF WorkIsLeft, Working, OneWorker
<1>8. MessagesInOrder'
  <2> SUFFICES ASSUME NEW s \in Steps, NEW t \in Steps, queue[s] > 0, t < s
               PROVE  Settled(t)'
    BY <1>1 DEF MessagesInOrder, Settled
  <2>1. CASE Settled(t)
    BY <1>3, <2>1
  <2>2. CASE SentUncommitted(w) /\ m = t
    <3>1. job[w].row.status = "complete"
      BY <1>1, <2>2 DEF SentUncommitted, PhaseOK, Phase
    <3> QED
      BY <2>2, <3>1, CommitStatus DEF Settled
  <2> QED
    BY <2>1, <2>2 DEF OrderInv, MessagesInOrder, Settled, OneWorker
<1> QED
  BY <1>4, <1>5, <1>6, <1>7, <1>8 DEF OrderInv

LEMMA OrderLeave ==
  ASSUME OneWorker, TypeOK, [Next]_vars, PhaseOK, OrderInv, NEW w \in Workers, Leave(w)
  PROVE  OrderInv'
<1>1. CASE Commit(w)
  BY <1>1, OrderCommit
<1>2. CASE TornCommit(w)
  <2> PICK m \in Steps : m = job[w].msg
    BY DEF TypeOK, Job
  <2>1. /\ UNCHANGED <<steps, interventions>>
        /\ queue' = queue \/ queue' = [queue EXCEPT ![m] = @ + 1]
        /\ job'[w].pc = "idle"
        /\ faults'.lost = faults.lost \cup {m}
    BY <1>2 DEF TornCommit, GivesBack, IdleJob, dbVars, TypeOK, Faults
  <2>2. Reached(m) /\ Settled(m)'
    <3>1. m \in Steps /\ m \in Nat
      BY StepsFacts
    <3>2. job[w].pc # "idle"
      BY <1>2 DEF TornCommit, SentUncommitted
    <3>3. Excused(m)'
      BY <2>1, <3>1 DEF Excused
    <3> QED
      BY <3>1, <3>2, <3>3 DEF OrderInv, HeldInOrder, Settled
  <2>3. /\ \A t \in Steps : Settled(t) => Settled(t)'
        /\ \A s \in Steps : Reached(s) => Reached(s)'
    BY <2>1, SettledStays DEF Reached
  <2>4. StartedInOrder' /\ HeldInOrder' /\ WorkIsLeft'
    BY <2>1, <2>3 DEF OrderInv, StartedInOrder, HeldInOrder, WorkIsLeft, Working, OneWorker
  <2>5. AskedInOrder'
    <3>1. \A i \in 1..Len(interventions) : interventions[i].step \in Steps
      BY AskedStep
    <3> QED
      BY <2>1, <2>3, <3>1 DEF OrderInv, AskedInOrder
  <2>6. MessagesInOrder'
    <3>1. \A s \in Steps : queue'[s] > 0 => queue[s] > 0 \/ s = m
      BY <2>1 DEF TypeOK
    <3> SUFFICES ASSUME NEW s \in Steps, NEW t \in Steps, queue'[s] > 0, t < s PROVE Settled(t)'
      BY DEF MessagesInOrder, Settled
    <3>2. CASE s = m
      BY <2>2, <2>3, <3>2 DEF Reached
    <3>3. CASE s # m
      <4>1. \A v \in Workers : v = w
        BY DEF OneWorker
      <4>2. queue[s] > 0
        BY <3>1, <3>3
      <4>3. Settled(t) \/ t = m
        BY <4>1, <4>2 DEF OrderInv, MessagesInOrder, Settled
      <4> QED
        BY <2>2, <2>3, <4>3
    <3> QED
      BY <3>2, <3>3
  <2> QED
    BY <2>4, <2>5, <2>6 DEF OrderInv
<1>3. CASE Ack(w) \/ Abort(w) \/ AckLost(w)
  <2>1. UNCHANGED <<steps, interventions>> /\ ~SentUncommitted(w)
    BY <1>3 DEF Ack, Abort, AckLost, SentUncommitted, dbVars
  <2>2. job'[w].pc = "idle"
    BY <1>3 DEF Ack, Abort, AckLost, GivesBack, IdleJob, TypeOK
  <2>3. queue' = queue \/ queue' = [queue EXCEPT ![job[w].msg] = @ + 1]
    BY <1>3 DEF Ack, Abort, AckLost, GivesBack
  <2>4. \A s \in Steps : queue'[s] > 0 => queue[s] > 0 \/ s = job[w].msg
    BY <2>3 DEF TypeOK
  <2>5. Reached(job[w].msg)
    BY LeaveEffect DEF OrderInv, HeldInOrder
  <2> QED
    BY <2>1, <2>2, <2>4, <2>5, CarryOver DEF OneWorker, Working
<1> QED
  BY <1>1, <1>2, <1>3 DEF Leave

LEMMA OrderTimeout ==
  ASSUME OneWorker, TypeOK, [Next]_vars, OrderInv, NEW w \in Workers, VisibilityTimeout(w)
  PROVE  OrderInv'
<1>1. UNCHANGED <<steps, interventions>> /\ queue' = [queue EXCEPT ![job[w].msg] = @ + 1]
  BY DEF VisibilityTimeout, Send, dbVars
<1>2. \A s \in Steps : queue'[s] > 0 => queue[s] > 0 \/ s = job[w].msg
  BY <1>1 DEF TypeOK
<1>3. Reached(job[w].msg)
  BY TimeoutEffect DEF OrderInv, HeldInOrder
<1> QED
  BY <1>1, <1>2, <1>3, TimeoutEffect, CarryOver
  DEF OneWorker, OrderInv, HeldInOrder, WorkIsLeft, Working, SentUncommitted

-----------------------------------------------------------------------------
LEMMA OrderInit == Init => OrderInv
BY DEF Init, IdleJob, OrderInv, StartedInOrder, HeldInOrder, AskedInOrder, WorkIsLeft, Working, MessagesInOrder

LEMMA OrderStep ==
  ASSUME OneWorker
  PROVE  TypeOK /\ PhaseOK /\ OrderInv /\ [Next]_vars => OrderInv'
<1> SUFFICES ASSUME TypeOK, PhaseOK, OrderInv, [Next]_vars PROVE OrderInv'
  OBVIOUS
<1>1. CASE UNCHANGED vars
  BY <1>1, CarryOver DEF vars, OrderInv, HeldInOrder, WorkIsLeft, Working, SentUncommitted
<1>2. CASE Start \/ \E u \in Users : Respond(u)
  BY <1>2, OrderRequest
<1>3. CASE \E w \in Workers, s \in Steps : Receive(w, s)
  BY <1>3, OrderReceive
<1>4. CASE \E w \in Workers : Attempt(w)
  BY <1>4, OrderAttempt
<1>5. CASE \E w \in Workers : Leave(w)
  BY <1>5, OrderLeave
<1>6. CASE \E w \in Workers : VisibilityTimeout(w)
  BY <1>6, OrderTimeout
<1> QED
  BY <1>1, <1>2, <1>3, <1>4, <1>5, <1>6, StepCases

\* With one worker, steps run in the order of thread_sequence: no step starts, and
\* no worker works on one, before all earlier steps are committed as complete, but
\* for those from the first on whose completion was lost after its message was out.
THEOREM StepsInOrderCorrect ==
  ASSUME OneWorker
  PROVE  Spec => []StepsInOrder
BY OrderInit, OrderStep, OrderGivesStepsInOrder, TypeInit, TypeStep, PhaseInit, PhaseStep, PTL DEF Spec

\* Under the same condition the queue never holds a message for a step that could
\* not run, except while the transaction that sent it is being committed and from
\* the first lost completion on.
THEOREM MessagesInOrderCorrect ==
  ASSUME OneWorker
  PROVE  Spec => []MessagesInOrder
<1>1. OrderInv => MessagesInOrder
  BY DEF OrderInv
<1> QED
  BY <1>1, OrderInit, OrderStep, TypeInit, TypeStep, PhaseInit, PhaseStep, PTL DEF Spec

-----------------------------------------------------------------------------
(***************************************************************************)
(* One worker and one user, whatever commits are torn.  The rows a worker  *)
(* has loaded stay the committed ones until it commits, and no answer is   *)
(* under way while it works; so its commit writes just what it has         *)
(* counted: no retry, thread or prompt is lost or counted twice.           *)
(***************************************************************************)
OneUser == \A u, v \in Users : u = v

(* What the transaction has made of the loaded row. *)
Counted(j) ==
  /\ j.row.retries >= j.base.retries /\ j.row.done >= j.base.done
  /\ j.row.retries <= MaxRetries
  /\ j.row.status = "failed" <=> j.row.retries = MaxRetries
  /\ j.pc \in {"loaded", "retrying"} => j.row.status # "failed"
  /\ j.pc # "loaded" => j.row.linked

(* A worker works on the rows as they are, of a running execution. *)
Current(w) ==
  /\ execution.status = "running"
  /\ job[w].base = Loaded(job[w].msg)
  /\ steps[job[w].msg].status # "complete"
  /\ Counted(job[w])

RowsExhausted ==
  /\ \A s \in Steps : steps[s].status = "failed" <=> steps[s].retries = MaxRetries
  /\ \A s \in Steps : steps[s].retries <= MaxRetries
  /\ \A s \in Steps : steps[s].threads = IF steps[s].linked THEN 1 ELSE 0

SoleInv ==
  /\ \A w \in Workers : Working(w) => Current(w)
  /\ \A u \in Users : responder[u].pc # "idle" => execution.status = "paused"
  /\ starter # "done" => execution.status = "none"
  /\ execution.status = "failed" <=> \E s \in Steps : steps[s].status = "failed"
  /\ RowsExhausted

LEMMA SoleInit == Init => SoleInv
BY WorkflowAssumption DEF Init, SoleInv, Working, IdleJob, RowsExhausted

(* Inside a transaction the row is only counted up. *)
LEMMA FailedCounts ==
  ASSUME NEW j, j \in Job, Counted(j), j.row.retries < MaxRetries, j.row.linked
  PROVE  Counted(Failed(j)) /\ Failed(j).base = j.base
<1> DEFINE f == Failed(j)
<1>0. MaxRetries \in Nat /\ j.row.retries \in Nat /\ j.row.done \in Nat
      /\ j.base.retries \in Nat /\ j.base.done \in Nat
  BY WorkflowAssumption DEF Job, Row
<1>1. /\ f.base = j.base /\ f.row.done = j.row.done /\ f.row.linked = j.row.linked
      /\ f.row.retries = j.row.retries + 1
  BY DEF Failed, Job, Row
<1>2. /\ f.row.status = IF j.row.retries + 1 >= MaxRetries THEN "failed" ELSE "pending"
      /\ f.pc = IF j.row.retries + 1 >= MaxRetries THEN "failing" ELSE "retrying"
  BY DEF Failed, Job, Row
<1>3. f.row.linked
  BY <1>1
<1> HIDE DEF f
<1>4. Counted(f)
  BY <1>0, <1>1, <1>2, <1>3 DEF Counted
<1> QED
  BY <1>1, <1>4 DEF f

LEMMA AttemptCounts ==
  ASSUME TypeOK, PhaseOK, NEW w \in Workers, Counted(job[w]), Attempt(w)
  PROVE  Counted(job'[w]) /\ job'[w].base = job[w].base
<1> DEFINE j == job[w]
<1>0. j \in Job /\ job \in [Workers -> Job] /\ MaxRetries \in Nat \ {0}
  BY WorkflowAssumption DEF TypeOK
<1>a. Phase(j)
  BY DEF PhaseOK
<1>b. j.row.retries \in Nat /\ j.row.done \in Nat /\ j.base.retries \in Nat /\ j.base.done \in Nat
  BY <1>0 DEF Job, Row
<1>1. CASE BeginAttempt(w)
  <2>1. j.row.retries # MaxRetries
    BY <1>1 DEF BeginAttempt, Counted
  <2> QED
    BY <1>0, <1>1, <2>1 DEF BeginAttempt, Counted, Job, Row
<1>2. CASE \E reply \in {"plain", "ask", "unsure"} : Reply(w, reply)
  BY <1>0, <1>2, <1>b DEF Reply, Counted, Job, Row
<1>3. CASE AttemptFails(w)
  <2>1. j.pc = "prompting" /\ job'[w] = Failed(j)
    BY <1>0, <1>3 DEF AttemptFails
  <2>2. j.row.retries < MaxRetries /\ j.row.linked
    BY <1>0, <1>a, <1>b, <2>1 DEF Counted, Phase
  <2> QED
    BY <1>0, <2>1, <2>2, FailedCounts
<1>4. CASE GiveUp(w) \/ Pause(w)
  BY <1>0, <1>4 DEF GiveUp, Pause, Counted, Job, Row
<1>5. CASE Finish(w)
  <2> DEFINE c == Completed(j)
  <2>1. j.pc = "finishing"
    BY <1>5 DEF Finish, CompleteAndSend, CompleteSendFails, CompleteLast
  <2>2. j.row.retries < MaxRetries /\ j.row.linked
    BY <1>0, <1>a, <1>b, <2>1 DEF Counted, Phase
  <2>3. /\ c \in Job /\ c.base = j.base /\ c.pc = "finishing"
        /\ c.row.status = "complete" /\ c.row.retries = j.row.retries
        /\ c.row.done = j.row.done /\ c.row.linked = j.row.linked
    BY <1>0, <2>1, CompletedType DEF Completed, Job, Row
  <2>4. \/ job'[w] = [c EXCEPT !.pc = "commit"]
        \/ job'[w] = Failed(c)
        \/ job'[w] = [c EXCEPT !.pc = "commit", !.exec.status = "complete"]
    BY <1>0, <1>5 DEF Finish, CompleteAndSend, CompleteSendFails, CompleteLast
  <2> HIDE DEF c
  <2>5. Counted(c)
    BY <1>0, <1>b, <2>2, <2>3 DEF Counted
  <2>6. CASE job'[w] = Failed(c)
    BY <2>2, <2>3, <2>5, <2>6, FailedCounts
  <2>7. CASE job'[w] = [c EXCEPT !.pc = "commit"]
    BY <2>2, <2>3, <2>5, <2>7 DEF Counted, Job
  <2>8. CASE job'[w] = [c EXCEPT !.pc = "commit", !.exec.status = "complete"]
    BY <2>2, <2>3, <2>5, <2>8 DEF Counted, Job
  <2> QED
    BY <2>4, <2>6, <2>7, <2>8
<1> QED
  BY <1>1, <1>2, <1>3, <1>4, <1>5 DEF Attempt

(* What the commit of a current job writes. *)
LEMMA SoleCommit ==
  ASSUME TypeOK, PhaseOK, NEW w \in Workers, Current(w), RowsExhausted, Commit(w)
  PROVE  LET s == job[w].msg IN
         /\ execution'.status = job[w].exec.status
         /\ \A t \in Steps \ {s} : steps'[t] = steps[t]
         /\ steps'[s].status = job[w].row.status
         /\ steps'[s].retries = job[w].row.retries
         /\ steps'[s].done = job[w].row.done
         /\ steps'[s].linked = TRUE /\ steps'[s].threads = 1
<1> DEFINE j == job[w]
           s == j.msg
           linked == steps[s].linked \/ j.row.linked
<1>0. j \in Job /\ s \in Steps /\ steps \in [Steps -> StepRow]
  BY DEF TypeOK, Job
<1>1. j.pc = "commit" /\ j.row.linked
  BY DEF Commit, Current, Counted
<1>2. /\ j.base.status = steps[s].status /\ j.base.retries = steps[s].retries
      /\ j.base.done = steps[s].done /\ j.base.linked = steps[s].linked
  BY DEF Current, Loaded
<1>3. steps' = [steps EXCEPT ![s] =
        [status  |-> IF StatusWritten(j) THEN j.row.status ELSE steps[s].status,
         retries |-> Flushed(j.base.retries, j.row.retries, steps[s].retries),
         done    |-> Flushed(j.base.done, j.row.done, steps[s].done),
         linked  |-> linked,
         threads |-> IF j.base.linked THEN steps[s].threads ELSE steps[s].threads + 1]]
  BY DEF Commit
<1>4. steps'[s] =
        [status  |-> IF StatusWritten(j) THEN j.row.status ELSE steps[s].status,
         retries |-> Flushed(j.base.retries, j.row.retries, steps[s].retries),
         done    |-> Flushed(j.base.done, j.row.done, steps[s].done),
         linked  |-> linked,
         threads |-> IF j.base.linked THEN steps[s].threads ELSE steps[s].threads + 1]
  BY <1>0, <1>3
<1>5. \A t \in Steps \ {s} : steps'[t] = steps[t]
  BY <1>0, <1>3
<1>6. steps'[s].status = j.row.status
  BY <1>2, <1>4 DEF StatusWritten
<1>7. steps'[s].retries = j.row.retries /\ steps'[s].done = j.row.done
  BY <1>2, <1>4 DEF Flushed
<1>8. linked = TRUE
  BY <1>1, Zenon
<1> HIDE DEF linked
<1>9. steps'[s].linked = TRUE
  BY <1>4, <1>8
<1>10. steps'[s].threads = 1
  BY <1>0, <1>2, <1>4 DEF RowsExhausted, StepRow
<1>11. execution'.status = j.exec.status
  BY DEF Commit, Flushed, Current
<1> QED
  BY <1>5, <1>6, <1>7, <1>9, <1>10, <1>11

LEMMA SoleStep ==
  ASSUME OneWorker, OneUser, TypeOK, PhaseOK, SoleInv, [Next]_vars
  PROVE  SoleInv' /\ (KeepsProgress \/ UNCHANGED dbVars)
<1>0. job \in [Workers -> Job] /\ steps \in [Steps -> StepRow] /\ execution \in ExecRow
  BY DEF TypeOK
<1>1. CASE UNCHANGED vars
  BY <1>1 DEF vars, dbVars, SoleInv, Current, Working, Loaded, RowsExhausted
<1>2. CASE Start
  <2>1. UNCHANGED <<steps, job, responder>> /\ execution.status = "none"
    BY <1>2 DEF Start, StartSend, StartCommit, StartAbort, SoleInv, dbVars
  <2>2. \A w \in Workers : ~Working(w)
    BY <2>1 DEF SoleInv, Current
  <2>3. \A u \in Users : responder[u].pc = "idle"
    BY <2>1 DEF SoleInv
  <2>4. execution' = execution \/ (execution' = NewExec /\ starter' = "done")
    BY <1>2 DEF Start, StartSend, StartCommit, StartAbort, dbVars
  <2>5. ~\E s \in Steps : steps[s].status = "failed"
    BY <2>1 DEF SoleInv
  <2>6. SoleInv'
    BY <2>1, <2>2, <2>3, <2>4, <2>5 DEF SoleInv, Working, RowsExhausted, NewExec
  <2>7. KeepsProgress
    BY <1>0, <2>1 DEF KeepsProgress, StepRow
  <2> QED
    BY <2>6, <2>7
<1>3. CASE \E u \in Users : Respond(u)
  <2> PICK u \in Users : Respond(u)
    BY <1>3
  <2>1. UNCHANGED <<steps, job, starter>>
    BY DEF Respond, RespondCheck, RespondSend, RespondCommit, RespondAbort, dbVars
  <2>2. execution.status = "paused"
    BY DEF Respond, RespondCheck, RespondSend, RespondCommit, RespondAbort, SoleInv
  <2>3. \A w \in Workers : ~Working(w)
    BY <2>2 DEF SoleInv, Current
  <2>4. \/ execution' = execution
        \/ execution'.status = "running" /\ responder'[u].pc = "idle"
    BY <1>0 DEF Respond, RespondCheck, RespondSend, RespondCommit, RespondAbort, dbVars, ExecRow, TypeOK
  <2>5. \A v \in Users : v = u
    BY DEF OneUser
  <2>6. starter = "done" /\ ~\E s \in Steps : steps[s].status = "failed"
    BY <2>2 DEF SoleInv
  <2>7. SoleInv'
    BY <2>1, <2>2, <2>3, <2>4, <2>5, <2>6 DEF SoleInv, Working, RowsExhausted
  <2>8. KeepsProgress
    BY <1>0, <2>1, <2>2 DEF KeepsProgress, StepRow
  <2> QED
    BY <2>7, <2>8
<1>4. CASE \E w \in Workers, s \in Steps : Receive(w, s)
  <2> PICK w \in Workers, s \in Steps : Receive(w, s)
    BY <1>4
  <2>1. UNCHANGED dbVars /\ UNCHANGED <<starter, responder>>
    BY DEF Receive
  <2>2. \A v \in Workers : v = w
    BY DEF OneWorker
  <2>3. CASE Skips(s)
    <3>1. job'[w].pc = "ack"
      BY <2>3, ReceiveEffect
    <3> QED
      BY <2>1, <2>2, <3>1 DEF SoleInv, Working, RowsExhausted, dbVars
  <2>4. CASE ~Skips(s)
    <3>1. /\ job'[w].pc = "loaded" /\ job'[w].msg = s
          /\ job'[w].base = Loaded(s) /\ job'[w].row = Loaded(s)
      BY <1>0, <2>4 DEF Receive, IdleJob
    <3>2. execution.status = "running" /\ steps[s].status # "complete"
      BY <2>4 DEF Skips
    <3>3. Loaded(s)' = Loaded(s)
      BY <2>1 DEF dbVars, Loaded
    <3>4. steps[s].status # "failed"
      BY <3>2 DEF SoleInv
    <3>5. Counted(job'[w])
      BY <1>0, <3>1, <3>4 DEF Counted, Loaded, SoleInv, RowsExhausted, StepRow
    <3>6. Current(w)'
      BY <2>1, <3>1, <3>2, <3>3, <3>5 DEF Current, Counted, dbVars, Loaded
    <3> QED
      BY <2>1, <2>2, <3>6 DEF SoleInv, RowsExhausted, dbVars
  <2> QED
    BY <2>3, <2>4
<1>5. CASE \E w \in Workers : Attempt(w)
  <2> PICK w \in Workers : Attempt(w)
    BY <1>5
  <2>1. UNCHANGED dbVars /\ UNCHANGED <<starter, responder>>
    BY DEF Attempt, BeginAttempt, Reply, AttemptFails, GiveUp, Pause, Finish, CompleteAndSend,
           CompleteSendFails, CompleteLast, dbVars
  <2>2. \A v \in Workers : v = w
    BY DEF OneWorker
  <2>3. Working(w) /\ job'[w].msg = job[w].msg
    BY AttemptEffect DEF Working, PhaseOK
  <2>4. Current(w)
    BY <2>3 DEF SoleInv
  <2>5. Counted(job'[w]) /\ job'[w].base = job[w].base
    BY <2>4, AttemptCounts DEF Current
  <2>6. Current(w)'
    BY <2>1, <2>3, <2>4, <2>5 DEF Current, Counted, dbVars, Loaded
  <2> QED
    BY <2>1, <2>2, <2>6 DEF SoleInv, RowsExhausted, dbVars
<1>6. CASE \E w \in Workers : Commit(w)
  <2> PICK w \in Workers : Commit(w)
    BY <1>6
  <2> DEFINE s == job[w].msg
             j == job[w]
  <2>1. Current(w) /\ RowsExhausted /\ j.pc = "commit" /\ s \in Steps /\ j \in Job
    BY <1>0 DEF Commit, Working, SoleInv, Job
  <2>2. /\ execution'.status = j.exec.status
        /\ \A t \in Steps \ {s} : steps'[t] = steps[t]
        /\ steps'[s].status = j.row.status /\ steps'[s].retries = j.row.retries
        /\ steps'[s].done = j.row.done
        /\ steps'[s].linked = TRUE /\ steps'[s].threads = 1
    BY <2>1, SoleCommit
  <2>3. \A v \in Workers : v = w
    BY DEF OneWorker
  <2>4. UNCHANGED <<starter, responder>> /\ job'[w].pc = "ack"
    BY <1>0 DEF Commit, IdleJob
  <2>5. execution.status = "running" /\ Counted(j) /\ steps[s].status # "complete"
        /\ j.base.retries = steps[s].retries /\ j.base.done = steps[s].done
    BY <2>1 DEF Current, Loaded
  <2>6. \A u \in Users : responder[u].pc = "idle"
    BY <2>5 DEF SoleInv
  <2>7. starter = "done" /\ \A t \in Steps : steps[t].status # "failed"
    BY <2>5 DEF SoleInv
  <2>8. j.exec.status = "failed" <=> j.row.status = "failed"
    BY <2>1 DEF PhaseOK, Phase
  <2>9. RowsExhausted'
    BY <2>1, <2>2, <2>5 DEF RowsExhausted, Counted
  <2>10. execution'.status = "failed" <=> \E t \in Steps : steps'[t].status = "failed"
    BY <2>1, <2>2, <2>7, <2>8
  <2>11. SoleInv'
    BY <2>3, <2>4, <2>6, <2>7, <2>9, <2>10 DEF SoleInv, Working
  <2>12. KeepsProgress
    BY <1>0, <2>2, <2>5 DEF KeepsProgress, Counted, StepRow
  <2> QED
    BY <2>11, <2>12
<1>7. CASE \E w \in Workers : Leave(w) /\ ~Commit(w)
  <2> PICK w \in Workers : Leave(w) /\ ~Commit(w)
    BY <1>7
  <2>1. UNCHANGED dbVars /\ job'[w].pc \in {"idle", "ack"}
    BY LeaveEffect
  <2>2. UNCHANGED <<starter, responder>>
    BY DEF Leave, Ack, Abort, TornCommit, AckLost
  <2>3. \A v \in Workers : v = w
    BY DEF OneWorker
  <2> QED
    BY <2>1, <2>2, <2>3 DEF SoleInv, Working, RowsExhausted, dbVars
<1>8. CASE \E w \in Workers : VisibilityTimeout(w)
  <2> PICK w \in Workers : VisibilityTimeout(w)
    BY <1>8
  <2>1. UNCHANGED dbVars /\ UNCHANGED <<starter, responder>>
    BY DEF VisibilityTimeout
  <2>2. /\ job'[w].pc = job[w].pc /\ job'[w].msg = job[w].msg
        /\ job'[w].base = job[w].base /\ job'[w].row = job[w].row
    BY <1>0 DEF VisibilityTimeout, Job
  <2>3. \A v \in Workers : v = w
    BY DEF OneWorker
  <2> QED
    BY <2>1, <2>2, <2>3 DEF SoleInv, Working, Current, Counted, RowsExhausted, dbVars, Loaded
<1> QED
  BY <1>1, <1>2, <1>3, <1>4, <1>5, <1>6, <1>7, <1>8, StepCases

LEMMA SoleCorrect ==
  ASSUME OneWorker, OneUser
  PROVE  Spec => [](TypeOK /\ PhaseOK /\ SoleInv)
<1>1. TypeOK /\ PhaseOK /\ SoleInv /\ [Next]_vars => SoleInv'
  BY SoleStep
<1> QED
  BY <1>1, SoleInit, TypeInit, TypeStep, PhaseInit, PhaseStep, PTL DEF Spec

\* With one worker and one user, whatever transactions are lost: an execution
\* fails exactly when a step has used up its retries, and none fails more often.
THEOREM FailedCorrect ==
  ASSUME OneWorker, OneUser
  PROVE  Spec => []FailedMeansExhausted
<1>1. SoleInv => FailedMeansExhausted
  BY DEF SoleInv, RowsExhausted, FailedMeansExhausted
<1> QED
  BY <1>1, SoleCorrect, PTL

\* Under the same conditions a step has one thread, however often its message is
\* delivered and its attempts are rolled back.
THEOREM OneThreadCorrect ==
  ASSUME OneWorker, OneUser
  PROVE  Spec => []OneThreadPerStep
<1>1. SoleInv => OneThreadPerStep
  BY DEF SoleInv, RowsExhausted, OneThreadPerStep
<1> QED
  BY <1>1, SoleCorrect, PTL

\* Under the same conditions no worker runs a step while a question is open.
THEOREM NoWorkWhilePausedCorrect ==
  ASSUME OneWorker, OneUser
  PROVE  Spec => []NoWorkWhilePaused
<1>1. SoleInv => NoWorkWhilePaused
  BY DEF SoleInv, Current, NoWorkWhilePaused
<1> QED
  BY <1>1, SoleCorrect, PTL

\* Under the same conditions no commit takes progress back: final rows stay, the
\* counts of prompts and retries only grow, and one step moves at a time.
THEOREM ProgressCorrect ==
  ASSUME OneWorker, OneUser
  PROVE  Spec => ProgressIsKept
<1>1. TypeOK /\ PhaseOK /\ SoleInv /\ [Next]_vars => [KeepsProgress]_dbVars
  BY SoleStep
<1> QED
  BY <1>1, SoleCorrect, PTL DEF Spec, ProgressIsKept

-----------------------------------------------------------------------------
(***************************************************************************)
(* With one worker, one user and no torn commit the workflow is safe in    *)
(* the sense of its contract.  A worker's commit finds the rows it has     *)
(* loaded (SoleInv), of the first step that is not complete (OrderInv);    *)
(* AgreeInv adds what the execution row says of steps and questions.       *)
(***************************************************************************)
(* No commit was torn, so the order of the steps holds without exception.  *)
NothingLost == faults.lost = {}

LEMMA PlainOrder == ASSUME NothingLost PROVE \A t \in Steps : Settled(t) <=> steps[t].status = "complete"
BY DEF NothingLost, Settled, Excused

LEMMA NothingIsLost == ASSUME MaxTorn = 0, TypeOK, NothingLost, [Next]_vars PROVE NothingLost'
<1>1. CASE UNCHANGED faults
  BY <1>1 DEF NothingLost
<1>2. CASE \E w \in Workers : TornCommit(w)
  BY <1>2 DEF TornCommit, TypeOK, Faults
<1>3. CASE \/ faults' = [faults EXCEPT !.aborts = @ + 1]
           \/ faults' = [faults EXCEPT !.timeouts = @ + 1]
  BY <1>3 DEF NothingLost, TypeOK, Faults
<1> QED
  BY <1>1, <1>2, <1>3
  DEF vars, Next, Start, Respond, Work, Finish, Disturb, StartSend, StartCommit, StartAbort, RespondCheck,
      RespondSend, RespondCommit, RespondAbort, Receive, BeginAttempt, Reply, AttemptFails, GiveUp, Pause,
      CompleteAndSend, CompleteSendFails, CompleteLast, Commit, Ack, Abort, AckLost, VisibilityTimeout,
      PollEmpty

(* current_thread_index moves to the step when it is completed, and stays  *)
(* there if the send that follows fails.                                   *)
IndexCounted(j) ==
  IF j.pc = "commit" /\ j.row.status = "complete"
  THEN j.exec.index = j.msg
  ELSE j.exec.index = j.baseIndex \/ (j.exec.index = j.msg /\ j.row.retries > 0)

(* A job completes the execution if and only if nothing else is pending. *)
LastIsKnown(j) ==
  j.pc = "commit" =>
    /\ j.exec.status = "running" => ~NonePendingBut(j.msg)
    /\ j.exec.status = "complete" => NonePendingBut(j.msg)

Accounted(w) ==
  /\ job[w].baseIndex = execution.index
  /\ IndexCounted(job[w])
  /\ LastIsKnown(job[w])

AgreeInv ==
  /\ \A w \in Workers : Working(w) => Accounted(w)
  /\ \A u \in Users : responder[u].pc # "idle" => responder[u].item \in Open
  /\ execution.status = "none" => execution.index = 0
  /\ RowsAgree

LEMMA AgreeInit == Init => AgreeInv
<1> SUFFICES ASSUME Init PROVE AgreeInv
  OBVIOUS
<1>1. Done = {} /\ Open = {} /\ 1 \in Steps
  BY StepsFacts, WorkflowAssumption DEF Init, Done, Open, Steps
<1>2. RowsAgree
  BY <1>1 DEF Init, RowsAgree, CompleteMeansAll, PausedMeansOneQuestion
<1> QED
  BY <1>2 DEF Init, AgreeInv, Working, IdleJob

LEMMA AttemptIndex ==
  ASSUME TypeOK, PhaseOK, NEW w \in Workers, IndexCounted(job[w]), Attempt(w)
  PROVE  IndexCounted(job'[w]) /\ job'[w].baseIndex = job[w].baseIndex
<1> DEFINE j == job[w]
<1>0. j \in Job /\ job \in [Workers -> Job] /\ Phase(j)
  BY DEF TypeOK, PhaseOK
<1>1. CASE BeginAttempt(w)
  BY <1>0, <1>1 DEF BeginAttempt, IndexCounted, Job, Row
<1>2. CASE \E reply \in {"plain", "ask", "unsure"} : Reply(w, reply)
  BY <1>0, <1>2 DEF Reply, IndexCounted, Job, Row
<1>3. CASE AttemptFails(w)
  BY <1>0, <1>3 DEF AttemptFails, Failed, IndexCounted, Job, Row
<1>4. CASE GiveUp(w) \/ Pause(w)
  BY <1>0, <1>4 DEF GiveUp, Pause, Phase, IndexCounted, Job, Row
<1>5. CASE Finish(w)
  <2> DEFINE c == Completed(j)
  <2>1. /\ c \in Job /\ c.baseIndex = j.baseIndex /\ c.exec.index = j.msg /\ c.msg = j.msg
        /\ c.row.status = "complete"
    BY <1>0, CompletedType DEF Completed, Job, Row
  <2>2. \/ job'[w] = [c EXCEPT !.pc = "commit"]
        \/ job'[w] = Failed(c)
        \/ job'[w] = [c EXCEPT !.pc = "commit", !.exec.status = "complete"]
    BY <1>0, <1>5 DEF Finish, CompleteAndSend, CompleteSendFails, CompleteLast
  <2> HIDE DEF c
  <2>3. CASE job'[w] = Failed(c)
    <3>1. Failed(c).pc # "commit" /\ Failed(c).msg = c.msg /\ Failed(c).exec = c.exec
      BY <2>1, FailedEffect
    <3>2. Failed(c).baseIndex = c.baseIndex /\ Failed(c).row.retries = c.row.retries + 1
          /\ c.row.retries \in Nat
      BY <2>1 DEF Failed, Job, Row
    <3> QED
      BY <2>1, <2>3, <3>1, <3>2 DEF IndexCounted
  <2>4. CASE job'[w] = [c EXCEPT !.pc = "commit"]
    BY <2>1, <2>4 DEF IndexCounted, Job
  <2>5. CASE job'[w] = [c EXCEPT !.pc = "commit", !.exec.status = "complete"]
    BY <2>1, <2>5 DEF IndexCounted, Job
  <2> QED
    BY <2>2, <2>3, <2>4, <2>5
<1> QED
  BY <1>1, <1>2, <1>3, <1>4, <1>5 DEF Attempt

LEMMA AttemptKnows ==
  ASSUME TypeOK, PhaseOK, NEW w \in Workers, Attempt(w)
  PROVE  LastIsKnown(job'[w])
<1> DEFINE j == job[w]
           c == Completed(j)
<1>0. j \in Job /\ job \in [Workers -> Job] /\ Phase(j) /\ c \in Job
  BY CompletedType DEF TypeOK, PhaseOK
<1>1. PendingAfter(w) = {} <=> NonePendingBut(j.msg)
  BY DEF PendingAfter, NonePendingBut
<1>2. c.msg = j.msg /\ c.exec.status = j.exec.status
  BY <1>0, CompletedEffect
<1>3. CASE BeginAttempt(w) \/ (\E reply \in {"plain", "ask", "unsure"} : Reply(w, reply)) \/ AttemptFails(w)
  <2>1. CASE BeginAttempt(w)
    BY <1>0, <2>1 DEF BeginAttempt, LastIsKnown, Job
  <2>2. CASE \E reply \in {"plain", "ask", "unsure"} : Reply(w, reply)
    BY <1>0, <2>2 DEF Reply, LastIsKnown, Job
  <2>3. CASE AttemptFails(w)
    BY <1>0, <2>3, FailedEffect DEF AttemptFails, LastIsKnown
  <2> QED
    BY <1>3, <2>1, <2>2, <2>3
<1>4. CASE GiveUp(w) \/ Pause(w)
  BY <1>0, <1>4 DEF GiveUp, Pause, LastIsKnown, Job
<1>5. CASE \E t \in Steps : CompleteAndSend(w, t)
  <2>1. PendingAfter(w) # {} /\ j.pc = "finishing" /\ job'[w] = [c EXCEPT !.pc = "commit"]
    BY <1>0, <1>5 DEF CompleteAndSend, NextPending
  <2> HIDE DEF c
  <2>2. job'[w].msg = j.msg /\ job'[w].exec.status = "running"
    BY <1>0, <1>2, <2>1 DEF Job, Phase
  <2> QED
    BY <1>1, <2>1, <2>2 DEF LastIsKnown
<1>6. CASE CompleteSendFails(w)
  <2>1. job'[w].pc \in {"failing", "retrying"}
    BY <1>0, <1>6, FailedEffect DEF CompleteSendFails
  <2> QED
    BY <2>1 DEF LastIsKnown
<1>7. CASE CompleteLast(w)
  <2>1. PendingAfter(w) = {} /\ job'[w] = [c EXCEPT !.pc = "commit", !.exec.status = "complete"]
    BY <1>0, <1>7 DEF CompleteLast
  <2> HIDE DEF c
  <2>2. job'[w].msg = j.msg /\ job'[w].exec.status = "complete"
    BY <1>0, <1>2, <2>1 DEF Job
  <2> QED
    BY <1>1, <2>2, <2>1 DEF LastIsKnown
<1> QED
  BY <1>3, <1>4, <1>5, <1>6, <1>7 DEF Attempt, Finish

-----------------------------------------------------------------------------
(***************************************************************************)
(* The commit of a worker is one step of the contract.                     *)
(***************************************************************************)
LEMMA CommitFacts ==
  ASSUME NothingLost, TypeOK, PhaseOK, OrderInv, SoleInv, AgreeInv, NEW w \in Workers, Commit(w)
  PROVE  LET j == job[w]  s == job[w].msg IN
         /\ j.pc = "commit" /\ s \in Steps \ Done /\ \A t \in Steps \ Done : s <= t
         /\ execution.status = "running" /\ Open = {}
         /\ execution' = [status |-> j.exec.status, index |-> j.exec.index]
         /\ \A t \in Steps \ {s} : steps'[t] = steps[t]
         /\ steps'[s].status = j.row.status /\ steps'[s].retries = j.row.retries
         /\ j.row.retries >= steps[s].retries
         /\ IndexCounted(j) /\ j.baseIndex = execution.index /\ LastIsKnown(j)
         /\ Done' = IF j.row.status = "complete" THEN Done \cup {s} ELSE Done
<1> DEFINE j == job[w]
           s == j.msg
<1>1. j.pc = "commit" /\ j \in Job /\ s \in Steps /\ Working(w)
  BY DEF Commit, TypeOK, Job, Working
<1>2. Current(w) /\ RowsExhausted /\ Accounted(w)
  BY <1>1 DEF SoleInv, AgreeInv
<1>3. /\ execution.status = "running" /\ steps[s].status # "complete"
      /\ j.base = Loaded(s) /\ j.row.retries >= steps[s].retries
  BY <1>2 DEF Current, Counted, Loaded
<1>4. Reached(s) /\ s \notin Done
  BY <1>1, <1>3 DEF OrderInv, HeldInOrder, Done
<1>5. \A t \in Steps \ Done : s <= t
  <2> SUFFICES ASSUME NEW t \in Steps \ Done, ~(s <= t) PROVE FALSE
    OBVIOUS
  <2>1. t < s
    BY <1>1, StepsFacts
  <2> QED
    BY <1>4, <2>1, PlainOrder DEF Reached, Done
<1>6. Open = {}
  BY <1>3 DEF AgreeInv, RowsAgree, PausedMeansOneQuestion
<1>7. execution' = [status |-> j.exec.status, index |-> j.exec.index]
  BY <1>2, <1>3 DEF Commit, Flushed, Accounted
<1>8. /\ \A t \in Steps \ {s} : steps'[t] = steps[t]
      /\ steps'[s].status = j.row.status /\ steps'[s].retries = j.row.retries
  BY <1>2, SoleCommit
<1>9. Done' = IF j.row.status = "complete" THEN Done \cup {s} ELSE Done
  BY <1>1, <1>3, <1>8 DEF Done
<1> QED
  BY <1>1, <1>2, <1>3, <1>4, <1>5, <1>6, <1>7, <1>8, <1>9 DEF Accounted

LEMMA CommitIndex ==
  ASSUME NothingLost, TypeOK, PhaseOK, OrderInv, SoleInv, AgreeInv, NEW w \in Workers, Commit(w)
  PROVE  /\ Done' \subseteq 1..execution'.index
         /\ \A t \in 1..execution'.index : t \in Done' \/ (t = execution'.index /\ steps'[t].retries > 0)
<1> DEFINE j == job[w]
           s == j.msg
<1>0. /\ s \in Steps \ Done /\ \A t \in Steps \ Done : s <= t
      /\ execution'.index = j.exec.index
      /\ \A t \in Steps \ {s} : steps'[t] = steps[t]
      /\ steps'[s].retries = j.row.retries /\ j.row.retries >= steps[s].retries
      /\ j.pc = "commit" /\ IndexCounted(j) /\ j.baseIndex = execution.index
      /\ Done' = IF j.row.status = "complete" THEN Done \cup {s} ELSE Done
  BY CommitFacts
<1>1. /\ Done \subseteq 1..execution.index /\ Done \subseteq Steps
      /\ \A t \in 1..execution.index : t \in Done \/ (t = execution.index /\ steps[t].retries > 0)
  BY DEF AgreeInv, RowsAgree, CompleteMeansAll, Done
<1>2. /\ s \in 1..N /\ Steps = 1..N /\ N \in Nat /\ execution.index \in 0..N
      /\ \A t \in Steps : steps[t].retries \in Nat
      /\ j.row.retries \in Nat
  BY WorkflowAssumption, <1>0 DEF TypeOK, ExecRow, StepRow, Steps, Job, Row
<1>3. \A t \in Steps : t < s => t \in Done
  BY <1>0, <1>2
<1>4. \A t \in Done : t < s
  <2> SUFFICES ASSUME NEW t \in Done, ~(t < s) PROVE FALSE
    OBVIOUS
  <2>1. s < t /\ t \in Steps
    BY <1>0, <1>1, <1>2
  <2>2. steps[s].status = "complete"
    BY <1>0, <2>1, PlainOrder DEF OrderInv, StartedInOrder, Reached, Done
  <2> QED
    BY <1>0, <2>2 DEF Done
<1>5. CASE j.row.status = "complete"
  <2>1. execution'.index = s /\ Done' = Done \cup {s}
    BY <1>0, <1>5 DEF IndexCounted
  <2>2. Done' \subseteq 1..s
    <3> SUFFICES ASSUME NEW t \in Done PROVE t \in 1..s
      BY <1>2, <2>1
    <3>1. t \in 1..N /\ t < s
      BY <1>1, <1>2, <1>4
    <3> HIDE DEF s
    <3> QED
      BY <1>2, <3>1
  <2>3. \A t \in 1..s : t \in Steps /\ (t < s \/ t = s)
    BY <1>2
  <2>4. \A t \in 1..s : t \in Done'
    BY <1>3, <2>1, <2>3
  <2> QED
    BY <2>1, <2>2, <2>4
<1>6. CASE j.row.status # "complete" /\ j.exec.index = j.baseIndex
  <2>1. execution'.index = execution.index /\ Done' = Done
    BY <1>0, <1>6
  <2>2. \A t \in Steps : steps[t].retries > 0 => steps'[t].retries > 0
    BY <1>0, <1>2
  <2>3. \A t \in 1..execution.index : t \in Steps
    BY <1>2
  <2> QED
    BY <1>1, <2>1, <2>2, <2>3
<1>7. CASE j.row.status # "complete" /\ j.exec.index = s /\ j.row.retries > 0
  <2>1. execution'.index = s /\ Done' = Done /\ steps'[s].retries > 0
    BY <1>0, <1>7
  <2> QED
    BY <1>1, <1>2, <1>3, <1>4, <2>1
<1> QED
  BY <1>0, <1>5, <1>6, <1>7 DEF IndexCounted

LEMMA ContractSteps == Contract!Steps = Steps /\ \A s : Contract!IsNext(s) <=> s \in Steps \ Done /\ \A t \in Steps \ Done : s <= t
BY DEF Contract!Steps, Steps, Contract!IsNext

\* A commit that completes its step completes the execution with the last one.
LEMMA CommitDone ==
  ASSUME NothingLost, TypeOK, PhaseOK, OrderInv, SoleInv, AgreeInv, NEW w \in Workers, Commit(w),
         job[w].row.status = "complete"
  PROVE  /\ execution'.status = IF Done' = Steps THEN "complete" ELSE "running"
         /\ UNCHANGED interventions
         /\ Contract!StepDone(job[w].msg)
<1> DEFINE j == job[w]
           s == j.msg
<1>0. /\ j.pc = "commit" /\ s \in Steps \ Done /\ \A t \in Steps \ Done : s <= t
      /\ execution.status = "running"
      /\ execution'.status = j.exec.status
      /\ \A t \in Steps \ {s} : steps'[t] = steps[t]
      /\ LastIsKnown(j)
      /\ Done' = Done \cup {s}
  BY CommitFacts
<1>1. j.exec.status \in {"running", "complete"}
  BY <1>0 DEF PhaseOK, Phase
<1>2. UNCHANGED interventions
  BY <1>1 DEF Commit
<1>3. CASE j.exec.status = "running"
  <2>1. PICK t \in Steps \ {s} : steps[t].status = "pending"
    BY <1>0, <1>3 DEF LastIsKnown, NonePendingBut
  <2>2. t \notin Done'
    BY <1>0, <2>1 DEF Done
  <2> QED
    BY <1>0, <1>3, <2>2, <1>2, ContractSteps DEF Contract!StepDone, OpenStep, Open
<1>4. CASE j.exec.status = "complete"
  <2>1. Done' = Steps
    <3> SUFFICES ASSUME NEW t \in Steps \ Done, t # s PROVE FALSE
      BY <1>0 DEF Done
    <3>1. steps[t].status \notin {"pending", "failed", "complete"}
      BY <1>0, <1>4 DEF LastIsKnown, NonePendingBut, SoleInv, Done
    <3>2. s < t
      <4>1. s <= t /\ s \in Nat /\ t \in Nat
        BY <1>0, StepsFacts
      <4> QED
        BY <4>1
    <3>3. steps[s].status = "complete"
      BY <1>0, <3>1, <3>2, PlainOrder DEF OrderInv, StartedInOrder, Reached
    <3> QED
      BY <1>0, <3>3 DEF Done
  <2> QED
    BY <1>0, <1>4, <2>1, <1>2, ContractSteps DEF Contract!StepDone, OpenStep, Open
<1> QED
  BY <1>1, <1>3, <1>4

\* A commit that pauses leaves one open question, of the step in turn.
LEMMA CommitAsks ==
  ASSUME NothingLost, TypeOK, PhaseOK, OrderInv, SoleInv, AgreeInv, NEW w \in Workers, Commit(w),
         job[w].exec.status = "paused"
  PROVE  /\ execution'.status = "paused" /\ Done' = Done
         /\ Len(interventions) + 1 \in Nat
         /\ Open' = {Len(interventions) + 1}
         /\ interventions'[Len(interventions) + 1].step = job[w].msg
         /\ steps'[job[w].msg].status = "running"
         /\ Contract!Ask(job[w].msg)
<1> DEFINE j == job[w]
           s == j.msg
           q == [step |-> s, answered |-> FALSE]
           last == Len(interventions) + 1
<1>0. /\ j.pc = "commit" /\ s \in Steps \ Done /\ \A t \in Steps \ Done : s <= t
      /\ execution.status = "running" /\ Open = {}
      /\ execution'.status = j.exec.status
      /\ steps'[s].status = j.row.status
      /\ Done' = IF j.row.status = "complete" THEN Done \cup {s} ELSE Done
  BY CommitFacts
<1>1. j.row.status = "running"
  BY <1>0 DEF PhaseOK, Phase
<1>2. interventions \in Seq(Question) /\ q \in Question /\ q.step = s /\ ~q.answered
  BY <1>0 DEF TypeOK, Question
<1>3. interventions' = Append(interventions, q)
  BY DEF Commit
<1>4. /\ Len(interventions) \in Nat /\ Len(interventions') = last
      /\ \A i \in 1..Len(interventions) : interventions'[i] = interventions[i]
      /\ interventions'[last] = q
  <2> HIDE DEF q
  <2> QED
    BY <1>2, <1>3
<1>5. Open' = {last}
  <2> HIDE DEF q
  <2> QED
    BY <1>0, <1>2, <1>4 DEF Open
<1>6. OpenStep' = s
  <2>1. (CHOOSE i \in Open' : TRUE) = last
    BY <1>5
  <2> QED
    BY <1>2, <1>4, <1>5, <2>1 DEF OpenStep
<1> QED
  BY <1>0, <1>1, <1>2, <1>4, <1>5, <1>6, ContractSteps DEF Contract!Ask

\* A commit that gives up changes neither steps completed nor questions.
LEMMA CommitFails ==
  ASSUME NothingLost, TypeOK, PhaseOK, OrderInv, SoleInv, AgreeInv, NEW w \in Workers, Commit(w),
         job[w].exec.status = "failed"
  PROVE  /\ execution'.status = "failed" /\ Done' = Done /\ UNCHANGED interventions
         /\ Contract!Fail
<1>1. /\ execution'.status = "failed" /\ execution.status = "running"
      /\ Done' = IF job[w].row.status = "complete" THEN Done \cup {job[w].msg} ELSE Done
      /\ job[w].pc = "commit"
  BY CommitFacts
<1>2. job[w].row.status = "failed"
  BY <1>1 DEF PhaseOK, Phase
<1>3. UNCHANGED interventions
  BY DEF Commit
<1> QED
  BY <1>1, <1>2, <1>3 DEF Contract!Fail, OpenStep, Open

LEMMA CommitAgrees ==
  ASSUME NothingLost, TypeOK, PhaseOK, OrderInv, SoleInv, AgreeInv, NEW w \in Workers, Commit(w)
  PROVE  RowsAgree' /\ Contract!Next
<1> DEFINE j == job[w]
           s == j.msg
<1>0. /\ j.pc = "commit" /\ s \in Steps \ Done /\ \A t \in Steps \ Done : s <= t
      /\ execution.status = "running" /\ Open = {} /\ Done # Steps
  BY CommitFacts DEF AgreeInv, RowsAgree, CompleteMeansAll
<1>1. CASE j.row.status = "complete"
  <2>1. /\ execution'.status = IF Done' = Steps THEN "complete" ELSE "running"
        /\ UNCHANGED interventions /\ Contract!StepDone(s)
    BY <1>1, CommitDone
  <2>2. Open' = {}
    BY <1>0, <2>1 DEF Open
  <2>3. CompleteMeansAll' /\ PausedMeansOneQuestion'
    BY <2>1, <2>2, CommitIndex DEF CompleteMeansAll, PausedMeansOneQuestion
  <2> QED
    BY <1>0, <2>1, <2>3, ContractSteps DEF RowsAgree, Contract!Next, Contract!Progress
<1>2. CASE j.exec.status = "paused"
  <2> DEFINE last == Len(interventions) + 1
  <2>1. /\ execution'.status = "paused" /\ Done' = Done
        /\ Open' = {last} /\ interventions'[last].step = s
        /\ steps'[s].status = "running" /\ Contract!Ask(s)
    BY <1>2, CommitAsks
  <2> HIDE DEF last
  <2>2. CompleteMeansAll' /\ PausedMeansOneQuestion'
    BY <1>0, <2>1, CommitIndex DEF CompleteMeansAll, PausedMeansOneQuestion
  <2> QED
    BY <1>0, <2>1, <2>2, ContractSteps DEF RowsAgree, Contract!Next, Contract!Progress
<1>3. CASE j.exec.status = "failed"
  <2>1. /\ execution'.status = "failed" /\ Done' = Done /\ UNCHANGED interventions
        /\ Contract!Fail
    BY <1>3, CommitFails
  <2>2. Open' = {}
    BY <1>0, <2>1 DEF Open
  <2>3. CompleteMeansAll' /\ PausedMeansOneQuestion'
    BY <1>0, <2>1, <2>2, CommitIndex DEF CompleteMeansAll, PausedMeansOneQuestion
  <2> QED
    BY <2>1, <2>3 DEF RowsAgree, Contract!Next, Contract!Progress
<1> QED
  BY <1>0, <1>1, <1>2, <1>3 DEF PhaseOK, Phase

-----------------------------------------------------------------------------
LEMMA AnswerAgrees ==
  ASSUME TypeOK, SoleInv, AgreeInv, NEW u \in Users, RespondCommit(u)
  PROVE  RowsAgree' /\ Open' = {} /\ Contract!Answer
<1> DEFINE i == responder[u].item
<1>1. execution.status = "paused" /\ i \in Open /\ i \in 1..Len(interventions)
  BY DEF RespondCommit, SoleInv, AgreeInv, Open
<1>2. /\ execution' = [execution EXCEPT !.status = "running"] /\ execution \in ExecRow
      /\ interventions' = [interventions EXCEPT ![i] = [interventions[i] EXCEPT !.answered = TRUE]]
      /\ UNCHANGED steps /\ interventions \in Seq(Question)
  BY DEF RespondCommit, TypeOK
<1>3. interventions[i] \in Question
  BY <1>1, <1>2, ElementType
<1>4. Open = {i}
  BY <1>1 DEF AgreeInv, RowsAgree, PausedMeansOneQuestion
<1>5. Open' = {}
  <2> DEFINE e == [interventions[i] EXCEPT !.answered = TRUE]
  <2>1. e.answered = TRUE /\ interventions' = [interventions EXCEPT ![i] = e]
    BY <1>2, <1>3 DEF Question
  <2> HIDE DEF e, i
  <2>2. /\ Len(interventions') = Len(interventions) /\ interventions'[i] = e
        /\ \A k \in 1..Len(interventions) : k # i => interventions'[k] = interventions[k]
    BY <1>1, <1>2, <2>1
  <2> QED
    BY <1>1, <1>4, <2>1, <2>2 DEF Open
<1>6. execution'.status = "running" /\ execution'.index = execution.index /\ Done' = Done
  BY <1>2 DEF ExecRow, Done
<1>7. Done # Steps
  BY <1>1 DEF AgreeInv, RowsAgree, CompleteMeansAll
<1>8. CompleteMeansAll' /\ PausedMeansOneQuestion'
  BY <1>2, <1>5, <1>6, <1>7 DEF CompleteMeansAll, PausedMeansOneQuestion, AgreeInv, RowsAgree
<1> QED
  BY <1>1, <1>5, <1>6, <1>8 DEF RowsAgree, Contract!Answer, OpenStep

LEMMA StartAgrees ==
  ASSUME TypeOK, SoleInv, AgreeInv, StartCommit
  PROVE  RowsAgree' /\ Contract!Start
<1>1. /\ execution.status = "none" /\ execution.index = 0
      /\ execution'.status = "running" /\ execution'.index = 0
      /\ UNCHANGED <<steps, interventions>>
  BY DEF StartCommit, NewExec, SoleInv, AgreeInv
<1>2. Done' = Done /\ Open' = Open /\ OpenStep' = OpenStep
  BY <1>1 DEF Done, Open, OpenStep
<1>3. CompleteMeansAll' /\ PausedMeansOneQuestion'
  BY <1>1, <1>2 DEF AgreeInv, RowsAgree, CompleteMeansAll, PausedMeansOneQuestion
<1> QED
  BY <1>1, <1>2, <1>3 DEF RowsAgree, Contract!Start

LEMMA AgreeStep ==
  ASSUME NothingLost, OneWorker, OneUser, TypeOK, PhaseOK, OrderInv, SoleInv, AgreeInv, [Next]_vars
  PROVE  AgreeInv' /\ [Contract!Next]_(Contract!vars)
<1>0. job \in [Workers -> Job] /\ responder \in [Users -> Request]
  BY DEF TypeOK
<1>a. ASSUME UNCHANGED dbVars
      PROVE  /\ RowsAgree' /\ Open' = Open /\ execution' = execution
             /\ \A s \in Steps : NonePendingBut(s)' <=> NonePendingBut(s)
             /\ UNCHANGED Contract!vars
  BY <1>a DEF dbVars, AgreeInv, RowsAgree, CompleteMeansAll, PausedMeansOneQuestion, Done, Open,
              NonePendingBut, Contract!vars, OpenStep
<1>1. CASE UNCHANGED vars
  <2>1. UNCHANGED dbVars /\ UNCHANGED <<job, responder>>
    BY <1>1 DEF vars, dbVars
  <2> QED
    BY <1>a, <2>1 DEF dbVars, AgreeInv, Accounted, Working, LastIsKnown, NonePendingBut
<1>2. CASE Start
  <2>1. UNCHANGED <<steps, job, responder>> /\ execution.status = "none"
    BY <1>2 DEF Start, StartSend, StartCommit, StartAbort, SoleInv, dbVars
  <2>2. \A w \in Workers : ~Working(w)
    BY <2>1 DEF SoleInv, Current
  <2>3. \A u \in Users : responder[u].pc = "idle"
    BY <2>1 DEF SoleInv
  <2>4. CASE StartCommit
    BY <2>1, <2>2, <2>3, <2>4, StartAgrees DEF AgreeInv, Working, StartCommit, NewExec, Contract!Next
  <2>5. CASE UNCHANGED dbVars
    BY <1>a, <2>1, <2>2, <2>3, <2>5 DEF AgreeInv, Working
  <2> QED
    BY <1>2, <2>4, <2>5 DEF Start, StartSend, StartAbort
<1>3. CASE \E u \in Users : Respond(u)
  <2> PICK u \in Users : Respond(u)
    BY <1>3
  <2>1. UNCHANGED job /\ execution.status = "paused"
    BY DEF Respond, RespondCheck, RespondSend, RespondCommit, RespondAbort, SoleInv
  <2>2. \A w \in Workers : ~Working(w)
    BY <2>1 DEF SoleInv, Current
  <2>3. \A v \in Users : v = u
    BY DEF OneUser
  <2>4. CASE RespondCommit(u)
    <3>1. responder'[u].pc = "idle" /\ execution'.status = "running"
      BY <1>0, <2>4 DEF RespondCommit, TypeOK, ExecRow
    <3> QED
      BY <2>1, <2>2, <2>3, <2>4, <3>1, AnswerAgrees DEF AgreeInv, Working, Contract!Next
  <2>5. CASE ~RespondCommit(u)
    <3>1. UNCHANGED dbVars
      BY <2>5 DEF Respond, RespondCheck, RespondSend, RespondAbort
    <3>2. responder'[u].pc # "idle" => responder'[u].item \in Open
      BY <1>0, <2>5 DEF Respond, RespondCheck, RespondSend, RespondAbort, Open, AgreeInv, Request
    <3> QED
      BY <1>a, <2>1, <2>2, <2>3, <3>1, <3>2 DEF AgreeInv, Working
  <2> QED
    BY <2>4, <2>5
<1>4. CASE \E w \in Workers, s \in Steps : Receive(w, s)
  <2> PICK w \in Workers, s \in Steps : Receive(w, s)
    BY <1>4
  <2>1. UNCHANGED dbVars /\ UNCHANGED responder
    BY DEF Receive
  <2>2. \A v \in Workers : v = w
    BY DEF OneWorker
  <2>3. Working(w)' => Accounted(w)'
    <3> SUFFICES ASSUME ~Skips(s) PROVE Accounted(w)'
      BY ReceiveEffect DEF Working
    <3>1. /\ job'[w].pc = "loaded" /\ job'[w].baseIndex = execution.index
          /\ job'[w].exec.index = execution.index
      BY <1>0 DEF Receive, IdleJob
    <3> QED
      BY <2>1, <3>1 DEF Accounted, IndexCounted, LastIsKnown, dbVars
  <2> QED
    BY <1>a, <2>1, <2>2, <2>3 DEF AgreeInv
<1>5. CASE \E w \in Workers : Attempt(w)
  <2> PICK w \in Workers : Attempt(w)
    BY <1>5
  <2>1. UNCHANGED dbVars /\ UNCHANGED responder
    BY DEF Attempt, BeginAttempt, Reply, AttemptFails, GiveUp, Pause, Finish, CompleteAndSend,
           CompleteSendFails, CompleteLast, dbVars
  <2>2. \A v \in Workers : v = w
    BY DEF OneWorker
  <2>3. Accounted(w)
    BY AttemptEffect DEF Working, PhaseOK, AgreeInv
  <2>4. /\ job'[w].baseIndex = execution.index /\ IndexCounted(job'[w]) /\ LastIsKnown(job'[w])
    BY <2>3, AttemptIndex, AttemptKnows DEF Accounted
  <2>5. Accounted(w)'
    BY <2>1, <2>4 DEF Accounted, IndexCounted, LastIsKnown, NonePendingBut, dbVars
  <2> QED
    BY <1>a, <2>1, <2>2, <2>5 DEF AgreeInv
<1>6. CASE \E w \in Workers : Commit(w)
  <2> PICK w \in Workers : Commit(w)
    BY <1>6
  <2>1. RowsAgree' /\ Contract!Next
    BY CommitAgrees
  <2>2. \A v \in Workers : v = w
    BY DEF OneWorker
  <2>3. UNCHANGED responder /\ job'[w].pc = "ack"
    BY <1>0 DEF Commit, IdleJob
  <2>4. execution.status = "running" /\ execution'.status # "none"
    BY CommitFacts DEF PhaseOK, Phase
  <2>5. \A u \in Users : responder[u].pc = "idle"
    BY <2>4 DEF SoleInv
  <2> QED
    BY <2>1, <2>2, <2>3, <2>4, <2>5 DEF AgreeInv, Working
<1>7. CASE \E w \in Workers : Leave(w) /\ ~Commit(w)
  <2> PICK w \in Workers : Leave(w) /\ ~Commit(w)
    BY <1>7
  <2>1. UNCHANGED dbVars /\ job'[w].pc \in {"idle", "ack"}
    BY LeaveEffect
  <2>2. UNCHANGED responder
    BY DEF Leave, Ack, Abort, TornCommit, AckLost
  <2>3. \A v \in Workers : v = w
    BY DEF OneWorker
  <2> QED
    BY <1>a, <2>1, <2>2, <2>3 DEF AgreeInv, Working
<1>8. CASE \E w \in Workers : VisibilityTimeout(w)
  <2> PICK w \in Workers : VisibilityTimeout(w)
    BY <1>8
  <2>1. UNCHANGED dbVars /\ UNCHANGED responder
    BY DEF VisibilityTimeout
  <2>2. /\ job'[w].pc = job[w].pc /\ job'[w].msg = job[w].msg /\ job'[w].row = job[w].row
        /\ job'[w].exec = job[w].exec /\ job'[w].baseIndex = job[w].baseIndex
    BY <1>0 DEF VisibilityTimeout, Job
  <2>3. \A v \in Workers : v = w
    BY DEF OneWorker
  <2>4. Working(w)' => Accounted(w)'
    BY <2>1, <2>2 DEF Working, Accounted, IndexCounted, LastIsKnown, NonePendingBut, dbVars, AgreeInv
  <2> QED
    BY <1>a, <2>1, <2>3, <2>4 DEF AgreeInv
<1> QED
  BY <1>1, <1>2, <1>3, <1>4, <1>5, <1>6, <1>7, <1>8, StepCases

LEMMA AgreeCorrect ==
  ASSUME OneWorker, OneUser, MaxTorn = 0
  PROVE  Spec => [](NothingLost /\ TypeOK /\ PhaseOK /\ OrderInv /\ SoleInv /\ AgreeInv)
<1>1. NothingLost /\ TypeOK /\ PhaseOK /\ OrderInv /\ SoleInv /\ AgreeInv /\ [Next]_vars => AgreeInv' /\ SoleInv'
  BY AgreeStep, SoleStep
<1>2. TypeOK /\ PhaseOK /\ OrderInv /\ [Next]_vars => OrderInv'
  BY OrderStep
<1>3. Init => NothingLost
  BY DEF Init, NothingLost
<1>4. TypeOK /\ NothingLost /\ [Next]_vars => NothingLost'
  BY NothingIsLost
<1> QED
  BY <1>1, <1>2, <1>3, <1>4, AgreeInit, SoleInit, OrderInit, TypeInit, TypeStep, PhaseInit, PhaseStep, PTL DEF Spec

\* With one worker, one user and no torn commit the execution row tells the truth:
\* it is complete exactly when all steps are, paused exactly while one question is
\* open, of the first step that is not complete, and its index counts the steps.
THEOREM RowsAgreeCorrect ==
  ASSUME OneWorker, OneUser, MaxTorn = 0
  PROVE  Spec => []RowsAgree
<1>1. AgreeInv => RowsAgree
  BY DEF AgreeInv
<1> QED
  BY <1>1, AgreeCorrect, PTL

\* Under the same conditions the engine implements the safety part of its
\* contract: each commit finishes the next step, asks for it, answers, fails or
\* starts, and every other step of the system is invisible to the user.
THEOREM ContractCorrect ==
  ASSUME OneWorker, OneUser, MaxTorn = 0
  PROVE  Spec => ContractSafety
<1>1. Init => Contract!Init
  BY DEF Init, Contract!Init, Done, OpenStep, Open
<1>2. NothingLost /\ TypeOK /\ PhaseOK /\ OrderInv /\ SoleInv /\ AgreeInv /\ [Next]_vars => [Contract!Next]_(Contract!vars)
  BY AgreeStep
<1> QED
  BY <1>1, <1>2, AgreeCorrect, PTL DEF Spec, ContractSafety, Contract!SafeSpec

=============================================================================
