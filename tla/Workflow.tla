------------------------------ MODULE Workflow ------------------------------
(***************************************************************************)
(* One execution of an automated workflow: the API requests that start it  *)
(* and answer its interventions, the WorkflowExecution SQS queue, and the  *)
(* workers that run one step (thread) per message.                         *)
(*                                                                         *)
(* Every request and every message is handled in one database transaction  *)
(* whose writes become visible only at its commit (core/database.py,       *)
(* workers/workflow_worker.py), while a message is sent to the queue in    *)
(* the middle of the transaction and is visible at once.  The committed    *)
(* rows are the variables execution, steps and interventions; a worker's   *)
(* uncommitted rows live in its job.  Executions share no rows, so one of  *)
(* them is enough.                                                         *)
(***************************************************************************)
EXTENDS Integers, Sequences, FiniteSets

CONSTANTS
  Workers,          \* processes polling the queue (ADR 001 deploys one)
  Users,            \* concurrent requests to the respond endpoint
  N,                \* length of the template's thread_sequence
  PromptCount,      \* PromptCount[s]: activity prompts of step s, 0 if none
  MaxRetries,       \* settings.workflow_max_retries
  MaxInterventions, \* bound: interventions the model asks for
  MaxAborts,        \* bound: transactions lost before their message is sent,
                    \* and workers lost before they delete their message
  MaxTorn,          \* bound: worker transactions lost after it was sent
  MaxTimeouts       \* bound: visibility timeouts under a working worker

Steps == 1..N

ASSUME WorkflowAssumption ==
  /\ N \in Nat \ {0}
  /\ PromptCount \in [Steps -> Nat]
  /\ MaxRetries \in Nat \ {0}
  /\ MaxInterventions \in Nat
  /\ MaxAborts \in Nat
  /\ MaxTorn \in Nat
  /\ MaxTimeouts \in Nat

VARIABLES
  execution,      \* committed workflow_executions row
  steps,          \* committed workflow_thread_executions rows
  interventions,  \* committed workflow_interventions rows, oldest first
  queue,          \* queue[s]: visible messages naming step s
  starter,        \* the request POST /tasks/{task_id}/workflows
  responder,      \* the requests POST .../interventions/{id}/respond
  job,            \* what each worker is doing
  faults          \* how much of each fault bound is used, and (lost) the steps
                  \* whose completion was lost after the next step was sent

vars == <<execution, steps, interventions, queue, starter, responder, job, faults>>
dbVars == <<execution, steps, interventions>>

-----------------------------------------------------------------------------
(***************************************************************************)
(* Rows, and the state of a worker.  base is the part of the loaded rows   *)
(* that the ORM compares with when it flushes, row and exec are the rows   *)
(* as the transaction has changed them.  linked stands for thread_id IS    *)
(* NOT NULL; threads counts the Thread rows created for the step.          *)
(***************************************************************************)
StepStatus == {"pending", "running", "complete", "failed"}
ExecStatus == {"running", "paused", "complete", "failed"}

NewRow == [status |-> "pending", retries |-> 0, done |-> 0, linked |-> FALSE]
NewExec == [status |-> "running", index |-> 0]

IdleJob ==
  [pc |-> "idle", msg |-> 1, leased |-> FALSE, execLock |-> FALSE,
   asked |-> FALSE, plain |-> FALSE,
   baseIndex |-> 0, base |-> NewRow, row |-> NewRow, exec |-> NewExec]

\* Mutation of Loaded: the thread of an earlier receipt is not found again.
Loaded_NoThread(s) ==
  [status |-> steps[s].status, retries |-> steps[s].retries,
   done |-> steps[s].done, linked |-> FALSE]

\* The row of step s without its thread count, as session.get loads it.
Loaded(s) ==
  [status |-> steps[s].status, retries |-> steps[s].retries,
   done |-> steps[s].done, linked |-> steps[s].linked]

Send(s) == queue' = [queue EXCEPT ![s] = @ + 1]

Init ==
  /\ execution = [status |-> "none", index |-> 0]
  /\ steps = [s \in Steps |->
       [status |-> "pending", retries |-> 0, done |-> 0, linked |-> FALSE, threads |-> 0]]
  /\ interventions = << >>
  /\ queue = [s \in Steps |-> 0]
  /\ starter = "idle"
  /\ responder = [u \in Users |-> [pc |-> "idle", item |-> 0]]
  /\ job = [w \in Workers |-> IdleJob]
  /\ faults = [aborts |-> 0, torn |-> 0, timeouts |-> 0, lost |-> {}]

-----------------------------------------------------------------------------
(***************************************************************************)
(* Row locks.  An UPDATE holds its row until the transaction ends: the     *)
(* first flush of an attempt takes the step's row, and a flush that        *)
(* changes the execution takes its row.                                    *)
(***************************************************************************)
HoldsStep(w) == job[w].pc \in {"prompting", "retrying", "pausing", "finishing", "failing", "commit"}

StepFree(w) == \A v \in Workers \ {w} : HoldsStep(v) => job[v].msg # job[w].msg

ExecFree ==
  /\ \A u \in Users : responder[u].pc # "sent"
  /\ \A v \in Workers : ~job[v].execLock

ExecFreeFor(w) ==
  /\ \A u \in Users : responder[u].pc # "sent"
  /\ \A v \in Workers \ {w} : ~job[v].execLock

-----------------------------------------------------------------------------
(***************************************************************************)
(* Start (WorkflowEngine.start under get_db): the rows are flushed and the *)
(* first step is sent, then the request's transaction commits or is lost.  *)
(***************************************************************************)
StartSend ==
  /\ starter = "idle"
  /\ starter' = "sent"
  /\ Send(1)
  /\ UNCHANGED <<dbVars, responder, job, faults>>

StartCommit ==
  /\ starter = "sent"
  /\ starter' = "done"
  /\ execution' = NewExec
  /\ UNCHANGED <<steps, interventions, queue, responder, job, faults>>

StartAbort ==
  /\ starter = "sent"
  /\ faults.aborts < MaxAborts
  /\ starter' = "aborted"
  /\ faults' = [faults EXCEPT !.aborts = @ + 1]
  /\ UNCHANGED <<dbVars, queue, responder, job>>

-----------------------------------------------------------------------------
(***************************************************************************)
(* Respond (WorkflowEngine.resume under get_db): the checks read committed *)
(* rows without locking them; the flush waits for the row locks and writes *)
(* without checking again; the message is sent before the commit.          *)
(***************************************************************************)
RespondCheck(u, i) ==
  /\ responder[u].pc = "idle"
  /\ execution.status = "paused"
  /\ ~interventions[i].answered
  /\ responder' = [responder EXCEPT ![u] = [pc |-> "checked", item |-> i]]
  /\ UNCHANGED <<dbVars, queue, starter, job, faults>>

\* Mutation: the step is not enqueued again.
RespondSend_Silent(u) ==
  /\ responder[u].pc = "checked"
  /\ ExecFree
  /\ responder' = [responder EXCEPT ![u].pc = "sent"]
  /\ UNCHANGED <<dbVars, queue, starter, job, faults>>

RespondSend(u) ==
  /\ responder[u].pc = "checked"
  /\ ExecFree
  /\ responder' = [responder EXCEPT ![u].pc = "sent"]
  /\ Send(interventions[responder[u].item].step)
  /\ UNCHANGED <<dbVars, starter, job, faults>>

\* Mutation: the execution is left paused.
RespondCommit_StaysPaused(u) ==
  /\ responder[u].pc = "sent"
  /\ responder' = [responder EXCEPT ![u] = [pc |-> "idle", item |-> 0]]
  /\ interventions' = [interventions EXCEPT ![responder[u].item].answered = TRUE]
  /\ UNCHANGED <<execution, steps, queue, starter, job, faults>>

RespondCommit(u) ==
  /\ responder[u].pc = "sent"
  /\ responder' = [responder EXCEPT ![u] = [pc |-> "idle", item |-> 0]]
  /\ interventions' = [interventions EXCEPT ![responder[u].item].answered = TRUE]
  /\ execution' = [execution EXCEPT !.status = "running"]
  /\ UNCHANGED <<steps, queue, starter, job, faults>>

RespondAbort(u) ==
  /\ responder[u].pc \in {"checked", "sent"}
  /\ faults.aborts < MaxAborts
  /\ responder' = [responder EXCEPT ![u] = [pc |-> "idle", item |-> 0]]
  /\ faults' = [faults EXCEPT !.aborts = @ + 1]
  /\ UNCHANGED <<dbVars, queue, starter, job>>

-----------------------------------------------------------------------------
(***************************************************************************)
(* A worker receives a message and execute_thread loads the rows.  A       *)
(* message for an execution that is not visible, not running, or for a     *)
(* step already complete is finished at once and deleted.                  *)
(***************************************************************************)
\* Mutation: the early return for an execution that is not running is missing.
Skips_AnyStatus(s) == steps[s].status = "complete"

Skips(s) == execution.status # "running" \/ steps[s].status = "complete"

Receive(w, s) ==
  /\ job[w].pc = "idle"
  /\ queue[s] > 0
  /\ queue' = [queue EXCEPT ![s] = @ - 1]
  /\ job' = [job EXCEPT ![w] =
       [IdleJob EXCEPT
          !.pc = IF Skips(s) THEN "ack" ELSE "loaded",
          !.msg = s,
          !.leased = TRUE,
          !.baseIndex = IF Skips(s) THEN 0 ELSE execution.index,
          !.base = IF Skips(s) THEN NewRow ELSE Loaded(s),
          !.row = IF Skips(s) THEN NewRow ELSE Loaded(s),
          !.exec = IF Skips(s) THEN NewExec
                   ELSE [status |-> "running", index |-> execution.index]]]
  /\ UNCHANGED <<dbVars, starter, responder, faults>>

\* An empty poll: the worker goes round its loop.
PollEmpty(w) ==
  /\ job[w].pc = "idle"
  /\ \A s \in Steps : queue[s] = 0
  /\ UNCHANGED vars

(***************************************************************************)
(* One attempt (_execute_thread_once).  The first flush marks the step     *)
(* running and takes its row; the thread is created or found again; the    *)
(* prompts already answered are skipped.                                   *)
(***************************************************************************)
PromptsLeft(s, done) == PromptCount[s] = 0 \/ done < PromptCount[s]

BeginAttempt(w) ==
  /\ job[w].pc \in {"loaded", "retrying"}
  /\ StepFree(w)
  /\ job' = [job EXCEPT
       ![w].pc = IF PromptsLeft(job[w].msg, job[w].row.done) THEN "prompting" ELSE "finishing",
       ![w].row.status = "running",
       ![w].row.linked = TRUE]
  /\ UNCHANGED <<dbVars, queue, starter, responder, faults>>

(***************************************************************************)
(* The model answers one prompt.  reply is "plain", "ask" (the text holds  *)
(* an intervention block) or "unsure" (a memory entry of low confidence).  *)
(* _latest_assistant_content orders by created_at, which the database sets *)
(* to the start time of the transaction: the replies of one transaction    *)
(* tie, and any of them may be the text that is searched for a block.      *)
(***************************************************************************)
Detects(reply, asked, plain) ==
  {d \in BOOLEAN :
     \/ reply = "unsure" /\ d
     \/ reply # "unsure" /\ d /\ asked
     \/ reply # "unsure" /\ ~d /\ plain}

Reply(w, reply) ==
  LET j == job[w]
      asked == j.asked \/ reply = "ask"
      plain == j.plain \/ reply # "ask"
      last == j.row.done + 1 >= PromptCount[j.msg]
  IN
  /\ j.pc = "prompting"
  /\ reply # "plain" => Len(interventions) < MaxInterventions
  /\ \E detected \in Detects(reply, asked, plain) :
       job' = [job EXCEPT ![w] =
         [j EXCEPT
            !.asked = asked,
            !.plain = plain,
            !.pc = IF detected THEN "pausing" ELSE IF last THEN "finishing" ELSE "prompting",
            !.row.done = IF detected \/ PromptCount[j.msg] = 0 THEN @ ELSE @ + 1]]
  /\ UNCHANGED <<dbVars, queue, starter, responder, faults>>

\* The except branch of execute_thread: count the failure, then retry or give up.
\* An attempt fails when the model's stream raises, when the thread cannot be set
\* up, or when the activity supports automation but has no prompts.
\* Mutations: a failure that is not counted, a threshold one too high, and a retry
\* that starts again from the first prompt.
Failed_Uncounted(j) == [j EXCEPT !.row.status = "pending", !.pc = "retrying"]

Failed_OneMore(j) ==
  [j EXCEPT
     !.row.retries = @ + 1,
     !.row.status = IF j.row.retries + 1 > MaxRetries THEN "failed" ELSE "pending",
     !.pc = IF j.row.retries + 1 > MaxRetries THEN "failing" ELSE "retrying"]

Failed_FromTheTop(j) ==
  [j EXCEPT
     !.row.retries = @ + 1,
     !.row.done = 0,
     !.row.status = IF j.row.retries + 1 >= MaxRetries THEN "failed" ELSE "pending",
     !.pc = IF j.row.retries + 1 >= MaxRetries THEN "failing" ELSE "retrying"]

Failed(j) ==
  [j EXCEPT
     !.row.retries = @ + 1,
     !.row.status = IF j.row.retries + 1 >= MaxRetries THEN "failed" ELSE "pending",
     !.pc = IF j.row.retries + 1 >= MaxRetries THEN "failing" ELSE "retrying"]

AttemptFails(w) ==
  /\ job[w].pc = "prompting"
  /\ job' = [job EXCEPT ![w] = Failed(job[w])]
  /\ UNCHANGED <<dbVars, queue, starter, responder, faults>>

GiveUp(w) ==
  /\ job[w].pc = "failing"
  /\ ExecFreeFor(w)
  /\ job' = [job EXCEPT ![w].pc = "commit", ![w].execLock = TRUE, ![w].exec.status = "failed"]
  /\ UNCHANGED <<dbVars, queue, starter, responder, faults>>

Pause(w) ==
  /\ job[w].pc = "pausing"
  /\ ExecFreeFor(w)
  /\ job' = [job EXCEPT ![w].pc = "commit", ![w].execLock = TRUE, ![w].exec.status = "paused"]
  /\ UNCHANGED <<dbVars, queue, starter, responder, faults>>

(***************************************************************************)
(* _complete_thread_step: the step is complete, the execution's index      *)
(* moves, and the lowest pending step is sent; if there is none the        *)
(* execution is complete.  The query sees the transaction's own writes.    *)
(***************************************************************************)
\* Mutations: the step after the next one is looked for; the last pending step is
\* taken; completion does not look for pending steps.
PendingAfter_SkipsOne(w) ==
  {t \in Steps : t > job[w].msg + 1 /\ steps[t].status = "pending"}

PendingAfter(w) == {t \in Steps \ {job[w].msg} : steps[t].status = "pending"}

NextPending_Last(w, t) == t \in PendingAfter(w) /\ \A o \in PendingAfter(w) : o <= t

NextPending(w, t) == t \in PendingAfter(w) /\ \A o \in PendingAfter(w) : t <= o

Completed(j) ==
  [j EXCEPT !.row.status = "complete", !.exec.index = j.msg, !.execLock = TRUE]

CompleteAndSend(w, t) ==
  /\ job[w].pc = "finishing"
  /\ ExecFreeFor(w)
  /\ NextPending(w, t)
  /\ Send(t)
  /\ job' = [job EXCEPT ![w] = [Completed(job[w]) EXCEPT !.pc = "commit"]]
  /\ UNCHANGED <<dbVars, starter, responder, faults>>

\* The send raises: the retry loop treats the attempt as failed.
CompleteSendFails(w) ==
  /\ job[w].pc = "finishing"
  /\ ExecFreeFor(w)
  /\ PendingAfter(w) # {}
  /\ faults.aborts < MaxAborts
  /\ faults' = [faults EXCEPT !.aborts = @ + 1]
  /\ job' = [job EXCEPT ![w] = Failed(Completed(job[w]))]
  /\ UNCHANGED <<dbVars, queue, starter, responder>>

CompleteLast_Eager(w) ==
  /\ job[w].pc = "finishing"
  /\ ExecFreeFor(w)
  /\ job' = [job EXCEPT ![w] =
       [Completed(job[w]) EXCEPT !.pc = "commit", !.exec.status = "complete"]]
  /\ UNCHANGED <<dbVars, queue, starter, responder, faults>>

CompleteLast(w) ==
  /\ job[w].pc = "finishing"
  /\ ExecFreeFor(w)
  /\ PendingAfter(w) = {}
  /\ job' = [job EXCEPT ![w] =
       [Completed(job[w]) EXCEPT !.pc = "commit", !.exec.status = "complete"]]
  /\ UNCHANGED <<dbVars, queue, starter, responder, faults>>

-----------------------------------------------------------------------------
(***************************************************************************)
(* The end of a worker's transaction.  An UPDATE carries the columns that  *)
(* differ from the loaded row; the status column is also written whenever  *)
(* an attempt failed or the loaded step was not already running.           *)
(***************************************************************************)
Flushed(old, new, current) == IF new # old THEN new ELSE current

StatusWritten(j) ==
  j.base.status # "running" \/ j.row.retries # j.base.retries \/ j.row.status # j.base.status

Commit(w) ==
  LET j == job[w]
      s == j.msg
  IN
  /\ j.pc = "commit"
  /\ steps' = [steps EXCEPT ![s] =
       [status  |-> IF StatusWritten(j) THEN j.row.status ELSE @.status,
        retries |-> Flushed(j.base.retries, j.row.retries, @.retries),
        done    |-> Flushed(j.base.done, j.row.done, @.done),
        linked  |-> @.linked \/ j.row.linked,
        threads |-> IF j.base.linked THEN @.threads ELSE @.threads + 1]]
  /\ execution' =
       [status |-> Flushed("running", j.exec.status, execution.status),
        index  |-> Flushed(j.baseIndex, j.exec.index, execution.index)]
  /\ interventions' = IF j.exec.status = "paused"
                      THEN Append(interventions, [step |-> s, answered |-> FALSE])
                      ELSE interventions
  /\ job' = [job EXCEPT ![w] =
       [IdleJob EXCEPT !.pc = "ack", !.msg = s, !.leased = j.leased]]
  /\ UNCHANGED <<queue, starter, responder, faults>>

\* Rolled back, the message keeps its place: it becomes visible again.
GivesBack(w) ==
  /\ queue' = IF job[w].leased THEN [queue EXCEPT ![job[w].msg] = @ + 1] ELSE queue
  /\ job' = [job EXCEPT ![w] = IdleJob]

\* The next step's message is out, but the transaction that sent it is not over.
SentUncommitted(w) == job[w].pc = "commit" /\ job[w].exec.status = "running"

\* A crash, or an exception the retry loop does not survive.
Abort(w) ==
  /\ job[w].pc \notin {"idle", "ack"}
  /\ ~SentUncommitted(w)
  /\ faults.aborts < MaxAborts
  /\ faults' = [faults EXCEPT !.aborts = @ + 1]
  /\ GivesBack(w)
  /\ UNCHANGED <<dbVars, starter, responder>>

\* The same, after the next step was sent: the message outlives the rollback.
TornCommit(w) ==
  /\ SentUncommitted(w)
  /\ faults.torn < MaxTorn
  /\ faults' = [faults EXCEPT !.torn = @ + 1, !.lost = @ \cup {job[w].msg}]
  /\ GivesBack(w)
  /\ UNCHANGED <<dbVars, starter, responder>>

\* The delete.  If the visibility timeout has passed the receipt is stale and the
\* copy stays; a delete that still succeeds is a timeout that did not happen.
Ack(w) ==
  /\ job[w].pc = "ack"
  /\ job' = [job EXCEPT ![w] = IdleJob]
  /\ UNCHANGED <<dbVars, queue, starter, responder, faults>>

AckLost(w) ==
  /\ job[w].pc = "ack"
  /\ faults.aborts < MaxAborts
  /\ faults' = [faults EXCEPT !.aborts = @ + 1]
  /\ GivesBack(w)
  /\ UNCHANGED <<dbVars, starter, responder>>

\* The visibility timeout passes while the worker is still at work.
VisibilityTimeout(w) ==
  /\ job[w].pc # "idle"
  /\ job[w].leased
  /\ faults.timeouts < MaxTimeouts
  /\ faults' = [faults EXCEPT !.timeouts = @ + 1]
  /\ job' = [job EXCEPT ![w].leased = FALSE]
  /\ Send(job[w].msg)
  /\ UNCHANGED <<dbVars, starter, responder>>

-----------------------------------------------------------------------------
Start == StartSend \/ StartCommit \/ StartAbort

Respond(u) ==
  \/ \E i \in 1..Len(interventions) : RespondCheck(u, i)
  \/ RespondSend(u)
  \/ RespondCommit(u)
  \/ RespondAbort(u)

Finish(w) == (\E t \in Steps : CompleteAndSend(w, t)) \/ CompleteSendFails(w) \/ CompleteLast(w)

Work(w) ==
  \/ \E s \in Steps : Receive(w, s)
  \/ BeginAttempt(w)
  \/ \E reply \in {"plain", "ask", "unsure"} : Reply(w, reply)
  \/ AttemptFails(w)
  \/ GiveUp(w)
  \/ Pause(w)
  \/ Finish(w)
  \/ Commit(w)
  \/ Ack(w)

Disturb(w) == Abort(w) \/ TornCommit(w) \/ AckLost(w) \/ VisibilityTimeout(w)

Next ==
  \/ Start
  \/ \E u \in Users : Respond(u)
  \/ \E w \in Workers : Work(w) \/ PollEmpty(w) \/ Disturb(w)

Spec == Init /\ [][Next]_vars

(***************************************************************************)
(* Fairness.  The worker process polls and works for ever (run_worker_async*)
(* restarts under ECS), Postgres grants a lock that is free, and a request *)
(* that has begun ends.  Nothing says that a user starts a workflow or     *)
(* answers a question, and no fault has to happen.                         *)
(***************************************************************************)
Fairness ==
  /\ WF_vars(StartCommit \/ StartAbort)
  /\ \A u \in Users : WF_vars(RespondSend(u) \/ RespondCommit(u) \/ RespondAbort(u))
  /\ \A w \in Workers : WF_vars(Work(w))

FairSpec == Spec /\ Fairness

(***************************************************************************)
(* The queue never delivers a message before the transaction that sent it  *)
(* is over.  Nothing in the code ensures this: it is the assumption under  *)
(* which no message is thrown away too early.                              *)
(***************************************************************************)
InDoubt(s) ==
  \/ s = 1 /\ starter = "sent"
  \/ \E u \in Users : responder[u].pc = "sent" /\ interventions[responder[u].item].step = s
  \/ \E v \in Workers : SentUncommitted(v)

TimelyDelivery ==
  \A w \in Workers :
    job[w].pc = "idle" /\ job'[w].pc # "idle" => ~InDoubt(job'[w].msg)

TimelySpec == Init /\ [][Next /\ TimelyDelivery]_vars /\ Fairness

-----------------------------------------------------------------------------
(***************************************************************************)
(* Types.                                                                  *)
(***************************************************************************)
Row == [status : StepStatus, retries : Nat, done : Nat, linked : BOOLEAN]

StepRow ==
  [status : StepStatus, retries : Nat, done : Nat, linked : BOOLEAN, threads : Nat]

ExecRow == [status : ExecStatus \cup {"none"}, index : 0..N]

Question == [step : Steps, answered : BOOLEAN]

Request == [pc : {"idle", "checked", "sent"}, item : Nat]

Job ==
  [pc : {"idle", "loaded", "retrying", "prompting", "pausing", "finishing", "failing",
         "commit", "ack"},
   msg : Steps, leased : BOOLEAN, execLock : BOOLEAN, asked : BOOLEAN, plain : BOOLEAN,
   baseIndex : 0..N, base : Row, row : Row, exec : [status : ExecStatus, index : 0..N]]

Faults == [aborts : Nat, torn : Nat, timeouts : Nat, lost : SUBSET Steps]

TypeOK ==
  /\ execution \in ExecRow
  /\ steps \in [Steps -> StepRow]
  /\ interventions \in Seq(Question)
  /\ queue \in [Steps -> Nat]
  /\ starter \in {"idle", "sent", "done", "aborted"}
  /\ responder \in [Users -> Request]
  /\ \A u \in Users : responder[u].pc # "idle" => responder[u].item \in 1..Len(interventions)
  /\ job \in [Workers -> Job]
  /\ faults \in Faults

-----------------------------------------------------------------------------
(***************************************************************************)
(* Safety.                                                                 *)
(***************************************************************************)
Working(w) == job[w].pc \notin {"idle", "ack"}

\* The order of the steps is given up from a lost completion on: step t, or one
\* before it, was finished by a transaction that ended after it had sent the next
\* step and before its commit.
Excused(t) == \E u \in faults.lost : u <= t

\* Threads execute in order: a step that has started, or that a worker is
\* executing, finds every earlier step of the thread_sequence complete.  Only a
\* transaction lost between the send of the next step and its commit breaks this,
\* and only from its own step on: the steps before it are in order all the same.
StepsInOrder ==
  /\ \A s, t \in Steps :
       t < s /\ steps[s].status # "pending" => steps[t].status = "complete" \/ Excused(t)
  /\ \A w \in Workers : \A t \in Steps :
       Working(w) /\ t < job[w].msg => steps[t].status = "complete" \/ Excused(t)

\* A message never outruns the sequence: whatever is in the queue names a step
\* whose predecessors are complete, unless its sender is still uncommitted or the
\* completion of one of them was lost.
MessagesInOrder ==
  \A s, t \in Steps :
    queue[s] > 0 /\ t < s =>
      \/ steps[t].status = "complete"
      \/ Excused(t)
      \/ \E w \in Workers : SentUncommitted(w) /\ job[w].msg = t

\* An execution is complete exactly when every step is, and
\* current_thread_index counts the completed steps; it runs one ahead only if
\* the send that follows a completion failed and the step was attempted again.
Done == {s \in Steps : steps[s].status = "complete"}

CompleteMeansAll ==
  /\ execution.status = "complete" <=> Done = Steps
  /\ Done \subseteq 1..execution.index
  /\ \A s \in 1..execution.index : s \in Done \/ (s = execution.index /\ steps[s].retries > 0)

\* An execution is paused exactly while one question is open, and the question
\* belongs to the first step that is not complete.
Open == {i \in 1..Len(interventions) : ~interventions[i].answered}

PausedMeansOneQuestion ==
  /\ execution.status = "paused" <=> Open # {}
  /\ \A i, k \in Open : i = k
  /\ \A i \in Open :
       /\ steps[interventions[i].step].status = "running"
       /\ \A t \in Steps \ Done : interventions[i].step <= t

\* What the execution row says about steps and questions is what their own
\* rows say, at every commit of requests and workers.
RowsAgree == CompleteMeansAll /\ PausedMeansOneQuestion

\* An execution fails exactly when the retries of a step are used up, and a
\* step never fails more often than workflow_max_retries.
FailedMeansExhausted ==
  /\ execution.status = "failed" <=> \E s \in Steps : steps[s].status = "failed"
  /\ \A s \in Steps : steps[s].status = "failed" <=> steps[s].retries = MaxRetries
  /\ \A s \in Steps : steps[s].retries <= MaxRetries

\* While an execution waits for an answer no worker runs any of its steps.
NoWorkWhilePaused ==
  execution.status = "paused" => \A w \in Workers : ~Working(w)

\* A step has one conversation: however often it is retried, paused or
\* redelivered, one Thread row is committed for it.
OneThreadPerStep == \A s \in Steps : steps[s].threads <= 1

\* A question in a reply stops the step: a transaction that received an
\* intervention block ends in a pause or not at all.  The code does not keep
\* this: the replies of a transaction tie in created_at, and an older one may be
\* searched for the block.
QuestionsPause ==
  \A w \in Workers :
    job[w].asked => job[w].pc = "pausing" \/ job[w].exec.status = "paused"

\* A question is answered once: a request that has passed the check of resume
\* and sent its message still finds the intervention unanswered at its commit.
\* The code does not keep this: two requests may pass the unlocked check.
AnsweredOnce ==
  \A u \in Users : responder[u].pc = "sent" => ~interventions[responder[u].item].answered

\* A paused execution is never stranded: whoever paused it, an open question is
\* left that a user can answer.
PausedIsAnswerable == execution.status = "paused" => Open # {}

\* An execution is not called complete while a step has yet to run, even when
\* workers overlap.
CompleteLeavesNonePending ==
  execution.status = "complete" => \A s \in Steps : steps[s].status # "pending"

-----------------------------------------------------------------------------
(***************************************************************************)
(* Action properties.                                                      *)
(***************************************************************************)
\* Progress is kept, whatever is redelivered: a complete or failed execution
\* and a complete step are never written again, answered prompts are never
\* asked again (the committed prompt count of a step and its retry count only
\* grow), and at most one step moves per commit.
KeepsProgress ==
  /\ execution.status \in {"complete", "failed"} => execution' = execution
  /\ \A s \in Steps : steps[s].status = "complete" => steps'[s] = steps[s]
  /\ \A s \in Steps : steps'[s].done >= steps[s].done /\ steps'[s].retries >= steps[s].retries
  /\ \A s, t \in Steps : steps'[s] # steps[s] /\ steps'[t] # steps[t] => s = t
ProgressIsKept == [][KeepsProgress]_dbVars

-----------------------------------------------------------------------------
(***************************************************************************)
(* Liveness.                                                               *)
(***************************************************************************)
\* A running execution comes to rest: it completes, fails or asks.
RunningSettles == execution.status = "running" ~> execution.status # "running"

\* An answer is acted on: the step that asked completes, fails, or asks again.
Answered(i) == i \in 1..Len(interventions) /\ interventions[i].answered

ActedOn(i) ==
  /\ i \in 1..Len(interventions)
  /\ LET s == interventions[i].step
     IN  \/ steps[s].status \in {"complete", "failed"}
         \/ \E k \in (i + 1)..Len(interventions) : interventions[k].step = s

AnswerIsActedOn == \A i \in 1..MaxInterventions : Answered(i) ~> ActedOn(i)

=============================================================================
