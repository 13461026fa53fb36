---------------------------- MODULE ThreadStream ----------------------------
(***************************************************************************)
(* One chat thread: POST /threads/{id}/stream and its event generator      *)
(* (api/v1/threads.py), the Bedrock client that persists the exchange      *)
(* (services/ai/client.py), the history part of the context assembler      *)
(* (services/ai/context.py), and the two short requests that touch the     *)
(* same rows: saving a message and marking a prompt as used.               *)
(*                                                                         *)
(* A stream runs in a session of its own, in one PostgreSQL transaction at *)
(* READ COMMITTED: it sees the rows committed so far and its own.  Rows    *)
(* carry created_at = now(), the START of their transaction, and are read  *)
(* in that order; rows of one transaction tie, in either order.            *)
(*                                                                         *)
(* A message weighs one token of history, an answer adds Cost tokens to    *)
(* the thread.  Texts, the other context blocks (IntegrityGate, Retrieval  *)
(* and Instructions model their selection) and the event format are        *)
(* abstracted away.                                                        *)
(***************************************************************************)
EXTENDS Integers, FiniteSets, FiniteSetsExt

CONSTANTS
  Streams,      \* streaming requests on the thread
  Sends,        \* requests that save a message without an answer
  Marks,        \* requests that mark the prompt as used
  Prompted,     \* the streams that were started from the activity's prompt
  HistoryLimit, \* context_history_token_limit
  Keep,         \* context_keep_recent_messages
  Cost,         \* input plus output tokens of one answer
  WarnAt,       \* token_budget times token_budget_warning_threshold
  None          \* no stream

ASSUME StreamAssumption ==
  /\ IsFiniteSet(Streams) /\ Prompted \subseteq Streams
  /\ HistoryLimit \in Nat /\ Keep \in Nat \ {0}
  /\ Cost \in Nat \ {0} /\ WarnAt \in Nat \ {0}
  /\ None \notin Streams
  /\ Streams \cap Sends = {} /\ Streams \cap Marks = {} /\ Sends \cap Marks = {}

VARIABLES
  messages,   \* committed thread_messages rows
  usage,      \* committed thread_prompt_usage rows: the requests that inserted one
  memory,     \* committed task_memory_entries: the streams that wrote theirs
  tokensUsed, \* threads.tokens_used
  budgeted,   \* whether the thread has a token budget (taken from its activity)
  rowLock,    \* the stream whose uncommitted UPDATE locks the threads row
  clock,      \* transactions started so far, the order of created_at
  pc,         \* where each request stands
  run,        \* the generator's local state, per stream
  told,       \* the final events each client received: "done", "error"
  overlapped  \* history: two streams, or a stream and a send, ran at once

vars == <<messages, usage, memory, tokensUsed, budgeted, rowLock, clock, pc,
          run, told, overlapped>>
tables == <<messages, usage, memory, tokensUsed, budgeted>>

(* A message row; covers is what a compaction summary was made from. *)
Row(by, kind, at, covers) ==
  [by |-> by, kind |-> kind, at |-> at, covers |-> covers]

Live == {"granted", "prepared", "assembling", "summarising", "asking",
         "flushing", "answered", "told"}
InTxn == Live \ {"granted"}
Ended == {"refused", "committed", "failed", "gone"}

NewRun == [fallback |-> FALSE, at |-> 0, loaded |-> 0, usesPrompt |-> FALSE,
           announced |-> FALSE, compacted |-> FALSE, remembers |-> FALSE,
           seen |-> {}, verbatim |-> {}, covered |-> {}]

Init ==
  /\ messages = {} /\ usage = {} /\ memory = {}
  /\ tokensUsed = 0
  /\ budgeted \in BOOLEAN
  /\ rowLock = None /\ clock = 0
  /\ pc = [r \in Streams \cup Sends \cup Marks |-> "idle"]
  /\ run = [s \in Streams |-> NewRun]
  /\ told = [s \in Streams |-> {}]
  /\ overlapped = FALSE

(***************************************************************************)
(* Reading the conversation.                                               *)
(***************************************************************************)
NonSummary(rows) == {m \in rows : m.kind # "summary"}
Summaries(rows) == {m \in rows : m.kind = "summary"}

(* The older rows and the last Keep rows, for every order ties may take.   *)
Windows(rows) ==
  {R \in kSubset(Keep, rows) : \A r \in R, o \in rows \ R : o.at <= r.at}

(* The summary next() finds first in created_at order. *)
FirstSummary(rows) ==
  CHOOSE m \in Summaries(rows) : \A n \in Summaries(rows) : m.at <= n.at

TooLong(rows) ==
  /\ Cardinality(NonSummary(rows)) > HistoryLimit
  /\ Cardinality(NonSummary(rows)) > Keep

WillCompact(rows) == Summaries(rows) = {} /\ TooLong(rows)

(***************************************************************************)
(* The request, before the response starts streaming.                      *)
(***************************************************************************)
BudgetWarning(used) == budgeted /\ used >= WarnAt

(* stream_ai_response: 404, the integrity gate's 409, or a response whose  *)
(* generator will use the budget warning computed here. *)
Grant(s) ==
  /\ pc[s] = "idle"
  /\ pc' = [pc EXCEPT ![s] = "granted"]
  /\ run' = [run EXCEPT ![s].fallback = BudgetWarning(tokensUsed)]
  /\ overlapped' = (overlapped \/ \E t \in Streams : pc[t] \in Live)
  /\ UNCHANGED <<tables, rowLock, clock, told>>

Refuse(s) ==
  /\ pc[s] = "idle"
  /\ pc' = [pc EXCEPT ![s] = "refused"]
  /\ UNCHANGED <<tables, rowLock, clock, run, told, overlapped>>

(***************************************************************************)
(* event_generator and AIClient.stream, from one await to the next.        *)
(***************************************************************************)
At(s, from, to) == pc[s] = from /\ pc' = [pc EXCEPT ![s] = to]

(* The session is closed and the generator's local state is gone. *)
Closes(s, how) ==
  /\ pc' = [pc EXCEPT ![s] = how]
  /\ run' = [run EXCEPT ![s] = NewRun]

(* The session opens: the thread is loaded (with the tokens_used its later *)
(* UPDATE starts from) and a prompt without a usage row gets one.  Two     *)
(* rows make scalar_one_or_none raise. *)
Begin(s) ==
  /\ ~(s \in Prompted /\ Cardinality(usage) > 1)
  /\ At(s, "granted", "prepared")
  /\ clock' = clock + 1
  /\ run' = [run EXCEPT ![s] = [@ EXCEPT
                !.at = clock', !.loaded = tokensUsed,
                !.usesPrompt = s \in Prompted /\ usage = {}]]
  /\ UNCHANGED <<tables, rowLock, told, overlapped>>

BeginFails(s) ==
  /\ s \in Prompted /\ Cardinality(usage) > 1
  /\ pc[s] = "granted"
  /\ Closes(s, "failed")
  /\ told' = [told EXCEPT ![s] = @ \cup {"error"}]
  /\ UNCHANGED <<tables, rowLock, clock, overlapped>>

(* will_compact, for the client's "Summarising earlier conversation". *)
Announce(s) ==
  /\ At(s, "prepared", "assembling")
  /\ run' = [run EXCEPT ![s].announced = WillCompact(messages)]
  /\ UNCHANGED <<tables, rowLock, clock, told, overlapped>>

(* _conversation_history: everything, or the recent window after a summary *)
(* that exists already, or after one that has to be made first.  The user  *)
(* message is inserted as soon as the context is complete. *)
Context(s, window, covered) ==
  run' = [run EXCEPT ![s] = [@ EXCEPT
            !.seen = NonSummary(messages), !.verbatim = window,
            !.covered = covered]]

Assemble(s) ==
  /\ \/ /\ ~TooLong(messages)
        /\ At(s, "assembling", "asking")
        /\ Context(s, NonSummary(messages),
                   UNION {m.covers : m \in Summaries(messages)})
     \/ /\ TooLong(messages) /\ Summaries(messages) # {}
        /\ At(s, "assembling", "asking")
        /\ \E window \in Windows(NonSummary(messages)) :
             Context(s, window, FirstSummary(messages).covers)
     \/ /\ TooLong(messages) /\ Summaries(messages) = {}
        /\ At(s, "assembling", "summarising")
        /\ \E window \in Windows(NonSummary(messages)) :
             Context(s, window, {})
  /\ UNCHANGED <<tables, rowLock, clock, told, overlapped>>

(* _summarize_messages answers for the older messages; the summary row. *)
(* Mutation: the transcript is made from the recent messages. *)
Summarise_Recent(s) ==
  /\ At(s, "summarising", "asking")
  /\ run' = [run EXCEPT ![s] = [run[s] EXCEPT
                !.compacted = TRUE, !.covered = run[s].verbatim]]
  /\ UNCHANGED <<tables, rowLock, clock, told, overlapped>>
Summarise(s) ==
  /\ At(s, "summarising", "asking")
  /\ run' = [run EXCEPT ![s] = [run[s] EXCEPT
                !.compacted = TRUE,
                !.covered = run[s].seen \ run[s].verbatim]]
  /\ UNCHANGED <<tables, rowLock, clock, told, overlapped>>

(* Bedrock's stream ends. *)
Reply(s) ==
  /\ At(s, "asking", "flushing")
  /\ UNCHANGED <<tables, rowLock, clock, run, told, overlapped>>

(* The flush of the assistant row and of tokens_used waits for the row. *)
Flush(s) ==
  /\ rowLock = None
  /\ At(s, "flushing", "answered")
  /\ rowLock' = s
  /\ UNCHANGED <<tables, clock, run, told, overlapped>>

(* _write_task_memory_entries: each fenced or inline JSON block of the      *)
(* answer that validates becomes an entry, the others are logged and       *)
(* skipped; whether any did. *)
MemoryOutcomes == BOOLEAN

(* The entries are flushed and the client hears "done"... *)
TellDone(s) ==
  /\ At(s, "answered", "told")
  /\ \E valid \in MemoryOutcomes : run' = [run EXCEPT ![s].remembers = valid]
  /\ told' = [told EXCEPT ![s] = @ \cup {"done"}]
  /\ UNCHANGED <<tables, rowLock, clock, overlapped>>

OwnRows(s) ==
  {Row(s, "user", run[s].at, {}), Row(s, "assistant", run[s].at, {})}
  \cup IF run[s].compacted
       THEN {Row(s, "summary", run[s].at, run[s].covered)} ELSE {}

(* ... before the transaction commits. *)
Commit(s) ==
  /\ At(s, "told", "committed")
  /\ messages' = messages \cup OwnRows(s)
  /\ usage' = IF run[s].usesPrompt THEN usage \cup {s} ELSE usage
  /\ memory' = IF run[s].remembers THEN memory \cup {s} ELSE memory
  /\ tokensUsed' = run[s].loaded + Cost
  /\ rowLock' = None
  /\ UNCHANGED <<budgeted, clock, run, told, overlapped>>

(* An exception anywhere in the generator, Bedrock's and the commit's      *)
(* included: roll back, then tell the client. *)
Released(s) == IF rowLock = s THEN None ELSE rowLock

(* Mutation: the handler commits what was flushed instead of rolling back. *)
Fail_Commits(s) ==
  /\ pc[s] \in InTxn
  /\ Closes(s, "failed")
  /\ told' = [told EXCEPT ![s] = @ \cup {"error"}]
  /\ messages' = IF pc[s] \in {"asking", "flushing"}
                 THEN messages \cup {Row(s, "user", run[s].at, {})}
                 ELSE messages
  /\ rowLock' = Released(s)
  /\ UNCHANGED <<usage, memory, tokensUsed, budgeted, clock, overlapped>>
(* Mutation: the tokens Bedrock charged are kept when the rest rolls back. *)
Fail_KeepsTokens(s) ==
  /\ pc[s] \in InTxn
  /\ Closes(s, "failed")
  /\ told' = [told EXCEPT ![s] = @ \cup {"error"}]
  /\ tokensUsed' = run[s].loaded + Cost
  /\ rowLock' = Released(s)
  /\ UNCHANGED <<messages, usage, memory, budgeted, clock, overlapped>>
(* Mutation: no rollback, the session and its row lock stay open. *)
Fail_Leaks(s) ==
  /\ pc[s] \in InTxn
  /\ Closes(s, "failed")
  /\ told' = [told EXCEPT ![s] = @ \cup {"error"}]
  /\ UNCHANGED <<tables, rowLock, clock, overlapped>>
Fail(s) ==
  /\ pc[s] \in InTxn
  /\ Closes(s, "failed")
  /\ told' = [told EXCEPT ![s] = @ \cup {"error"}]
  /\ rowLock' = Released(s)
  /\ UNCHANGED <<tables, clock, overlapped>>

(* The client goes away: the generator is cancelled at a yield or an await *)
(* (CancelledError is no Exception: no handler runs) and closing the       *)
(* session rolls back. *)
Disconnect(s) ==
  /\ pc[s] \in Live
  /\ Closes(s, "gone")
  /\ rowLock' = Released(s)
  /\ UNCHANGED <<tables, clock, told, overlapped>>

(***************************************************************************)
(* send_message and mark_thread_prompt_used.                               *)
(***************************************************************************)
Send(m) ==
  /\ At(m, "idle", "committed")
  /\ clock' = clock + 1
  /\ messages' = messages \cup {Row(m, "user", clock', {})}
  /\ overlapped' = (overlapped \/ \E s \in Streams : pc[s] \in Live)
  /\ UNCHANGED <<usage, memory, tokensUsed, budgeted, rowLock, run, told>>

MarkCheck(m) ==
  /\ pc[m] = "idle"
  /\ pc' = [pc EXCEPT ![m] = CASE usage = {} -> "prepared"
                               [] Cardinality(usage) = 1 -> "committed"
                               [] OTHER -> "failed"]
  /\ UNCHANGED <<tables, rowLock, clock, run, told, overlapped>>

MarkInsert(m) ==
  /\ At(m, "prepared", "committed")
  /\ usage' = usage \cup {m}
  /\ UNCHANGED <<messages, memory, tokensUsed, budgeted, rowLock, clock, run,
                 told, overlapped>>

(***************************************************************************)
(* Specification.                                                          *)
(***************************************************************************)
AllEnded ==
  /\ \A r \in Streams \cup Marks : pc[r] \in Ended
  /\ UNCHANGED vars

Next ==
  \/ \E s \in Streams :
       \/ Grant(s) \/ Refuse(s)
       \/ Begin(s) \/ BeginFails(s) \/ Announce(s) \/ Assemble(s)
       \/ Summarise(s) \/ Reply(s) \/ Flush(s) \/ TellDone(s) \/ Commit(s)
       \/ Fail(s) \/ Disconnect(s)
  \/ \E m \in Sends : Send(m)
  \/ \E m \in Marks : MarkCheck(m) \/ MarkInsert(m)
  \/ AllEnded

Spec == Init /\ [][Next]_vars

(* The event loop runs a generator that can go on; a Bedrock call answers  *)
(* or raises (boto3's read timeout).  Nothing bounds the wait for a row    *)
(* lock, nobody has to send a request, and no client has to go away. *)
AiEnds(s) ==
  Summarise(s) \/ Reply(s) \/ (pc[s] \in {"summarising", "asking"} /\ Fail(s))

GeneratorRuns(s) ==
  \/ Begin(s) \/ BeginFails(s) \/ Announce(s) \/ Assemble(s)
  \/ TellDone(s) \/ Commit(s)

Fairness ==
  \A s \in Streams :
    WF_vars(GeneratorRuns(s)) /\ WF_vars(AiEnds(s)) /\ WF_vars(Flush(s))

TimelySpec == Spec /\ Fairness

(***************************************************************************)
(* Properties.                                                             *)
(***************************************************************************)
(* Rows and local states have their types. *)
TypeOK ==
  /\ \A m \in messages :
       /\ m.by \in Streams \cup Sends
       /\ m.kind \in {"user", "assistant", "summary"}
       /\ m.at \in 1..clock
  /\ usage \subseteq Streams \cup Marks
  /\ memory \subseteq Streams
  /\ tokensUsed \in Nat /\ clock \in Nat
  /\ budgeted \in BOOLEAN /\ overlapped \in BOOLEAN
  /\ rowLock \in Streams \cup {None}
  /\ pc \in [Streams \cup Sends \cup Marks -> {"idle"} \cup Live \cup Ended]
  /\ told \in [Streams -> SUBSET {"done", "error"}]

Committed == {s \in Streams : pc[s] = "committed"}
Assembled(s) == pc[s] \in {"asking", "flushing", "answered", "told", "committed"}
Lost(s) == run[s].seen \ (run[s].verbatim \cup run[s].covered)

(* An exchange is stored whole or not at all: question, answer, memory     *)
(* entries, prompt use and a summary made on the way appear together, and  *)
(* only for a client that was told "done" and never "error". *)
ExchangesAreWhole ==
  /\ \A s \in Streams :
       {m.kind : m \in {n \in messages : n.by = s}} \ {"summary"} =
         IF s \in Committed THEN {"user", "assistant"} ELSE {}
  /\ Streams \cap ({m.by : m \in messages} \cup usage \cup memory) \subseteq Committed
  /\ \A s \in Committed : told[s] = {"done"}

(* tokens_used may lose the tokens of concurrent answers, but it never     *)
(* charges a thread for more than its stored answers cost. *)
UsageNeverOvercounts == tokensUsed <= Cost * Cardinality(Committed)

(* ... and it is exact as long as no two requests of the thread overlap. *)
UsageExactWhenSerial ==
  ~overlapped => tokensUsed = Cost * Cardinality(Committed)

(* Without overlap at most one answer starts below the warning threshold   *)
(* and ends above it: every later one is routed to the fallback model. *)
OverrunsOnceWhenSerial ==
  budgeted /\ ~overlapped =>
    Cost * Cardinality({s \in Committed : ~run[s].fallback}) < WarnAt + Cost

(* will_compact repeats the conditions of _conversation_history: without   *)
(* overlap a summary is announced to the client if and only if one is made. *)
AnnouncedWhenSerial ==
  \A s \in Streams :
    ~overlapped /\ Assembled(s) => (run[s].announced <=> run[s].compacted)

(* The messages the model gets verbatim are the latest ones, and at least  *)
(* Keep of them when there are as many. *)
RecentIsKept ==
  \A s \in Streams : Assembled(s) =>
    /\ \/ run[s].verbatim = run[s].seen
       \/ Cardinality(run[s].verbatim) >= Keep
    /\ \A m \in run[s].verbatim, n \in run[s].seen \ run[s].verbatim : n.at <= m.at

(* A message is missing from a context only if an older summary was used   *)
(* again: it was recent, or not yet there, when that summary was made. *)
LossNeedsOldSummary ==
  \A s \in Streams : Assembled(s) =>
    \A x \in Lost(s) : \E m \in Summaries(messages) :
      m.by # s /\ (x \in run[m.by].verbatim \/ x \notin run[m.by].seen)

(* What a thread is charged: never more than its answers cost, exactly     *)
(* that while nothing overlaps, and not without the warning taking effect  *)
(* once the threshold is passed. *)
UsageIsCharged == UsageNeverOvercounts /\ UsageExactWhenSerial /\ OverrunsOnceWhenSerial

(* What the model is given of a long conversation: the latest messages     *)
(* always, nothing lost except to the reuse of a summary, and a summary    *)
(* made only where the client was told so. *)
ContextIsExplained == RecentIsKept /\ LossNeedsOldSummary /\ AnnouncedWhenSerial

(* What conversation_history(thread) promises: the context of an answer    *)
(* covers every message of the conversation, verbatim or summarised.  The  *)
(* code does not keep this: the first summary is used for ever. *)
ContextCoversHistory == \A s \in Streams : Assembled(s) => Lost(s) = {}

(* Marking a prompt as used twice changes nothing: it has one usage row.   *)
(* The code does not keep this: two requests may both find none. *)
PromptMarkedOnce == Cardinality(usage) <= 1

(* Every response that starts streaming ends: stored, failed or given up. *)
StreamsEnd ==
  \A s \in Streams : pc[s] = "granted" ~> pc[s] \in Ended

=============================================================================
