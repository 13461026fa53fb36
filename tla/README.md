# Verification of eluven's backend

eluven is a workplace for AI-assisted tasks: a FastAPI backend (`src/backend`), a Next.js frontend,
and an SST deployment with Postgres, S3, two SQS queues and their workers. This directory holds
TLA+ models of the parts of the backend whose correctness depends on *order*: transactions that
overlap, messages that are sent before a commit, workers that are lost, users who act meanwhile.
The models are checked with TLC on small instances, and the main results are proved with TLAPS
for all values of the constants.

## 1. The system

### 1.1 Components

| component | state it keeps | operations | what makes it correct | status |
|---|---|---|---|---|
| workflow engine (`services/workflow/engine.py`) | `workflow_executions`, `workflow_thread_executions`, `workflow_interventions` | `start`, `execute_thread`, `resume` | steps run in order; a pause has one open question; failure means exhausted retries; an answer is acted on | modelled |
| workflow API (`api/v1/workflows.py`) | none of its own | start, respond, list | a start passes the integrity gate; a question is answered once | modelled |
| workflow worker and queue (`workers/workflow_worker.py`, `services/workflow/queue.py`) | SQS messages and their visibility | receive, process, commit or roll back, delete or retain | a step survives redelivery, crash and overlap of workers | modelled |
| document pipeline (`services/document/processor.py`, `workers/document_worker.py`) | document rows, chunks, S3 objects, messages | upload, extract, scan, chunk, embed, acknowledge, delete | index and row agree; the user's decisions stay; every upload settles | modelled |
| chunker and integrity scan (`chunker.py`, `integrity.py`) | none | cut, scan | no text is lost, no phrase torn; a warning does not vanish as a text grows | modelled |
| text extraction and embedding (`extractor.py`, `embedder.py`) | none | library and Bedrock calls | | not modelled |
| integrity gate (`services/document/integrity_gate.py`) | integrity reports | evaluate the gate, acknowledge | a document with an open warning in scope blocks | modelled |
| knowledge base API (`api/v1/kb.py`) | collections, attachments | create, rename, delete, attach, detach, upload | attachments decide the scope of the gate and of retrieval; nothing refers to what is gone | partly |
| task documents API (`api/v1/tasks.py`) | tasks, papers | create, update (also the cluster), archive, upload | a task stays in its owner's clusters | modelled |
| retrieval (`services/rag/retriever.py`) | none | scope, vector search, priority, threshold and fallback | the best of the scope, each chunk with its level | modelled |
| threads and AI stream (`api/v1/threads.py`, `services/ai/client.py`, `context.py`) | threads, messages, prompt usage, token totals, task memory | create, send, stream, compact, mark a prompt | an exchange is stored whole or not at all; tokens are charged once; what a context lacks is explained | partly |
| model router (`services/ai/router.py`) | none | pick a model for a thread type and a budget | routes by an active entry of the thread's type, the organisation's first | modelled |
| instructions (`api/v1/instructions.py`, `services/instructions/*`) | instruction sets and versions, approval tokens | check, show, save, activate | an approval fits the text it approves; only the entitled change what is in force; a chat reads its own layers | modelled |
| authoring assistants (`services/instructions/authoring_context.py`, `services/activity/*`) | none | show an author the broader layers, stream a suggestion | the author sees what the chat will | partly |
| activity library (`api/v1/activity_library_manage.py`, `admin_activity_library.py`, `services/activity/instruction_sync.py`) | activity types, prompts | create, patch, replace prompts, sync default texts | one entry, one list of prompts; defaults reach the tasks that read them | modelled |
| users and invitations (`api/v1/admin.py`, `api/v1/auth.py`, `services/invitations.py`) | organisations, users, invitations | invite, accept, revoke, patch, login, refresh | an account comes from one invitation; only an app_admin appoints one; a session ends | modelled |
| clusters (`api/v1/clusters.py`) | clusters | create, update, submissions | as for tasks | modelled |
| seeding at start (`scripts/seed.py`) | sample rows | look up or insert | a start leaves what the next start expects | partly |
| export, schemas, configuration, logging, migrations, frontend, infrastructure, validation scripts | none that decides behaviour | | | not modelled |

### 1.2 How they interact

* Every API request is one database transaction: `get_db` (`core/database.py`) commits after the
  handler returns and rolls back when it raises. Every worker message is one transaction too
  (`_process_payload` of either worker).
* Messages are sent to SQS *inside* these transactions and are visible at once. There is no
  outbox: a message can be received before its sender has committed, and it outlives a rollback.
* Postgres runs at READ COMMITTED. Nothing uses `SELECT ... FOR UPDATE`; the only mutual exclusion
  is the row lock of the first UPDATE that a transaction flushes, held until it ends.
* A worker that finishes, or that swallows an expected exception, deletes its message; otherwise
  the message becomes visible again, also when its visibility timeout passes under a slow worker.
* A new thread copies the default texts and the token budget of a library entry; the instruction
  layers of a chat are read from the instruction sets, which the library syncs its defaults to.
* Every API container seeds its sample rows before it serves (`Dockerfile`), beside other containers
  and users who work on the same rows.
* An AI stream and the start of a workflow pass the integrity gate; the context is assembled later,
  in other sessions, for a workflow once for every prompt.

### 1.3 What is hard

The hazards are listed at their lines in `PROJECT.json`. In short: messages sent before the commit
(too early, or torn); redelivery under a working worker; two workers in a rolling deployment; rows
read before a lock and used after it; unlocked check-then-write in requests; a retry loop that keeps
its counters in the database; a gate made of several queries; equal timestamps within a transaction;
"find or create" without a unique constraint (instruction sets, library entries, attachments, prompt
usage, sample rows); a token total that is read, added to and written back; an approval given for one
text and used later; a sign-in that issues tokens after the deactivation it did not see.

## 2. The modules

| module | role |
|---|---|
| `Workflow` | the workflow engine, its API requests, queue and workers |
| `WorkflowContract` | what a workflow promises its user (abstract) |
| `WorkflowRefinement` | `Workflow` under the refinement mapping to `WorkflowContract` |
| `DocumentPipeline` | upload requests, queue, document workers, acknowledging and deleting users |
| `DocumentLife` | what the rest of the system sees of a document (abstract) |
| `DocumentText` | chunker and integrity scan as functions of a text |
| `IntegrityGate` | attachments, moves of the task, the gate and the context queries; documents live as `DocumentLife` says |
| `Retrieval` | one retrieval, statement by statement, while collections and documents change |
| `ThreadStream` | one thread: streams, sends, prompt marks, compaction, token budget |
| `InstructionStore` | the tables of instruction sets and versions, and what every writer of them does |
| `Instructions` | check, approval token, show, save, activate, and the layers of a chat; extends `InstructionStore` |
| `Authoring` | what the author of a layer is shown, compared with `Instructions` |
| `ActivityLibrary` | entries, prompts, sync, router, creation of threads; extends `InstructionStore` |
| `Accounts` | organisations, users, invitations, sessions |
| `Workspace` | clusters, tasks, collections, attachments of an organisation's users |
| `ApiStart` | the seeding start of an API container as one more request of `Workspace` |
| `MC...` | instances for TLC |
| `WorkflowProofs`, `DocumentProofs` (pipeline, text and retrieval), `IntegrityGateProofs`, `ThreadStreamProofs`, `InstructionsProofs` (with `Authoring`), `ActivityLibraryProofs`, `AccountsProofs`, `WorkspaceProofs` | theorems and proofs |

Composition: `IntegrityGate` uses `DocumentLife`'s steps for its documents, and `DocumentPipeline` is
shown (by TLC and by proof) to implement them, so the gate is checked against every interleaving of the
pipeline without its state. `Instructions` and `ActivityLibrary` share the tables of `InstructionStore`.
`Authoring` reads the state of `Instructions`, and `ApiStart` adds the container's start to the
requests of `Workspace`.

### 2.1 Workflow

One execution. `execution`, `steps` and `interventions` are the committed rows; a worker's `job` holds
the rows as its open transaction has changed them, and `base` what it loaded, because the ORM writes
the columns that differ from what was loaded. `starter` and `responder[u]` are API requests.

| code | model |
|---|---|
| `WorkflowEngine.start`, then the commit of `get_db` | `StartSend`, `StartCommit`, `StartAbort` |
| `WorkflowEngine.resume` | `RespondCheck` (unlocked checks), `RespondSend` (flush and send), `RespondCommit`, `RespondAbort` |
| `_handle_message`, head of `execute_thread` | `Receive`, with `Skips` for its early returns |
| `_execute_thread_once` | `BeginAttempt`, `Reply`, `AttemptFails` |
| `_detect_intervention`, `_latest_assistant_content` | `Detects`: replies of one transaction have one `created_at`, any may be taken |
| `except` branch of `execute_thread` | `Failed`, `GiveUp` |
| `_pause_for_intervention` | `Pause` |
| `_complete_thread_step` | `CompleteAndSend`, `CompleteSendFails`, `CompleteLast` |
| commit, delete, rollback, crash, visibility timeout | `Commit`, `Ack`, `Abort`, `TornCommit`, `AckLost`, `VisibilityTimeout` |

Row locks are guards: `StepFree` for a step's row (taken by the first flush of an attempt) and
`ExecFree` for the execution's row (taken by a flush that changes it). A deadlock of the two cannot
arise because every transaction takes a step before the execution; TLC checks for deadlock.

### 2.2 Documents

`rows` and `chunks` are committed, a `job` holds what its worker has not committed. The content of a
file never changes, so whether a scan finds something (`Suspicious`) and whether the text is long
(`Long`) are constants of the document. `base` is the row as loaded *before* the lock; `Written` builds
the UPDATE from the columns that differ, which is why a concurrent acknowledgment is not lost.

| code | model |
|---|---|
| `upload_document`, `upload_task_document`, `upload_thread_document` | `UploadStore`, `UploadSend`, `UploadCommit`, `UploadAbort` |
| `_handle_message`, loading the row | `Receive` (an absent row ends in deleting the message) |
| flush of status PROCESSING | `Begin`, under `RowFree` |
| `_persist_integrity_report` | `Reported` |
| short text, scanned | `ScanShort` |
| text above the threshold: strategy, then chunks and scan, then embeddings | `ChooseIndex`, `ScanLong`, `Reindex` |
| `except` branches, after any of these steps | `ProcessFails` |
| commit, delete, rollback, crash, visibility timeout | `Commit`, `Ack`, `Abort`, `AckLost`, `VisibilityTimeout` |
| `acknowledge_*_integrity`, `delete_document` | `Acknowledge`, `DeleteDocument` |

### 2.3 Gate and context

One task. `attached` counts `kb_collection_attachments` rows; `cluster` is the task's cluster; a request
walks through the queries of `evaluate_task_integrity_gate` (`GatePapers`, `GateTask`, `GateCluster`,
`GateDocs`) and, if it passes, through those of the context (`ContextPapers`, `ScopeTask`,
`ScopeCluster`, `ScopeOrg`, `RagPapersRead`, `Search`). Each query is one atomic read of what is committed.
The last scope query (`_org_collection_ids`) is the retriever's alone: `org`, the collections with
`is_org_collection`, is any set, because no code sets the flag. An automated workflow passes the gate once
and then goes through the context's queries again and again. `news[r]` is a history variable: the
documents that became ready with an open warning since the request began, and the routes (a collection and
the task or cluster it is attached to) that were made, or that the task was moved onto, since then.

### 2.4 Threads

One thread. `messages`, `usage`, `memory`, `tokensUsed` are the committed rows, `run[s]` is a
generator's local state, `rowLock` the uncommitted UPDATE of the thread's row. Rows carry the start of
their transaction as `created_at`; a compaction window is any that some order of the ties allows.

| code | model |
|---|---|
| `stream_ai_response` up to the response | `Grant` (with the budget warning), `Refuse` |
| `event_generator`: session, thread, prompt usage | `Begin`, `BeginFails` |
| `will_compact`, `_conversation_history`, `_summarize_messages` | `Announce`, `Assemble`, `Summarise` |
| Bedrock's stream, flush of the answer and of `tokens_used` | `Reply`, `Flush` |
| `done` event, then the commit | `TellDone`, `Commit` |
| `except`, cancellation | `Fail`, `Disconnect` |
| `send_message`, `mark_thread_prompt_used` | `Send`, `MarkCheck`, `MarkInsert` |

### 2.5 Requests on shared rows

`Accounts`, `Workspace`, `ActivityLibrary` and `Instructions` have one shape: a request reads, checks and
decides in one step (`Serve`, one operator per handler) and its transaction commits in a later one
(`Commit...`), with any number of other requests in between. Unique constraints and foreign keys are
guards of the commit; where the schema has none, the commit goes through. `overlapped` is a history
variable that says whether two requests were ever open at once: the properties named `Serial...` hold
only without overlap, because the code has neither lock nor constraint, and say so.

A login or a refresh has two steps of its own (`Login` or `Refresh`, then `IssueTokens` or `FailSignIn`):
it reads the account and checks that it is active, a login then flushes `last_login_at` and may wait for
the row of a patch that is under way, and the tokens are issued without another look. Any commit falls
between the two. A request with an access token reads the account again (`get_current_active_user`), so a
token of a deactivated user opens nothing in the API; `SessionsEnd` is about the tokens themselves. In the
model a sign-in may issue its tokens beside an open patch of the account even where the row lock would
make it wait, which only adds behaviours.

`ActivityLibrary` has one organisation beside the platform's own (`PLATFORM_ORG_ID`). An instruction set's
slot is its level, its `org_id` and its thread type: `SyncSlot` is what the sync writes to, `Read` what a
task's context reads, by the task's organisation. A thread's row notes the entries that `create_thread`
read (`known`), as a history.

| code | model |
|---|---|
| `admin.py`, `auth.py`, `services/invitations.py` | `Accounts`: `CreateOrg`, `UpdateOrg`, `UpdateUser`, `CreateInvitation`, `Revoke`, `Accept`; `Login`, `Refresh`, `IssueTokens`, `FailSignIn` |
| `clusters.py`, `tasks.py`, collections of `kb.py` | `Workspace`: `CreateCluster`, `UpdateCluster`, `CreateSubmission`, `CreateTask`, `UpdateTask`, `ArchiveTask`, `CreateCollection`, `DeleteCollection`, `Attach`, `Detach`, `AddDocument`, `RemoveDocument` |
| `scripts/seed.py --dev` | `ApiStart`: `Start`, `CommitStart` |
| `admin_activity_library.py`, `activity_library_manage.py` | `ActivityLibrary`: `CreatePlatform`, `CreateOrg`, `UpdatePlatform`, `UpdateOrg`, `ReplacePlatform`, `ReplaceOrg`, with `SyncPlans` and `Sync` for the default text; `CreateThread`, `MarkCheck`, `MarkInsert`, `Routed` and `Read` for the readers |
| `instructions.py` | `Instructions`: `Check`, `Open`, `Save`, `Activate`; `Queries` for the chat, `Authoring!Inherited` for the author |

### 2.6 Algorithms

`DocumentText` writes a text token by token (a token is a kind: word, blank, heading, end of a sentence,
command, override, hidden run, mimicked block, zero-width) and evaluates `chunk_text` and `scan` on every
text up to the bound. `Retrieval` makes the four scope queries, the search and the fallback search one
statement at a time. Both are checked by one run, `knowledge`.

## 3. The runs

| run | configuration | properties | what it shows | bounds |
|---|---|---|---|---|
| `workflow_main` | `WorkflowMain.cfg` | `RowsAgree`, `AnswerIsActedOn`, `KeepsContract`, `RunningSettles` | one worker, one user, timely delivery: execution row and step rows agree, answers are acted on, a running execution comes to rest, every commit is a step of the contract | 3 steps with 2, 1 and 0 prompts; 2 retries, 2 questions, 2 aborts, 1 timeout |
| `workflow_torn` | `WorkflowTorn.cfg` | `StepsInOrder`, `FailedMeansExhausted`, `OneThreadPerStep`, `NoWorkWhilePaused`, `ProgressIsKept` | what holds even when a worker dies between its send and its commit; the steps keep their order before the first completion that is lost that way | the same with 1 abort, 1 torn commit |
| `workflow_overlap` | `WorkflowOverlap.cfg` | `PausedIsAnswerable`, `CompleteLeavesNonePending` | what holds with two workers and two users | 2 steps, 1 question, 1 torn commit, 1 timeout |
| `workflow_early_receipt` | `WorkflowEarly.cfg` | `AnswerIsActedOn` | expected violation, see 3.1 | 2 steps, 1 question |
| `documents` | `Documents.cfg` | `IndexMatches`, `DecisionsStay`, `ImplementsLife`, `EveryUploadSettles` | the index matches the row, the user's decisions stay, readers see `DocumentLife`, every accepted upload settles | a knowledge base document and a long paper, 2 workers, 1 abort, 1 timeout |
| `gate_scope` | `GateScope.cfg` | `SteadyWarningBlocks`, `SentWasChecked`, `OfferedIsScanned` | a warning that is there all along blocks; an open warning is in a context only if it, or its way there, is news, or if it is in an organisation's collection; nothing unscanned is offered | a document in a collection or a long paper, 2 clusters, 1 workflow, 1 attaching user |
| `thread_stream` | `ThreadStream.cfg` | `ExchangesAreWhole`, `UsageIsCharged`, `ContextIsExplained`, `StreamsEnd` | exchanges are whole, tokens never overcharged, what a context lacks is explained, every stream ends | 2 streams, 2 sends, 1 mark; history limit 1, one recent message; one answer reaches the warning |
| `instructions` | `Instructions.cfg` | `StoreIsSound`, `SavedWasApproved`, `LayersAreFaithful`, `OnlyEntitledActivate` | nothing unapproved is saved, only the entitled change what is in force, a chat reads its own layers | 8 slots of all levels, 2 users, 2 texts, 3 requests, 2 tokens that expire |
| `library` | `ActivityLibrary.cfg` | `SerialLibrary`, `DefaultsReachTasks`, `ThreadsFollowTheirEntry`, `SerialKeepsPrompts` | one entry and one list of prompts; default texts are put in force as approved and read by the tasks of their organisation; a thread's text was approved for its type and module, and what routes it instead of its entry is of another module, newer or a double; an automated entry keeps a prompt | 2 organisations, 1 thread type, 2 modules, 3 requests, up to 2 prompts |
| `accounts` | `Accounts.cfg` | `InvitesMakeAccounts`, `SerialAdmin`, `SessionsEnd`, `OnlyAppAdminsAppoint` | an account comes from one invitation whatever races, only app_admins appoint app_admins, no sign-in that begins after a deactivation gets a token | 3 administrators, 1 newcomer, 3 requests, 1 sign-in in flight, clock to 2 |
| `workspace` | `Workspace.cfg` | `WorkspaceIsSound`, `AttachmentsAreSingle`, `StartsRepeat` | no dangling row, no task in another user's cluster, a start leaves what the next one expects | 2 users, 1 cluster each, 3 requests or starts |
| `knowledge` | `Knowledge.cfg` | `ChunksHoldTheText`, `AnswerIsBest`, `StatusFallsOnlyByDilution` | chunker, scan and retrieval against their reference definitions | all texts up to 5 of 9 kinds of token, 9 settings; 3 chunks, 3 grades, 1 change |

The bounds are enough for the cases that matter: a template needs three steps to have one before, one
after and one in the middle, and prompt counts 0, 1 and 2 are the ones the engine treats differently; a
step needs two retries to fail after having been retried; two questions let one step ask twice or two
steps ask; one redelivery next to a working worker is the smallest overlap; a second cluster is what a
task can move to between two queries. The gate's two documents are not there at once (`OneDocument`): they
meet only in its verdict, where another one can only block, and the theorem has any number. On a thread two streams are the smallest overlap, two sends fill
the history beyond the limit before one of them, and with a warning after one answer the second stream
is the one that must be warned. Where requests share rows, two may race and a third finds what they
left. Five tokens hold two chunks with an overlap, a heading between them and a phrase across their
border. Every property of these runs is broken by at least one small change of the model (`mutants` in
`PROJECT.json`), in the run's own bounds. What the bounds cannot show, larger numbers of everything, the
theorems of section 4 show for the properties listed there.

Symmetry is used for sets of workers, users, clusters and requests, and only in runs without liveness properties.
Deadlock is checked in the workflow, document, gate and thread runs. `accounts`, `workspace`, `library`,
`instructions` and `knowledge` have a finite supply of requests or a bounded text and stop when it is used up;
their configurations excuse that.

### 3.1 Disagreements between code and docs

`workflow_early_receipt`: the resume message is received before the answer is committed
(`engine.py:214`); the worker sees a paused execution and deletes it, and nothing resumes the step. The
run checks under the fairness of section 3.2 *without* timely delivery, which is exactly the assumption
that `workflow_main` needs. The document uploads have the same order (`kb.py:394`, `tasks.py:428`,
`threads.py:493`): a message received before its upload commits finds no row and is deleted.

The following are stated in the modules, next to the properties that do hold; their comments say that
the code does not keep them. TLC refutes each within the bounds of the module's run (`AuthorSeesChat` once the
cluster's set is `Typed` as well).

| statement | what happens |
|---|---|
| `StepsInOrder` without its exception | the next step is sent before the commit (`engine.py:383`); if the worker dies in between, it runs before its predecessor is complete. The stated property gives up the order from the lost completion on and keeps it before |
| `QuestionsPause` (`Workflow`) | replies of a step tie in `created_at`; an older one may be searched and an intervention block passed over |
| `AnsweredOnce` (`Workflow`) | `resume` checks without a lock and writes without checking again; two responses are both accepted |
| `SentIsCleared` (`IntegrityGate`) | a paper that becomes ready between gate and context is sent with its warning open; so is, with no race at all, a document in an organisation's collection, which the retriever reads (`retriever.py:264`) and the gate does not (`integrity_gate.py:125-140`) |
| `ContextCoversHistory` (`ThreadStream`) | the first summary is used for ever: messages between it and the recent window are in no context |
| `PromptMarkedOnce` (`ThreadStream`) | two requests may both find no usage row; the second row makes later streams from the prompt fail |
| `SaversMayAuthor` (`Instructions`) | a cluster's owner may save its text but cannot get one approved |
| `EveryLayerIsRead` (`Instructions`) | among several sets of a level one is read, any of them |
| `AuthorSeesChat` (`Authoring`) | the author of a text is not shown every text the chat is given |
| `PlatformDefaultIsRead` (`ActivityLibrary`) | the sync writes the platform's texts with the platform's `org_id` (`instruction_sync.py:36`), a context reads the platform level by the task's organisation (`context.py:93-108`, `259`): the tasks of other organisations read none |
| `OrgEntryShadows` (`ActivityLibrary`) | the read API takes either of an organisation's and the platform's entry |
| `OnlySubmissionsListed` (`Workspace`) | a task of another module moved to an assignment is listed as a submission |
| `NothingFails` (`Workspace`) | deleting a collection fails on soft-deleted documents and attachments that still refer to it |
| `StartsSucceed` (`ApiStart`) | a second submission under the sample assignment, or a row of a sample's name, makes `scalar_one_or_none` raise at every later start: the container never serves |
| `BaitIsRepeated` (`DocumentText`) | a directive in the part two chunks share is counted twice |

The properties that begin with `~overlapped` are not kept by requests that overlap. TLC refutes each
without that condition, within the bounds of its run (`LoneDefaultIsRead` with a fourth request and a
second approved text): two first saves leave two sets of a layer, or two versions one number
(`instructions.py:131`); two creates leave an entry twice, two replacements the prompts of both, and a patch
that meets a replacement an automated entry without prompts (`admin_activity_library.py:178`); two
invitations for one address are both pending, an invitation is both revoked and accepted, and the last two
app_admins demote each other (`admin.py:438`); a collection is attached twice (`kb.py:449`), and two
containers that start at once both insert the sample rows (`seed.py:206`). A login that read the
account before its deactivation issues its tokens after it (`auth.py:98`).

Met while reading, outside the models: authoring for a cluster reads `Cluster.title` and
`Cluster.module_type`, which the class does not have (`authoring_context.py`); `scripts/seed/demo.py`
uses `ActivityLibraryEntry` without importing it; `services/instructions/authoring_assistant.py` uses
`ClientError` without importing it.

### 3.2 Fairness

Weak fairness for three things, which the code and its deployment justify: a request that has begun ends
in a commit or a rollback (`get_db`); workers poll for ever (`run_worker_async` loops, ECS restarts the
process); a worker that can take its next step takes it (Postgres grants a free lock, a call to the model
or to S3 returns or raises). No fairness is assumed for users, who need not start, answer, acknowledge or
delete anything, nor for faults. A stream's generator runs on (the event loop), a Bedrock call answers or
raises (boto3's read timeout) and a flush that finds the thread's row free goes on; nobody has to send a
request or to disconnect. `TimelyDelivery` is an assumption about SQS that the code does not
ensure; it is part of `TimelySpec` only, and runs say so.

## 4. The proofs

All theorems hold for every value of the constants that satisfies the assumptions in the modules
(types and finiteness of the constants, and that sets which name different things are disjoint; TLC
evaluates them in the runs).

**Workflow.** `WorkflowProofs` proves `TypeCorrect` and, for any number of workers
and users, `PausedIsAnswerable` (a job that is about to pause
carries its question, and an answer closes one only together with the pause) and
`CompleteLeavesNonePending` (a step leaves "pending" only for good, so a job that saw none pending is
right at its commit, however late). It proves `StepsInOrder` and `MessagesInOrder`
under one more assumption, at most one worker, whatever commits are torn. `faults.lost` is a history: the
steps whose completion was lost after the next step's message had been sent. `OrderInv` says that everything
before a step that is named by a message, by a job or by a question is complete or not before the first
lost step (`Settled`), except by the one transaction that has sent a message and not yet committed.

Two more invariants assume one worker and one user. `SoleInv`, which holds whatever commits are torn, says
that the rows a worker has loaded stay the committed ones until it commits and that no answer is under
way while it works; so its commit writes what it has counted, and `FailedMeansExhausted`,
`OneThreadPerStep`, `NoWorkWhilePaused` and `ProgressIsKept` follow. `AgreeInv`, with `MaxTorn = 0` and on
top of the order, says what `current_thread_index` is while a step is completed, sent for and perhaps
failed again, that a job which found no other step pending is the last, and that an answer under way is
to the open question; there nothing is ever lost (`NothingLost`), so the order is without exception. From
it follow `RowsAgree` and the safety part of the refinement, `ContractCorrect`:
`CommitDone`, `CommitAsks`, `CommitFails`, `AnswerAgrees` and `StartAgrees` map the five kinds of commit to
steps of `WorkflowContract`, everything else is a stutter.

**Documents.** In `DocumentProofs` the theorems about the pipeline rest on one inductive invariant, `PipeInv`: a row and its chunks
fit together (`RowOK`); what a job has read before it got the lock is still so, or more so, in the row
(`BaseOK`: a report, and the strategy "rag", are never taken back); what a job will write is a failure, with the strategy and the
report as far as it came, or the whole of a processed document (`Unscanned`, `ScannedLong`, `Processed`); and jobs that hold the lock of one row
are one job (`LockOK`). The lemma `Committing` turns this into what a commit does to its document, and
from it follow `IndexMatchesCorrect`, `ReadyIsScannedCorrect`, `DecisionsCorrect` and the refinement
`LifeCorrect`: each commit maps to one step of `DocumentLife`, everything else to a stutter.

**Text.** `ChunksHoldTheTextCorrect` and `StatusFallsOnlyByDilutionCorrect` hold for texts of every length and
every size and overlap with which `chunk_text` makes progress. `DocumentText` is written without recursion,
so no induction over the text is needed: a window starts at a multiple of the stride, and of the windows
that reach past the end of a phrase the first begins at or before its start; a section is the interval
between two heads, so a position belongs to the section of the last head before it. For the status, a token
is added at the end: every chunk has a successor at the same place that holds at least as much, so the
number of chunks with a directive does not fall, nor does any other count but the density. That a non-empty
finite set of numbers has a least and a greatest element is proved first (`MinOfFinite`, `MaxOfFinite`).

**Retrieval.** `AnswerIsBestCorrect`: what the scope statements read of a collection that nobody attached or
detached since is so in the answer; a first search with fewer than `Enough` hits has all that reach its
threshold, because `TopK` would have cut it otherwise; so the second, with a lower threshold and the same
documents, cannot leave one of them out; and the search itself takes nothing that is worse than what it leaves.

**Gate.** `IntegrityGateProofs` proves `SteadyWarningBlocks` from `GateInv`, which says what the gate has
made sure of after each query: no steady warning is a paper once the papers have been read without
finding one; the collections of the task's steady warnings are in `cols`, then those of the cluster's;
and a steady warning over a cluster is over the cluster the request began with. `OfferedIsScanned`
follows from reports never disappearing. `LifeCorrect` carries both over to the documents of the pipeline.
`SentWasChecked` follows from an invariant that goes on where `GateInv` ends: once the gate is passed,
every document with an open warning is news, is reached only over routes that are news, or is in a
collection of the organisation (`NothingSteady`, for what had been there all along would have blocked).
Then the scope's collections, the papers and what is offered are followed query by query: a collection
that leads to a warned document was read over a new route or is the organisation's. News never
stops being news while the request runs, and an acknowledgment, once given, stays.

**Threads.** `ThreadStreamProofs` proves `ExchangesAreWhole` and `UsageIsCharged` for any number of
streams, sends and marks, every cost and threshold. Its invariant says that rows of a stream exist if and
only if it committed, that a client which heard "done" is one whose stream is about to commit or has, and
that what a stream read of `tokens_used` when it began is at most the cost of the answers committed since
then; so adding its own never counts an answer twice. While nothing overlaps the value read is exact,
hence the total is, and the answer that crosses the threshold is the last one that starts unwarned. Steps
inside a transaction are one case (`Advance`), ends without a commit another (`Leave`), and `Commit` has
its own lemma. `ContextIsExplained` has an invariant of its own, `HistInv`: every summary row goes back to a
committed stream and covers what that stream had seen and not kept verbatim, and a committed stream's notes
do not change. So when a stream reuses the first summary, whatever it lacks was in the maker's verbatim
window or not yet there. The verbatim window of a stream is any that some order of the ties allows; the
proof needs only that it is at least `Keep` long and that nothing outside it is younger.

**Instructions.** `InstructionsProofs` proves `SavedWasApproved` (an open save carries the token it was
checked with, and tokens and versions are never changed), `OnlyEntitledActivate` (an open activation names
a user who was entitled to its slot, and only a commit moves a set), `ActiveBelongs` and
`VersionsImmutable`. `StoreIsSound` adds that numbers have no gaps: an open save's number is at most one more
than the greatest of its set, others may take it meanwhile, and nobody gives one back (`NumberInv`, which
bounds numbers by the number of saves). `LayersAreFaithful` is about what the tables say of a chat: a version
is found by its id and a set by its own, so each query of the chat returns versions of sets of its slot; and
what an author inherits is what some query of the chat may return.

**Library.** `ActivityLibraryProofs`. What a decision says of rows that only grow (`DraftOK`: the approval it
was let through by, the entry it names, the type and module of the entry a thread copies) holds whatever
overlaps; from it follow that what is synced was approved
(`SyncedWasApproved`, a part of `DefaultsReachTasks`), `ThreadsFollowTheirEntry`, and
`UsedPromptsStayCorrect`: the insert of a usage waits for a delete that is under way, and a delete fails on a
usage. What a decision says of the tables as they are (`StillFits`: no entry with its key, the prompts it is
about to delete are all of the entry's, the text it need not sync is in force) holds while it is the only open
request; `SerialLibrary`, `SerialKeepsPrompts` and the rest of `DefaultsReachTasks` follow. Behind
`ThreadsStartApproved` is that every text an entry ever had, or is about to get, is `Vetted`, and that the
entry a thread names never changes its type or module. Behind `RoutedAsCreated` is that nothing
`create_thread` read was of a lower rank than what it took, and that an entry's scope and module stay: so what
the router prefers later was not active then, is of another module, or is a double of the entry in its scope.
`LoneDefaultIsRead` needs that a scope and type have one set (`SlotsUnique`) and that an open request has
planned its sync for that one.

**Accounts.** `AccountsProofs` proves `InvitesMakeAccounts` (an accepted invitation has an account with its
address, so a second acceptance, decided before the first was committed, is stopped by the unique index),
`SessionsEnd` (a token lives until `AccessTTL` from now at the latest, every sign-in that is in flight for
an inactive user had read the account before the deactivation, and none begins) and `OnlyAppAdminsAppoint` (an invitation to become app_admin was made by one, and so was an open
decision to appoint one). `SerialAdmin`: who patches or deactivates an app_admin is another, active one, and
is so still at the commit while nothing else is open.

**Workspace.** `WorkspaceProofs` proves `WorkspaceIsSound` for `StartSpec`, containers that start included:
rows that others refer to are never removed except a collection, whose removal the foreign keys stop;
owners never change, so a decision that was right about an owner is right at its commit. It proves
`AttachmentsAreSingle` and, as an action property, `StartsRepeat`: a start that nothing overlaps commits to the
rows it looked at, and with what it inserts each sample row is there exactly once.

The properties named `Serial...` and those that begin with `~overlapped` have one argument, `SerialInv` of each
module: while no two requests were ever open at once at most one is, and what it saw still holds of the tables.
The invariant says nothing after an overlap; everything that holds after one is in `IInv`.

Assumptions that only proofs need: requests and chunks are finitely many (`IsFiniteSet(Requests)` in
`InstructionStore`, `IsFiniteSet(Pieces)` in `Retrieval`), a chat's chain consists of slots, and a seeded set of
the thread level has no thread type (`Instructions`). TLC evaluates all of them. `DocumentText` adds
its six counts explicitly and `ActivityLibrary` writes a function where TLC's `@@` would do: the provers know neither
`@@` nor a fold over a function's range.

## 5. Only model-checked

* Liveness (`AnswerIsActedOn`, `RunningSettles`, `EveryUploadSettles`, `StreamsEnd`, the progress of
  `KeepsContract`): fairness and ENABLED are beyond the prover.
* The refinement of `WorkflowContract` with its progress (`KeepsContract`); its safety part is proved.

Every safety invariant and action property of the passing runs has a theorem, those of `workflow_main` and
`workflow_torn` under the assumptions named in section 4.

## 6. Not modelled, and what the models assume

* Texts: what a model replies, how a file is extracted, prompt assembly, translations, the Word export. A
  reply is one of three kinds; in the pipeline a scan's result is a constant of the document, in
  `DocumentText` it is computed from a text of token kinds. The instruction rules are a set of blocked texts.
* Timestamps, except that rows of one transaction tie. Some timezone-aware values are written to
  columns without a time zone (`engine.py:235` and others); the models assume that these flushes succeed.
* Message retention and dead letters: a message is redelivered for ever.
* Editing of prompts during a workflow's execution: prompt counts are constants there.
* Renaming a collection, and changing the title or status of a thread: no other state depends on them. Logout clears a cookie.
* Passwords and token signatures: a login succeeds or not.
* Tags, descriptions, languages, opening texts.
* The frontend (its draft gate and stream parser repeat checks of the API), migrations (sequential, once),
  deployment descriptions, and the validation fixtures `scripts/seed/demo.py` and `documents.py`: sequential
  or without decisions of their own. Settings that matter are constants of the models.

`PROJECT.json` lists every component with its status.

## 7. Plan

Done: all components of section 2, with a theorem for every safety property of the passing runs and for the
safety part of both refinements.

Left, in order of what it would add:

1. Editing a library entry's prompts under a running workflow: a composition of `ActivityLibrary` and `Workflow`.
2. Message retention as a fault of the queue, and what would have to sweep executions that lost their message.
