------------------------------ MODULE ApiStart ------------------------------
(***************************************************************************)
(* The start of an API container (Dockerfile): it seeds the development    *)
(* user's sample rows (scripts/seed.py --dev), and serves only if that     *)
(* succeeds.  Up to two containers run (infra/api.ts), beside users who    *)
(* work on the same rows: a start is one more request of Workspace.        *)
(*                                                                         *)
(* The organisation and its users, looked up by unique columns, are there. *)
(***************************************************************************)
EXTENDS Workspace

CONSTANTS
  SeedUser, \* the development user
  Sample    \* stands for the names of the three sample rows

EPR == "external_paper_review"

ASSUME SeedAssumption ==
  /\ SeedUser \in Users /\ Sample \in Names /\ EPR \in Modules
  /\ \A r \in Requests, which \in {"paper", "submission"} :
       <<r, which>> \notin Requests \cup DOMAIN SeedTasks

(* The lookups of _seed_dev_async. *)
SamplePapers ==
  {t \in DOMAIN tasks : tasks[t].owner = SeedUser /\ tasks[t].title = Sample
                        /\ tasks[t].module = EPR}
SampleAssignments ==
  {c \in DOMAIN clusters : clusters[c].owner = SeedUser /\ clusters[c].name = Sample
                           /\ IsAssignment(clusters[c])}
SampleSubmissions ==
  {t \in DOMAIN tasks : tasks[t].cluster \in SampleAssignments /\ tasks[t].module = SPR}

(* scalar_one_or_none raises when a lookup finds a second row. *)
Several(rows_) == \E x, y \in rows_ : x # y
StartFails ==
  Several(SamplePapers) \/ Several(SampleAssignments) \/ Several(SampleSubmissions)

(* The rows a start misses, and inserts. *)
Missing ==
  {s \in {"paper", "assignment", "submission"} :
     CASE s = "paper" -> SamplePapers = {}
       [] s = "assignment" -> SampleAssignments = {}
       [] s = "submission" -> SampleSubmissions = {}}

(* The assignment the submission goes to: the one found or the new one. *)
SeedAssignment(r) ==
  IF SampleAssignments = {} THEN r ELSE CHOOSE c \in SampleAssignments : TRUE

Start(r) ==
  \/ /\ pc[r] = "idle" /\ StartFails
     /\ pc' = [pc EXCEPT ![r] = "failed"]
     /\ UNCHANGED <<rows, req, overlapped>>
  \/ /\ ~StartFails
     /\ Decides(r, [kind |-> "seed", missing |-> Missing, assignment |-> SeedAssignment(r)])

(* All that is missing is committed at once.  Ids of tasks are <<r, which>>. *)
(* Mutation: the submission is not put under the assignment. *)
SampleTask_Alone(r, which) ==
  Task(SeedUser, IF which = "paper" THEN EPR ELSE SPR, None, Sample, FALSE)
SampleTask(r, which) ==
  IF which = "paper" THEN Task(SeedUser, EPR, None, Sample, FALSE)
  ELSE Task(SeedUser, SPR, req[r].assignment, Sample, TRUE)
SampleTasks(r) == {<<r, which>> : which \in req[r].missing \ {"assignment"}}
CommitStart(r) ==
  /\ Commits(r, "seed") /\ Ends(r, "done")
  /\ clusters' = IF "assignment" \in req[r].missing
                 THEN Added(clusters, r, Cluster(SeedUser, "assignment", Sample))
                 ELSE clusters
  /\ tasks' = [t \in DOMAIN tasks \cup SampleTasks(r) |->
                 IF t \in SampleTasks(r) THEN SampleTask(r, t[2]) ELSE tasks[t]]
  /\ UNCHANGED <<collections, documents, attached>>

StartNext == Next \/ \E r \in Requests : Start(r) \/ CommitStart(r)
StartSpec == Init /\ [][StartNext]_vars

(***************************************************************************)
(* Properties.                                                             *)
(***************************************************************************)
(* A start leaves the sample rows as the next start expects them: when no  *)
(* other request is open, the next one finds each of them once and inserts *)
(* nothing, whatever users renamed, moved or added before. *)
StartsRepeat ==
  [][\A r \in Requests :
       CommitStart(r) /\ ~overlapped => Missing' = {} /\ ~StartFails']_vars

(* "Minimal dev user + sample tasks (API startup)": a start does not fail. *)
(* The code does not keep this: a second submission under the sample       *)
(* assignment, or a row of a sample's name, ends every later start, and    *)
(* two starts at once may insert a row twice. *)
StartsSucceed == ~overlapped => ~StartFails

=============================================================================
