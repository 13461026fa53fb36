------------------------- MODULE WorkflowRefinement -------------------------
(***************************************************************************)
(* Workflow, its requests, queue, workers and transactions, implements     *)
(* WorkflowContract.  The user's view is the committed rows alone.         *)
(***************************************************************************)
EXTENDS Workflow

OpenStep == IF Open = {} THEN 0 ELSE interventions[CHOOSE i \in Open : TRUE].step

Contract ==
  INSTANCE WorkflowContract WITH
    N <- N, status <- execution.status, finished <- Done, asking <- OpenStep

\* Each commit is one step of the contract or none, in particular a step is never
\* finished before its predecessors, twice, or while a question is open.
ContractSafety == Contract!SafeSpec

\* The engine keeps the promise: whatever the retries, redeliveries and
\* crashes, each commit is one step of the contract or none, and a
\* running execution moves on.
KeepsContract == Contract!Spec

=============================================================================
