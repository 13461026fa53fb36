-------------------------- MODULE WorkflowContract --------------------------
(***************************************************************************)
(* What an automated workflow promises to the user who starts it: the      *)
(* steps of the template are finished one by one, in their order; at any   *)
(* time the next step may ask a question, which stops the execution until  *)
(* it is answered; and an execution that runs goes on until it is          *)
(* complete, has failed or asks.                                           *)
(***************************************************************************)
EXTENDS Integers

CONSTANT N  \* the length of the template, a positive number

Steps == 1..N

VARIABLES
  status,    \* what the API reports of the execution
  finished,  \* the steps that are complete
  asking     \* the step whose question is open, 0 if none is

vars == <<status, finished, asking>>

Init ==
  /\ status = "none"
  /\ finished = {}
  /\ asking = 0

IsNext(s) == s \in Steps \ finished /\ \A t \in Steps \ finished : s <= t

Start ==
  /\ status = "none"
  /\ status' = "running"
  /\ UNCHANGED <<finished, asking>>

StepDone(s) ==
  /\ status = "running"
  /\ IsNext(s)
  /\ finished' = finished \cup {s}
  /\ status' = IF finished' = Steps THEN "complete" ELSE "running"
  /\ UNCHANGED asking

Ask(s) ==
  /\ status = "running"
  /\ IsNext(s)
  /\ status' = "paused"
  /\ asking' = s
  /\ UNCHANGED finished

Answer ==
  /\ status = "paused"
  /\ status' = "running"
  /\ asking' = 0
  /\ UNCHANGED finished

Fail ==
  /\ status = "running"
  /\ status' = "failed"
  /\ UNCHANGED <<finished, asking>>

Progress == Fail \/ \E s \in Steps : StepDone(s) \/ Ask(s)

Next == Start \/ Answer \/ Progress

SafeSpec == Init /\ [][Next]_vars

Spec == SafeSpec /\ WF_vars(Progress)

=============================================================================
