----------------------------- MODULE MCWorkflow -----------------------------
(***************************************************************************)
(* Instances of Workflow for TLC: a template of two or three steps with    *)
(* the prompt counts that matter (none, one, several).                     *)
(***************************************************************************)
EXTENDS WorkflowRefinement, TLC

PromptsTwoNone == <<2, 0>>
PromptsTwoOneNone == <<2, 1, 0>>
PromptsOneOne == <<1, 1>>

Symmetry == Permutations(Workers) \cup Permutations(Users)

=============================================================================
