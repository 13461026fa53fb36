CONSTANTS
  Workers = {w1,w2}
  Users = {u1,u2}
  N = 2
  PromptCount <- PromptsOneOne
  MaxRetries = 2
  MaxInterventions = 1
  MaxAborts = 0
  MaxTorn = 1
  MaxTimeouts = 1
SPECIFICATION Spec
SYMMETRY Symmetry
INVARIANTS
  PausedIsAnswerable
  CompleteLeavesNonePending
