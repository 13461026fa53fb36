CONSTANTS
  Workers = {w1}
  Users = {u1}
  N = 3
  PromptCount <- PromptsTwoOneNone
  MaxRetries = 2
  MaxInterventions = 2
  MaxAborts = 1
  MaxTorn = 1
  MaxTimeouts = 1
SPECIFICATION Spec
INVARIANTS
  StepsInOrder
  FailedMeansExhausted
  OneThreadPerStep
  NoWorkWhilePaused
PROPERTIES
  ProgressIsKept
