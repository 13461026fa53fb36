CONSTANTS
  Workers = {w1}
  Users = {u1}
  N = 3
  PromptCount <- PromptsTwoOneNone
  MaxRetries = 2
  MaxInterventions = 2
  MaxAborts = 2
  MaxTorn = 0
  MaxTimeouts = 1
SPECIFICATION TimelySpec
INVARIANTS
  RowsAgree
PROPERTIES
  AnswerIsActedOn
  KeepsContract
  RunningSettles
