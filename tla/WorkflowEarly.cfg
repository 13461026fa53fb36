CONSTANTS
  Workers = {w1}
  Users = {u1}
  N = 2
  PromptCount <- PromptsTwoNone
  MaxRetries = 2
  MaxInterventions = 1
  MaxAborts = 0
  MaxTorn = 0
  MaxTimeouts = 0
SPECIFICATION FairSpec
PROPERTY
  AnswerIsActedOn
