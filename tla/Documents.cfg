CONSTANTS
  kb = kb
  short = short
  long = long
  thread = thread
  Docs = {kb,long}
  Kb = {kb}
  Papers = {long}
  Long = {long}
  Suspicious = {kb,long}
  Workers = {w1,w2}
  MaxAborts = 1
  MaxTimeouts = 1
SPECIFICATION TimelySpec
INVARIANTS
  IndexMatches
PROPERTIES
  DecisionsStay
  ImplementsLife
  EveryUploadSettles
