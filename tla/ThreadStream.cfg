CONSTANTS
  Streams = {s1,s2}
  Sends = {m1,m2}
  Marks = {k1}
  Prompted = {s1,s2}
  HistoryLimit = 1
  Keep = 1
  Cost = 10
  WarnAt = 10
  None = none
SPECIFICATION TimelySpec
INVARIANTS
  ExchangesAreWhole
  UsageIsCharged
  ContextIsExplained
PROPERTIES
  StreamsEnd
