CONSTANTS
  Kinds = {"word", "blank", "heading", "stop", "command", "override", "hidden", "mimic", "zero"}
  Sizes = {1, 2, 3}
  Overlaps = {0, 1, 3}
  MaxText = 5
  MinSentences = 2
  DensityPercent = 50
  WarningThreshold = 5
  k1 = k1
  k2 = k2
  k3 = k3
  c1 = c1
  c2 = c2
  paper = paper
  Pieces = {k1, k2, k3}
  TaskPapers = {paper}
  Collections = {c1, c2}
  Owner <- MCOwner
  Grades = {4, 6, 8}
  Thresholds = {3, 7}
  TopK = 2
  Floor = 5
  Enough = 2
  MaxChanges = 1
SPECIFICATION Spec
CHECK_DEADLOCK FALSE
INVARIANTS
  ChunksHoldTheText
  AnswerIsBest
PROPERTIES
  StatusFallsOnlyByDilution
