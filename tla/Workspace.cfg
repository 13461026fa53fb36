CONSTANTS
  ann = ann
  bob = bob
  course = course
  project = project
  essay = essay
  shelf = shelf
  sample = sample
  other = other
  Requests = {r1,r2,r3}
  Users = {ann,bob}
  SeedClusters <- Clusters0
  SeedTasks <- Tasks0
  SeedCollections <- Collections0
  Names = {sample,other}
  Modules = {"student_paper_review","external_paper_review"}
  None = none
  SeedUser = ann
  Sample = sample
SPECIFICATION StartSpec
SYMMETRY RequestSymmetry
CHECK_DEADLOCK FALSE
INVARIANTS
  WorkspaceIsSound
  AttachmentsAreSingle
PROPERTIES
  StartsRepeat
