CONSTANTS
  reads = reads
  external = external
  student = student
  root = root
  orgadmin = orgadmin
  Requests = {r1,r2,r3}
  Slots <- SlotSet
  Seeded <- SeededSet
  Users = {root,orgadmin}
  Seeder = root
  c1 = c1
  Contents = {c0,c1}
  SeedText = c0
  None = none
  plat = plat
  org1 = org1
  PlatformOrg = plat
  Org = org1
  Types = {reads}
  Modules = {external,student}
  Admin <- AdminOf
  Approvals <- Approved1
  MaxPrompts = 2
SPECIFICATION Spec
SYMMETRY RequestSymmetry
CHECK_DEADLOCK FALSE
INVARIANTS
  SerialLibrary
  DefaultsReachTasks
  ThreadsFollowTheirEntry
PROPERTIES
  SerialKeepsPrompts
