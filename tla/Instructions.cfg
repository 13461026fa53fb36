CONSTANTS
  ann = ann
  bob = bob
  platform = platform
  orgAll = orgAll
  orgTyped = orgTyped
  annOwn = annOwn
  bobOwn = bobOwn
  cluster = cluster
  task = task
  thread = thread
  Requests = {r1,r2,r3}
  Slots = {platform,orgAll,orgTyped,annOwn,bobOwn,cluster,task,thread}
  Seeded = {platform,orgTyped,annOwn,cluster}
  Users = {ann,bob}
  Seeder = bob
  Contents = {c0,c1}
  SeedText = c0
  None = none
  Level <- LevelOf
  Typed = {orgTyped}
  Owner <- OwnerOf
  Entity <- EntityOf
  OrgAdmins = {bob}
  AppAdmins = {bob}
  Blocking = {c1}
  TTL = 0
  MaxTime = 1
  MaxTokens = 2
  Chain = {platform,orgAll,orgTyped,annOwn,cluster,task,thread}
SPECIFICATION Spec
SYMMETRY RequestSymmetry
CHECK_DEADLOCK FALSE
INVARIANTS
  StoreIsSound
  SavedWasApproved
  LayersAreFaithful
PROPERTIES
  OnlyEntitledActivate
