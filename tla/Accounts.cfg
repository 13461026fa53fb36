CONSTANTS
  Platform = platform
  uni = uni
  root = root
  deputy = deputy
  chair = chair
  newcomer = newcomer
  Requests = {r1,r2,r3}
  SeedOrgs = {platform,uni}
  Slugs = {platform,uni,lab}
  SeedUsers = {root,deputy,chair}
  SeedUser <- SeedUserRows
  Emails = {root,deputy,chair,newcomer}
  Signers = {chair}
  Signins = {s1}
  InviteTTL = 1
  AccessTTL = 1
  MaxTime = 2
  None = none
SPECIFICATION Spec
SYMMETRY RequestSymmetry
CHECK_DEADLOCK FALSE
INVARIANTS
  InvitesMakeAccounts
  SerialAdmin
  SessionsEnd
PROPERTIES
  OnlyAppAdminsAppoint
