CONSTANTS
  s1 = s1
  s2 = s2
  r1 = r1
  g1 = g1
  u1 = u1
  u2 = u2
  i1 = i1
  i2 = i2
  None = None
  Other = Other
  New = New
  Here = Here
  There = There
  Setups = {s1, s2}
  Restores = {r1}
  Readers = {g1}
  Names = {u1, u2}
  Collections = 1
  Faults = {"store", "restart"}
  MaxReads = 2
  MaxOpens = 2
  Slots = {s1, s2}
  Backups <- OneBackup
  MaxStarts = 2
  MaxOthers = 1
  Limit = 1
  MaxOffered = 2
  Ids = {i1, i2, "b1"}
  Slugs = {"router", "lamp"}
  Seeds = {"router"}
  MaxRestarts = 1
SPECIFICATION AllSpec
SYMMETRY Symmetry
INVARIANTS
  CompleteHasAdmin
  SetupEffective
  SettingsBound
  RestoredWithData
  PagesTypeOK
  PagesShow
  SlugsNameTypes
  TypedForIt
PROPERTIES
  SystemTypesKept
  OtherGroupsKept
CHECK_DEADLOCK FALSE
