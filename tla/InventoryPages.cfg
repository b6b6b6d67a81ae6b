CONSTANTS
  t1 = t1
  t2 = t2
  s1 = s1
  s2 = s2
  c1 = c1
  j1 = j1
  j2 = j2
  j3 = j3
  n1 = n1
  n2 = n2
  n3 = n3
  r1 = r1
  u1 = u1
  u2 = u2
  None = None
  Things = {t1, t2}
  Scans = {s1, s2}
  Checks = {c1}
  Macs <- MCMacs
  Ips = {"ip1", "ip2"}
  Upper <- MCUpper
  Hosts <- MCHosts
  Forms <- FormsExact
  MaxRunning = 2
  MaxMessages = 2
  Faults = {"store", "restart"}
  Jobs = {j1, j2, j3}
  Networks = {n1, n2, n3}
  Requests = {r1}
  MaxSerial = 3
  MaxQueueDepth = 2
  Users = {u1, u2}
  Limit = 1
  Collections <- Restored
  Sealed = "things"
  MaxStarts = 2
  MaxOthers = 1
SPECIFICATION AllSpec
SYMMETRY AllSymmetry
INVARIANTS
  UniqueMac
  DiscoveredNotMonitored
  OfflineRecorded
  PagesTypeOK
  SettingsKept
PROPERTIES
  RegisteredStays
  DeletedStays
  SerialHistory
  DocumentedLimits
CHECK_DEADLOCK FALSE
