CONSTANTS
  Things = {t1, t2}
  t1 = t1
  t2 = t2
  Scans = {s1}
  s1 = s1
  Checks = {c1}
  c1 = c1
  Macs <- MCMacs
  Ips = {"ip1", "ip2"}
  Upper <- MCUpper
  Hosts <- MCHosts
  Forms <- FormsLower
  MaxRunning = 1
  MaxMessages = 2
  Faults = {}
SPECIFICATION Spec
SYMMETRY Symmetry
INVARIANTS
  OneThingPerDevice
