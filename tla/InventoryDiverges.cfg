CONSTANTS
  Things = {t1}
  t1 = t1
  Scans = {s1}
  s1 = s1
  Checks = {c1}
  c1 = c1
  Macs <- MCMacs
  Ips = {"ip1", "ip2"}
  Upper <- MCUpper
  Hosts <- MCHosts
  Forms <- FormsExact
  MaxRunning = 2
  MaxMessages = 3
  Faults = {}
SPECIFICATION Spec
SYMMETRY Symmetry
INVARIANTS
  HistorySettles
