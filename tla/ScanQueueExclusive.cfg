CONSTANTS
  Jobs = {j1, j2}
  j1 = j1
  j2 = j2
  Networks = {n1}
  n1 = n1
  Requests = {r1, r2}
  r1 = r1
  r2 = r2
  MaxQueueDepth = 2
  Faults = {}
SPECIFICATION Spec
SYMMETRY Symmetry
INVARIANTS
  OneScanPerNetwork
CHECK_DEADLOCK FALSE
