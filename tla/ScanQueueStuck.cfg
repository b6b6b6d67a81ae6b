CONSTANTS
  Jobs = {j1, j2}
  j1 = j1
  j2 = j2
  Networks = {n1}
  n1 = n1
  Requests = {r1}
  r1 = r1
  MaxQueueDepth = 1
  Faults = {"worker"}
SPECIFICATION LiveSpec
PROPERTIES
  AcceptedEnds
CHECK_DEADLOCK FALSE
