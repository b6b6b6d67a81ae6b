CONSTANTS
  Jobs = {j1, j2, j3, j4}
  j1 = j1
  j2 = j2
  j3 = j3
  j4 = j4
  Networks = {n1, n2}
  n1 = n1
  n2 = n2
  Requests = {r1, r2}
  r1 = r1
  r2 = r2
  MaxQueueDepth = 2
  Faults = {"worker", "api", "store"}
SPECIFICATION Spec
SYMMETRY Symmetry
INVARIANTS
  TypeOK
  QueueDepthBound
  ActivePerNetworkBound
  JobInOnePlace
  StatusFollowsPlace
PROPERTIES
  StatusForward
  LifecycleSafe
CHECK_DEADLOCK FALSE
