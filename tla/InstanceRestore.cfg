CONSTANTS
  Setups = {s1}
  s1 = s1
  Restores = {r1}
  r1 = r1
  Readers = {g1}
  g1 = g1
  Names = {u1, u2}
  u1 = u1
  u2 = u2
  Collections = 2
  Faults = {}
SPECIFICATION Spec
INVARIANTS
  UsersRestored
