SPECIFICATION Spec
CONSTANTS
  r1 = r1
  r2 = r2
  u1 = u1
  u2 = u2
  b1 = b1
  s1 = s1
  s2 = s2
  None = None
  Requests = {r1, r2}
  Users = {u1, u2}
  Maps = {b1}
  Sets = {s1, s2}
  SetOf <- MCSetOf
  Asks <- MCAsks
  QueueSize = 2
  MaxPerUser = 1
  Lifetime = 1
  MaxTime = 1
  MaxRows = 4
  MaxShort = 1
SYMMETRY Symmetry
INVARIANTS TypeOK QueueBound UserBound DuplicateBound QueuedIsFetched
