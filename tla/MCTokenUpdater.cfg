SPECIFICATION FairSpec
CONSTANTS
  r1 = r1
  r2 = r2
  i1 = i1
  i2 = i2
  Requests = {r1, r2}
  Ids = {i1, i2}
  NoId = NoId
  Cap = 2
  BatchMax = 2
INVARIANTS TypeOK UpdateHasIds
PROPERTIES RecordsUses RequestLetGo UseSettled
