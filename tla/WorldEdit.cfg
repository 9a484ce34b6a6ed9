CONSTANTS
  levelname = levelname level = level DB = DB NoMap = NoMap
  u1 = u1 u2 = u2 u3 = u3 u4 = u4
  Plain = {levelname}
  Uuids = {u1, u2, u3, u4}
  Slots = {0, 1}
  Inventories <- MCInventories
  Scenarios <- MCScenarios
  MaxJobs = 2
CHECK_DEADLOCK FALSE
SPECIFICATION FairSpec
INVARIANTS NothingLost SuccessMeansMade NoItemWithoutMap
PROPERTIES MapsAreKept EditEnds
