CONSTANTS
  w1 = w1 w2 = w2 w3 = w3 bad = bad
  Worlds = {w1, w2, w3, bad}
  Unreadable = {bad}
  MaxScans = 3 MaxRefreshes = 2 MaxFaults = 1
  ByteBase = 8 Unit = 2 BEIBAO_COUNT = 4
  MaxField = 3
  Shapes <- MCShapes
  Sittings <- MCSittings
  Players <- MCPlayers
  Undecodable = Undecodable NoFile = NoFile
  t1 = t1 t2 = t2 i1 = i1 i2 = i2 s1 = s1 b1 = b1
  Threads = {t1, t2}
  Iterators = {i1, i2}
  Snapshots = {s1}
  Batches = {b1}
  db = db None = None Nobody = Nobody
CHECK_DEADLOCK FALSE
SPECIFICATION MCSpec
INVARIANTS NoWorldTwice UndisturbedScanIsComplete TheGameSeesThePicture
INVARIANTS ChildrenDieFirst CallsFindTheirObject AllReleased FilesOutliveDb
PROPERTY RefreshIsPossibleAgain
