CONSTANTS
    r1 = r1
    Readers = {r1}
    HeadNode = HeadNode
    Nil = Nil
    Raw = Raw
    MaxHeight = 2
    Users = {1, 2}
    Updates <- MCUpdates
    MaxSequence = 3
    Key <- Entry
    Before <- EntryBefore
    BlockSize = 32
    Align = 4
    PointerBytes = 4
    EntryBytes <- MCBytes
    t1 = t1
    t2 = t2
    Threads = {t1, t2}
    Numbers = {1, 2}
    Offsets = {1, 2}
    Compressed = {2}
    BlockCharge <- MCBlockCharge
    Capacities <- MCCapacities
    MmapLimit = 1
    FdLimit = 1
    MaxContents = 3
    MaxReads = 4
SPECIFICATION MCSpec
CHECK_DEADLOCK FALSE
SYMMETRY ThreadSymmetry
INVARIANTS WellFormed GetIsExact CachesAgree ReadsItsBlock DeletedIsClosed
PROPERTIES IsAnOrderedSet GrowsWithinCapacity
