CONSTANTS
    MaxByte = 4
    kMaxSequenceNumber = 9
    VarintBase = 4
    SequenceBytes = 1
    CountBytes = 1
    kNumLevels = 7
    DataBlockBytes = 7
    RestartInterval = 2
    kEncodedLength = 8
    FilterBase = 4
    BitsPerKey = 3
    MinFilterBits = 6
    ByteBits = 4
    HashBits = 4
    Rotation = 2
    Hash <- MCHash
    LogBlock = 10
    LogHeader = 3
    Groups <- MCGroups
    Targets <- MCTargets
    FileEntries = 3
    Budgets <- MCBudgets
    None = None
SPECIFICATION Spec
CHECK_DEADLOCK FALSE
INVARIANTS RecoveredIsWhole TablesFindTheirKeys IteratorIsACursor
