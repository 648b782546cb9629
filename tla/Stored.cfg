SPECIFICATION StoredSpec
CONSTANTS
    Keys <- MCKeys
    Stored <- MCDatabases
    MaxSequence = 99
    kNumLevels = 4
    kMaxMemCompactLevel = 2
    kL0_CompactionTrigger = 2
    kTargetFileSize = 2
    kMaxGrandParentOverlap = 2
    kExpandedCompactionLimit = 6
    MaxBytesForLevel1 = 2
    kBlockSize = 8
    Lengths <- MCLengths
    MaxRecords = 2
    MaxDamage = 1
    MaxLogFailures = 1
    InitialOffsets <- MCInitialOffsets
INVARIANTS
    TablesDisjoint
    LevelsReadsAreCurrent
    NothingFabricated
    DamageIsContained
    CrashIsNotCorruption
CHECK_DEADLOCK FALSE
