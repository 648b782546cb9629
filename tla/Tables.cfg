SPECIFICATION ReadSpec
CONSTANTS
    InternalKeys <- MCInternalKeys
    Targets <- MCTargets
    MaxByte = 2
    MaxTag = 3
    ValueSize <- MCValueSize
    block_restart_interval = 2
    block_size = 9
    kFilterBase = 12
    BloomHash <- MCBloomHash
    HashBits = 4
    bits_per_key = 3
    MinFilterBits = 8
    MaxBadBlocks = 1
    UserKeys <- MCUserKeys
    Children <- MCChildren
    StoredWrites = 3
    MaxNewWrites = 1
    MaxCorrupt = 1
INVARIANTS
    LookupsFind
    TableIteratorExact
    IteratorShowsSnapshot
CHECK_DEADLOCK FALSE
