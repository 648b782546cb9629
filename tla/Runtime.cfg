SPECIFICATION RuntimeSpec
CONSTANTS
    GroupBits = 3
    Bits32 = 8
    Bits64 = 16
    SeenBits = 2
    Cases <- MCCases
    Damage <- MCDamage
    Readers = {r1, r2}
    Files = {1, 2, 3}
    Hash <- MCHash
    Charge <- MCCharge
    Capacity = 2
    MinBuckets = 1
    MmapLimit = 1
    MaxKey = 4
    kMaxHeight = 3
    Processes = {p1, p2}
    Callers = {t1, t2}
    MaxItems = 3
    NoProcess = none
INVARIANTS
    RoundTrip
    SizesAgree
    DecodeStaysInside
    TablesOutliveReaders
    ResourcesAccounted
    SearchesMissNothing
    OneLockHolder
    BackgroundWorkIsRun
CHECK_DEADLOCK FALSE
