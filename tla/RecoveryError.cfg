SPECIFICATION Spec
CONSTANTS
    Writers <- MCWriters
    Kinds <- MCKinds
    Stored = {0, 1}
    kWriteBuffer = 1
    kMaxGroup = 2
    kL0_CompactionTrigger = 2
    kL0_StopWritesTrigger = 3
    MaxEvents = 2
INVARIANT
    RecoveryErrorsFailOpen
CHECK_DEADLOCK FALSE
