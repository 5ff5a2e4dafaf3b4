SPECIFICATION FairSpec
CONSTANTS
    NumCalls = 2
    NumBuckets = 2
    NumLocks = 2
    Duration <- MCDuration
    MaxTicks = 4
    MaxStarts = 2
INVARIANTS
    TypeOK
    NotOverdue
    StopExact
    FreelistLocked
PROPERTIES
    ServiceSpec
    Served
CHECK_DEADLOCK FALSE
