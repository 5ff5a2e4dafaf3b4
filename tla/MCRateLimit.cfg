SPECIFICATION Spec
CONSTANTS
    Request = {r1, r2}
    MaxQPS = 2
    Second = 3
    Quantum = 2
    Count <- MCCount
    MaxWait <- MCMaxWait
    MaxProxies = 2
    MaxLimiters = 2
    MaxCalls = 3
    MaxNow = 4
INVARIANTS
    TypeOK
    LazyIsEager
    RateBound
PROPERTIES
    InOrder
CHECK_DEADLOCK FALSE
