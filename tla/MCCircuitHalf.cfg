SPECIFICATION FairSpec
CONSTANTS
    a1 = a1
    s1 = s1
    q1 = q1
    q2 = q2
    Api <- MCApi
    Server <- MCServer
    HasCb <- MCAll
    Request <- MCRequest
    CloseTicks <- MCTwoTicks
    MaxLag = 1
    MaxRefresh = 1
PROPERTIES
    HalfOnlyFromClose
CHECK_DEADLOCK FALSE
