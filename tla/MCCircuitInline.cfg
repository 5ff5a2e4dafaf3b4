SPECIFICATION FairSpec
CONSTANTS
    a1 = a1
    s1 = s1
    q1 = q1
    q2 = q2
    Api <- MCApi
    Server <- MCServer
    HasCb <- MCAll
    Request <- MCRequest
    CloseTicks <- MCUnset
    MaxLag = 1
    MaxRefresh = 0
PROPERTIES
    CloseEnds
CHECK_DEADLOCK FALSE
