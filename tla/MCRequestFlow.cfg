SPECIFICATION FairSpec
CONSTANTS
    q1 = q1
    q2 = q2
    Request <- MCRequest
    NoRequest = NoRequest
    Worker <- MCWorker
    Api <- MCApi
    Object <- MCObject
    Group <- MCGroup
    Torn = Torn
    Unread = Unread
    MaxTimes = 2
    DispatchCap = 1
    CopyCap = 1
INVARIANTS
    BatchesInOrder
    WritesOwned
    RenderedWhole
    DependComplete
    ResponsesReleased
PROPERTIES
    RequestsAnswered
CHECK_DEADLOCK FALSE
