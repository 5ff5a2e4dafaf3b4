SPECIFICATION FairSpec
CONSTANTS
    c1 = c1
    s1 = s1
    w1 = w1
    w2 = w2
    Cluster <- MCCluster
    Server <- MCServer
    Worker <- MCWorker
    CheckerCap = 4
    MaxOps = 5
INVARIANTS
    NoWaitCycle
    ActivesMatchUp
    BindsOnKnownServers
    Converged
PROPERTIES
    EventsDrain
CHECK_DEADLOCK FALSE
