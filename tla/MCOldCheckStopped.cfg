SPECIFICATION Spec
CONSTANTS
    c1 = c1
    s1 = s1
    w1 = w1
    w2 = w2
    Cluster <- MCCluster
    Server <- MCServer
    Worker <- MCWorkers
    CheckerCap = 6
    MaxOps = 5
INVARIANTS
    OldCheckStopped
CHECK_DEADLOCK FALSE
