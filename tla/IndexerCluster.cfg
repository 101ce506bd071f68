SPECIFICATION Spec
CONSTANTS
    n1 = n1
    n2 = n2
    t1 = t1
    t2 = t2
    t3 = t3
    Nodes = {n1, n2}
    Ticks = {t1, t3}
    NodeOf <- MCNodeOf
    MaxLedger = 2
    BatchSize = 2
    PageLimit = 1
    MaxApplied = 1
    MaxCrashes = 1
    MaxFailures = 1
    MaxLosses = 1
INVARIANTS TypeOK NothingLost TickExclusion
PROPERTIES EventuallyIndexed
