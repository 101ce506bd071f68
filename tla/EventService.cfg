SPECIFICATION ServiceSpec
CONSTANTS
    Ticks = {t1, t2}
    EventLogs <- MCEventLogs
    PageLimit = 2
    TotalAmount = 3
    Released = 1
    MaxCrashes = 1
    MaxFailures = 1
SYMMETRY MCSymmetry
INVARIANTS ServiceTypeOK NothingElseLost RowsMirrorLog AnnouncedOnce
