SPECIFICATION Spec
CONSTANTS
    Requests = {r1, r2}
    Threshold = 2
    MaxChallenges = 2
    MaxSessions = 3
SYMMETRY MCSymmetry
INVARIANTS OneSessionPerLogin FiveFailuresLock
PROPERTIES SignedOutStays
CHECK_DEADLOCK FALSE
