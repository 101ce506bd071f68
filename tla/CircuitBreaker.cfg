SPECIFICATION BreakerSpec
CONSTANTS
    RetryCallers = {r1, r2}
    DirectCallers = {d1}
    FailureThreshold = 2
    SuccessThreshold = 2
    Timeout = 4
    WindowSize = 3
    RetryAttempts = 3
    RetryDelay = 1
INVARIANTS ClosedBelowThreshold
PROPERTIES ClosesOnStreak OnlyDirectCallsProbe
