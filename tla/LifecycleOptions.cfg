SPECIFICATION Spec
CONSTANTS
    MaxMilestones = 1
    AmountChoices = {10, 20}
    TotalAmount = 30
    PlatformFee = 3
    SlashPercentage = 10
    ReleaseTimelock = FALSE
    HasDeadline = TRUE
    HasLockTime = TRUE
    HasDisputeTimeout = TRUE
    HasArbiter = TRUE
    HasOracle = TRUE
    RepeatedIds = TRUE
    Approvers = {a1, a2}
    Weight <- MCWeight
    Threshold = 2
INVARIANTS DisputeHasClock
PROPERTIES SettledStaysSettled ImplementsAccount
CHECK_DEADLOCK FALSE
