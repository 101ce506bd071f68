SPECIFICATION Spec
CONSTANTS
    MaxMilestones = 2
    AmountChoices = {10, 20}
    TotalAmount = 20
    PlatformFee = 3
    SlashPercentage = 10
    ReleaseTimelock = TRUE
    HasDeadline = TRUE
    HasLockTime = FALSE
    HasDisputeTimeout = FALSE
    HasArbiter = FALSE
    HasOracle = FALSE
    RepeatedIds = FALSE
    Approvers = {}
    Weight <- MCWeight
    Threshold = 2
INVARIANTS TypeOK FundsAccounted Solvent CountersAgree CancellationDiscipline
PROPERTIES TerminalMilestonesStay
CHECK_DEADLOCK FALSE
