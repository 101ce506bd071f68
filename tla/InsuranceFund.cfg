SPECIFICATION Spec
CONSTANTS
    Governors = {g1, g2}
    Stakers = {s1, s2}
    Claims = {1}
    Proposals = {1}
    Amounts = {1}
    SlashBps = {4000}
    Quorums = {1, 2}
    YieldPrecision = 10
    MaxContributed = 2
    MaxStaked = 3
    MaxFees = 2
SYMMETRY Alike
INVARIANTS TypeOK PaidOnce PoolWithinStakes StakersCovered TalliesCountVoters
PROPERTIES ApprovalNeedsQuorum
CHECK_DEADLOCK FALSE
