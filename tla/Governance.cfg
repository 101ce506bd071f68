SPECIFICATION Spec
CONSTANTS
    h1 = h1
    h2 = h2
    Holders = {h1, h2}
    Treasury = h2
    Proposers = {h1}
    Stakers = {h1}
    Lockers = {h2}
    Senders = {h2}
    Payees = {h1}
    Endowment = 2
    MaxProposals = 2
    Amounts = {2}
    Snapshots = {8}
    ProposalThresholds = {2}
    Quorums = {2500}
    Approvals = {5100}
    ProposerFee = 1
    MinStake = 2
    SlashPercent = 50
    MaxPeriods = 1
INVARIANTS CustodyAccounted DecisionSound TalliesWithinSupply
CHECK_DEADLOCK FALSE
