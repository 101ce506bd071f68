---------------------------- MODULE InsuranceFund ----------------------------
(***************************************************************************)
(* contracts/insurance_contract/src/lib.rs: one token account that holds    *)
(* contributions, out of which governors approve claims, and stakes, which  *)
(* earn platform fees and which governors may slash.                        *)
(*                                                                         *)
(* A call is atomic: one that returns Err leaves no trace (the Rejected     *)
(* that vote writes to an expired claim is reverted with it), and the       *)
(* reentrancy lock is free between calls.  The admin may move the claim cap *)
(* and the slash ceiling at any time, so the amounts and percentages to     *)
(* choose from are constants.  add_platform_fees asks its caller to         *)
(* transfer the tokens separately: the model does both in one step.         *)
(***************************************************************************)
EXTENDS Integers, FiniteSets, Functions

CONSTANTS
    Governors,       \* addresses the admin may register as governors
    Stakers,         \* addresses that stake
    Claims,          \* claim ids, 1 .. n
    Proposals,       \* slash proposal ids, 1 .. n
    Amounts,         \* amounts of contributions, claims, stakes and fees
    SlashBps,        \* admissible slash_bps
    Quorums,         \* values the admin gives the quorum, the first included
    YieldPrecision,  \* YIELD_PRECISION
    MaxContributed,  \* bound on total_contributed
    MaxStaked,       \* bound on the nominal stakes
    MaxFees          \* bound on the fees ever added

ASSUME FundAssumption ==
    /\ IsFiniteSet(Governors) /\ IsFiniteSet(Stakers)
    /\ Claims \subseteq Nat /\ Proposals \subseteq Nat
    /\ Amounts \subseteq Nat \ {0}
    /\ SlashBps \subseteq 1 .. 4000
    /\ Quorums \subseteq Nat \ {0}
    /\ YieldPrecision \in Nat \ {0}

VARIABLES
    governors,    \* registered governors
    quorum,       \* Quorum
    claims,       \* Claim of each id
    votes,        \* Vote(claim_id, governor)
    proposals,    \* SlashProposal of each id
    slashVotes,   \* SlashVote(slash_id, governor)
    balance,      \* tokens of the contract
    contributed,  \* stats.total_contributed
    paidOut,      \* stats.total_paid_out
    stakes,       \* StakeRecord of each staker; amount 0 when there is none
    stakeTotal,   \* StakeTotal, nominal
    stakePool,    \* StakePool, after slashes
    acc,          \* YieldAccumulator
    fees,         \* history: fees ever added
    yieldPaid     \* history: yield ever paid

governanceVars == <<governors, quorum>>
claimVars == <<claims, votes>>
slashVars == <<proposals, slashVotes>>
statVars  == <<contributed, paidOut>>
stakeVars == <<stakes, stakeTotal, stakePool>>
yieldVars == <<acc, fees, yieldPaid>>
vars == <<governanceVars, claimVars, slashVars, balance, statVars, stakeVars,
          yieldVars>>

----------------------------------------------------------------------------
ClaimStatuses == {"absent", "Pending", "Approved", "Rejected", "Paid", "Withdrawn"}
SlashStatuses == {"absent", "Pending", "Approved", "Rejected", "Executed"}
Ballots       == {"none", "for", "against"}
ClaimRecords  == [status : ClaimStatuses, amount : Nat, expired : BOOLEAN,
                  votesFor : Nat, votesAgainst : Nat]
SlashRecords  == [status : SlashStatuses, bps : Nat, votesFor : Nat, votesAgainst : Nat]
StakeRecords  == [amount : Nat, debt : Nat]

\* The governors that cast ballot b in the votes v on one matter.
Voters(v, b) == {g \in Governors : v[g] = b}

\* pending_yield; saturation is out of reach of the amounts that exist.
PendingYield(s) == (stakes[s].amount * (acc - stakes[s].debt)) \div YieldPrecision

PoolShare(a) == IF stakeTotal > 0 THEN (a * stakePool) \div stakeTotal ELSE a

\* Yield that stake and unstake pay before they reset the debt.  They skip it
\* in silence when the contract cannot pay.
YieldSettled(s) == IF balance >= PendingYield(s) THEN PendingYield(s) ELSE 0

Init ==
    /\ governors = {} /\ quorum \in Quorums
    /\ claims = [c \in Claims |-> [status |-> "absent", amount |-> 0, expired |-> FALSE,
                                   votesFor |-> 0, votesAgainst |-> 0]]
    /\ votes = [c \in Claims |-> [g \in Governors |-> "none"]]
    /\ proposals = [p \in Proposals |-> [status |-> "absent", bps |-> 0,
                                         votesFor |-> 0, votesAgainst |-> 0]]
    /\ slashVotes = [p \in Proposals |-> [g \in Governors |-> "none"]]
    /\ balance = 0 /\ contributed = 0 /\ paidOut = 0
    /\ stakes = [s \in Stakers |-> [amount |-> 0, debt |-> 0]]
    /\ stakeTotal = 0 /\ stakePool = 0
    /\ acc = 0 /\ fees = 0 /\ yieldPaid = 0

----------------------------------------------------------------------------
(* Governors *)

AddGovernor(g) ==
    /\ g \notin governors
    /\ governors' = governors \cup {g}
    /\ UNCHANGED <<quorum, claimVars, slashVars, balance, statVars, stakeVars, yieldVars>>

\* remove_governor; the votes the governor has cast stay.
RemoveGovernor(g) ==
    /\ g \in governors
    /\ governors' = governors \ {g}
    /\ UNCHANGED <<quorum, claimVars, slashVars, balance, statVars, stakeVars, yieldVars>>

\* set_quorum; no pending claim or proposal is looked at.
SetQuorum(q) ==
    /\ quorum' = q
    /\ UNCHANGED <<governors, claimVars, slashVars, balance, statVars, stakeVars, yieldVars>>

----------------------------------------------------------------------------
(* Contributions and claims *)

Contribute(a) ==
    /\ contributed + a <= MaxContributed
    /\ balance' = balance + a
    /\ contributed' = contributed + a
    /\ UNCHANGED <<governanceVars, claimVars, slashVars, paidOut, stakeVars, yieldVars>>

\* submit_claim takes the next id.
SubmitClaim(c, a) ==
    /\ claims[c].status = "absent"
    /\ \A d \in Claims : d < c => claims[d].status # "absent"
    /\ claims' = [claims EXCEPT ![c].status = "Pending", ![c].amount = a]
    /\ UNCHANGED <<governanceVars, votes, slashVars, balance, statVars, stakeVars, yieldVars>>

WithdrawClaim(c) ==
    /\ claims[c].status = "Pending"
    /\ claims' = [claims EXCEPT ![c].status = "Withdrawn"]
    /\ UNCHANGED <<governanceVars, votes, slashVars, balance, statVars, stakeVars, yieldVars>>

\* The clock passes expires_at.
ClaimExpires(c) ==
    /\ claims[c].status = "Pending" /\ ~claims[c].expired
    /\ claims' = [claims EXCEPT ![c].expired = TRUE]
    /\ UNCHANGED <<governanceVars, votes, slashVars, balance, statVars, stakeVars, yieldVars>>

\* Mutation of ClaimVerdict: votes_for >= quorum is enough, as in vote_slash.
ClaimVerdictAnyQuorum(nFor, nAgainst) ==
    IF nFor + nAgainst < quorum THEN "Pending"
    ELSE IF nFor >= quorum THEN "Approved" ELSE "Rejected"

\* Status of a claim after a ballot that makes the tally nFor : nAgainst.
ClaimVerdict(nFor, nAgainst) ==
    IF nFor + nAgainst < quorum THEN "Pending"
    ELSE IF nFor >= quorum /\ nFor > nAgainst THEN "Approved" ELSE "Rejected"

\* Mutation of Vote: who has voted is forgotten once the vote is counted.
VoteUnrecorded(g, c, b) ==
    LET nFor     == claims[c].votesFor + (IF b = "for" THEN 1 ELSE 0)
        nAgainst == claims[c].votesAgainst + (IF b = "against" THEN 1 ELSE 0) IN
    /\ g \in governors
    /\ claims[c].status = "Pending" /\ ~claims[c].expired
    /\ votes' = [votes EXCEPT ![c][g] = b]
    /\ claims' = [claims EXCEPT ![c].votesFor = nFor, ![c].votesAgainst = nAgainst,
                                ![c].status = ClaimVerdict(nFor, nAgainst)]
    /\ UNCHANGED <<governanceVars, slashVars, balance, statVars, stakeVars, yieldVars>>

\* vote: once per governor; the ballot that reaches the quorum decides.
Vote(g, c, b) ==
    LET nFor     == claims[c].votesFor + (IF b = "for" THEN 1 ELSE 0)
        nAgainst == claims[c].votesAgainst + (IF b = "against" THEN 1 ELSE 0) IN
    /\ g \in governors
    /\ votes[c][g] = "none"
    /\ claims[c].status = "Pending" /\ ~claims[c].expired
    /\ votes' = [votes EXCEPT ![c][g] = b]
    /\ claims' = [claims EXCEPT ![c].votesFor = nFor, ![c].votesAgainst = nAgainst,
                                ![c].status = ClaimVerdict(nFor, nAgainst)]
    /\ UNCHANGED <<governanceVars, slashVars, balance, statVars, stakeVars, yieldVars>>

\* Mutation of ExecutePayout: the claim stays Approved.
ExecutePayoutKeepsApproved(c) ==
    /\ claims[c].status = "Approved"
    /\ balance >= claims[c].amount
    /\ balance' = balance - claims[c].amount
    /\ paidOut' = paidOut + claims[c].amount
    /\ UNCHANGED <<claims, governanceVars, votes, slashVars, contributed, stakeVars, yieldVars>>

\* Mutation of ExecutePayout: the balance is not tested.
ExecutePayoutUnchecked(c) ==
    /\ claims[c].status = "Approved"
    /\ claims' = [claims EXCEPT ![c].status = "Paid"]
    /\ balance' = balance - claims[c].amount
    /\ paidOut' = paidOut + claims[c].amount
    /\ UNCHANGED <<governanceVars, votes, slashVars, contributed, stakeVars, yieldVars>>

\* execute_payout tests the whole balance, stakes and yield included.
ExecutePayout(c) ==
    /\ claims[c].status = "Approved"
    /\ balance >= claims[c].amount
    /\ claims' = [claims EXCEPT ![c].status = "Paid"]
    /\ balance' = balance - claims[c].amount
    /\ paidOut' = paidOut + claims[c].amount
    /\ UNCHANGED <<governanceVars, votes, slashVars, contributed, stakeVars, yieldVars>>

----------------------------------------------------------------------------
(* Stakes and yield *)

\* Mutation of Stake: only a new record takes the accumulator as its debt.
StakeKeepsDebt(s, a) ==
    /\ stakeTotal + a <= MaxStaked
    /\ stakes' = [stakes EXCEPT ![s] =
         [amount |-> @.amount + a, debt |-> IF @.amount = 0 THEN acc ELSE @.debt]]
    /\ stakeTotal' = stakeTotal + a
    /\ stakePool' = stakePool + a
    /\ balance' = balance - YieldSettled(s) + a
    /\ yieldPaid' = yieldPaid + YieldSettled(s)
    /\ UNCHANGED <<governanceVars, claimVars, slashVars, statVars, acc, fees>>

\* stake credits the pool one to one, whatever it was slashed by.
Stake(s, a) ==
    /\ stakeTotal + a <= MaxStaked
    /\ stakes' = [stakes EXCEPT ![s] = [amount |-> @.amount + a, debt |-> acc]]
    /\ stakeTotal' = stakeTotal + a
    /\ stakePool' = stakePool + a
    /\ balance' = balance - YieldSettled(s) + a
    /\ yieldPaid' = yieldPaid + YieldSettled(s)
    /\ UNCHANGED <<governanceVars, claimVars, slashVars, statVars, acc, fees>>

\* Mutation of Unstake: the pool gives up the nominal amount.
UnstakeNominal(s, a) ==
    /\ a \in 1 .. stakes[s].amount
    /\ balance - YieldSettled(s) >= PoolShare(a)
    /\ stakes' = [stakes EXCEPT ![s] =
         [amount |-> @.amount - a, debt |-> IF @.amount = a THEN 0 ELSE acc]]
    /\ stakeTotal' = stakeTotal - a
    /\ stakePool' = stakePool - a
    /\ balance' = balance - YieldSettled(s) - PoolShare(a)
    /\ yieldPaid' = yieldPaid + YieldSettled(s)
    /\ UNCHANGED <<governanceVars, claimVars, slashVars, statVars, acc, fees>>

\* unstake returns the share of the pool, rounded down.
Unstake(s, a) ==
    /\ a \in 1 .. stakes[s].amount
    /\ balance - YieldSettled(s) >= PoolShare(a)
    /\ stakes' = [stakes EXCEPT ![s] =
         [amount |-> @.amount - a, debt |-> IF @.amount = a THEN 0 ELSE acc]]
    /\ stakeTotal' = stakeTotal - a
    /\ stakePool' = stakePool - PoolShare(a)
    /\ balance' = balance - YieldSettled(s) - PoolShare(a)
    /\ yieldPaid' = yieldPaid + YieldSettled(s)
    /\ UNCHANGED <<governanceVars, claimVars, slashVars, statVars, acc, fees>>

\* add_platform_fees; without stakers the fee is nobody's yield.
AddPlatformFees(a) ==
    /\ fees + a <= MaxFees
    /\ fees' = fees + a
    /\ balance' = balance + a
    /\ acc' = IF stakeTotal > 0
                THEN acc + (a * YieldPrecision) \div stakeTotal ELSE acc
    /\ UNCHANGED <<governanceVars, claimVars, slashVars, statVars, stakeVars, yieldPaid>>

ClaimYield(s) ==
    /\ stakes[s].amount > 0
    /\ PendingYield(s) > 0 /\ balance >= PendingYield(s)
    /\ stakes' = [stakes EXCEPT ![s].debt = acc]
    /\ balance' = balance - PendingYield(s)
    /\ yieldPaid' = yieldPaid + PendingYield(s)
    /\ UNCHANGED <<governanceVars, claimVars, slashVars, statVars, stakeTotal,
                   stakePool, acc, fees>>

----------------------------------------------------------------------------
(* Slashing *)

ProposeSlash(g, p, bps) ==
    /\ g \in governors
    /\ proposals[p].status = "absent"
    /\ \A q \in Proposals : q < p => proposals[q].status # "absent"
    /\ proposals' = [proposals EXCEPT ![p].status = "Pending", ![p].bps = bps]
    /\ UNCHANGED <<governanceVars, claimVars, slashVotes, balance, statVars,
                   stakeVars, yieldVars>>

\* vote_slash: here votes_for need not outnumber votes_against.
VoteSlash(g, p, b) ==
    LET nFor     == proposals[p].votesFor + (IF b = "for" THEN 1 ELSE 0)
        nAgainst == proposals[p].votesAgainst + (IF b = "against" THEN 1 ELSE 0) IN
    /\ g \in governors
    /\ slashVotes[p][g] = "none"
    /\ proposals[p].status = "Pending"
    /\ slashVotes' = [slashVotes EXCEPT ![p][g] = b]
    /\ proposals' = [proposals EXCEPT
         ![p].votesFor = nFor, ![p].votesAgainst = nAgainst,
         ![p].status = IF nFor + nAgainst < quorum THEN "Pending"
                       ELSE IF nFor >= quorum THEN "Approved" ELSE "Rejected"]
    /\ UNCHANGED <<governanceVars, claimVars, balance, statVars, stakeVars, yieldVars>>

\* execute_slash takes the share of the pool, or all that is left.
ExecuteSlash(p) ==
    LET slashAmount == (stakePool * proposals[p].bps) \div 10000
        actualSlash == IF slashAmount < balance THEN slashAmount ELSE balance IN
    /\ proposals[p].status = "Approved"
    /\ proposals' = [proposals EXCEPT ![p].status = "Executed"]
    /\ balance' = balance - actualSlash
    /\ stakePool' = stakePool - actualSlash
    /\ UNCHANGED <<governanceVars, claimVars, slashVotes, statVars, stakes,
                   stakeTotal, yieldVars>>

----------------------------------------------------------------------------
GovernanceStep ==
    \/ \E g \in Governors : AddGovernor(g) \/ RemoveGovernor(g)
    \/ \E q \in Quorums : SetQuorum(q)

ClaimStep(c) ==
    \/ \E a \in Amounts : SubmitClaim(c, a)
    \/ WithdrawClaim(c) \/ ClaimExpires(c) \/ ExecutePayout(c)
    \/ \E g \in Governors, b \in {"for", "against"} : Vote(g, c, b)

StakeStep(s) ==
    \/ \E a \in Amounts : Stake(s, a)
    \/ \E a \in 1 .. stakes[s].amount : Unstake(s, a)
    \/ ClaimYield(s)

SlashStep(p) ==
    \/ \E g \in Governors, bps \in SlashBps : ProposeSlash(g, p, bps)
    \/ \E g \in Governors, b \in {"for", "against"} : VoteSlash(g, p, b)
    \/ ExecuteSlash(p)

Next ==
    \/ GovernanceStep
    \/ \E a \in Amounts : Contribute(a) \/ AddPlatformFees(a)
    \/ \E c \in Claims : ClaimStep(c)
    \/ \E s \in Stakers : StakeStep(s)
    \/ \E p \in Proposals : SlashStep(p)

Spec == Init /\ [][Next]_vars

----------------------------------------------------------------------------
(* Properties *)

\* Type invariant; the contract never spends tokens it does not have.
TypeOK ==
    /\ governors \subseteq Governors /\ quorum \in Quorums
    /\ claims \in [Claims -> ClaimRecords]
    /\ votes \in [Claims -> [Governors -> Ballots]]
    /\ proposals \in [Proposals -> SlashRecords]
    /\ slashVotes \in [Proposals -> [Governors -> Ballots]]
    /\ balance \in Nat /\ contributed \in Nat /\ paidOut \in Nat
    /\ stakes \in [Stakers -> StakeRecords]
    /\ stakeTotal \in Int /\ stakePool \in Int
    /\ acc \in Nat /\ fees \in Nat /\ yieldPaid \in Int

\* The tallies that decide a claim or a slash count every address once, also
\* when the admin removes a governor who has voted and registers him again.
TalliesCountVoters ==
    /\ \A c \in Claims :
          /\ claims[c].votesFor = Cardinality(Voters(votes[c], "for"))
          /\ claims[c].votesAgainst = Cardinality(Voters(votes[c], "against"))
    /\ \A p \in Proposals :
          /\ proposals[p].votesFor = Cardinality(Voters(slashVotes[p], "for"))
          /\ proposals[p].votesAgainst = Cardinality(Voters(slashVotes[p], "against"))

\* A claim is approved only by a step after which a quorum of addresses, and
\* more of them for it than against it, have voted; a tie or a quorum lowered
\* meanwhile never approves, and no other step does.
ApprovalNeedsQuorum ==
    [][\A c \in Claims :
         (claims[c].status # "Approved" /\ claims'[c].status = "Approved") =>
           /\ Cardinality(Voters(votes'[c], "for")) >= quorum
           /\ Cardinality(Voters(votes'[c], "for"))
                > Cardinality(Voters(votes'[c], "against"))]_vars

\* Every claim is paid at most once: what the statistics say was paid out is the
\* sum of the claims that are Paid.
PaidOnce ==
    paidOut = FoldFunctionOnSet(+, 0, [c \in Claims |-> claims[c].amount],
                                {c \in Claims : claims[c].status = "Paid"})

\* Slashing and rounding take value from the stakes and never create it: the
\* pool never exceeds the nominal stakes, and is empty when the last one leaves.
PoolWithinStakes ==
    /\ stakeTotal = FoldFunctionOnSet(+, 0, [s \in Stakers |-> stakes[s].amount], Stakers)
    /\ 0 <= stakePool /\ stakePool <= stakeTotal

\* As long as claims were paid out of contributions, the contract can return
\* the whole stake pool and pay every staker's yield, whatever stakes came,
\* went and were slashed between the fees.
StakersCovered ==
    paidOut <= contributed =>
        stakePool + FoldFunctionOnSet(+, 0, [s \in Stakers |-> PendingYield(s)], Stakers)
            <= balance
=============================================================================
