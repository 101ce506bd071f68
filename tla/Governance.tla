----------------------------- MODULE Governance -----------------------------
(***************************************************************************)
(* The governance contract (contracts/governance/src/lib.rs): proposals,    *)
(* votes, the fee deposit of a proposer, fund allocations, arbitrator       *)
(* stakes and vote-escrow locks, which all share one token balance, and the *)
(* transfers of the token around it.                                        *)
(*                                                                         *)
(* A call is atomic: one that returns Err or panics leaves no trace and is  *)
(* no step.  That is why withdraw_stake has no action: its first call       *)
(* stores the cooldown and returns Err, which reverts the write, so no call *)
(* ever finds a cooldown that has passed.                                   *)
(*                                                                         *)
(* The code compares the clock with instants fixed at creation; a proposal  *)
(* keeps the phase the clock is in, and a lock the number of periods left.  *)
(* Not here: who calls (the admin and each holder exist), parameter,        *)
(* upgrade and text payloads, which execution only records, payments in     *)
(* other tokens, an update_config that replaces the token, and the counter  *)
(* of the incentives pool, which moves no token.                            *)
(***************************************************************************)
EXTENDS Integers, FiniteSets, Functions

CONSTANTS
    Holders,             \* addresses that hold the governance token
    Treasury,            \* where slashed deposits go: the treasury, or the admin
    Proposers, Stakers, Lockers, Senders, Payees,  \* bound: who proposes, stakes,
                         \* locks, transfers, is paid by the contract
    Endowment,           \* tokens each holder starts with
    MaxProposals,        \* bound: proposals created in a behaviour
    Amounts,             \* amounts transferred, staked, locked or allocated
    Snapshots,           \* values a proposer gives as supply_snapshot
    ProposalThresholds, Quorums, Approvals,  \* values update_config may set
    ProposerFee,         \* PROPOSER_FEE
    MinStake,            \* MIN_STAKE
    SlashPercent,        \* SLASH_PERCENT
    MaxPeriods           \* MAX_LOCK_DURATION, in periods of MIN_LOCK_DURATION

ASSUME GovernanceAssumption ==
    /\ IsFiniteSet(Holders) /\ Treasury \in Holders
    /\ Proposers \cup Stakers \cup Lockers \cup Senders \cup Payees \subseteq Holders
    /\ {Endowment, MaxProposals} \subseteq Nat
    /\ Amounts \subseteq Nat \ {0}
    /\ Snapshots \subseteq Nat
    /\ ProposalThresholds \subseteq Nat
    /\ Quorums \cup Approvals \subseteq 0 .. 10000
    /\ {ProposerFee, MinStake, MaxPeriods} \subseteq Nat \ {0}
    /\ SlashPercent \in 0 .. 100

VARIABLES
    wallet,    \* token balance of each holder
    pot,       \* token balance of the contract
    prop,      \* the proposals created so far
    ballots,   \* VoteRecord: power with which each holder voted, 0 for HasVoted unset
    stake,     \* ArbitratorStake; Arbitrator is set when it is not 0
    lock,      \* VeLock of each holder, or NoLock
    config,    \* GovConfig
    unowned,   \* history: tokens given or left to the contract less those it allocated
    doubled    \* history: proposals on which a token may vote twice

vars == <<wallet, pot, prop, ballots, stake, lock, config, unowned, doubled>>

----------------------------------------------------------------------------
Proposals  == 1 .. MaxProposals
Created    == {p \in Proposals : prop[p].status # "none"}
Statuses   == {"none", "Active", "Defeated", "Queued", "Executed", "Cancelled"}
Phases     == {"delay", "voting", "timelock", "executable"}
NoProposal == [status |-> "none"]
NoLock     == [amount |-> 0, left |-> 0]
Signal     == [to |-> Treasury, amount |-> 0]   \* a payload that moves no token
Grants     == {Signal} \cup [to : Payees, amount : Amounts]
Configs    == [threshold : ProposalThresholds, quorum : Quorums, approval : Approvals]
Locks      == [amount : Nat, left : 0 .. MaxPeriods]

Supply == Endowment * Cardinality(Holders)
SumOver(f) == FoldFunctionOnSet(+, 0, f, DOMAIN f)

\* ve_voting_power and voting_power.
VePower(h) == (lock[h].amount * lock[h].left) \div MaxPeriods
Power(h)   == IF VePower(h) > wallet[h] THEN VePower(h) ELSE wallet[h]

\* evaluate, under the configuration c.
Evaluate(P, c) ==
    LET total == P.votesFor + P.votesAgainst IN
    /\ total >= (P.snapshot * c.quorum) \div 10000
    /\ total # 0
    /\ P.votesFor >= (total * c.approval) \div 10000

\* Participation that returns the deposit: FEE_DEPOSIT_QUORUM_BPS.
EnoughTurnout(P) == P.votesFor + P.votesAgainst >= (P.snapshot * 1500) \div 10000

\* Tokens pass from one owner to another: on a proposal that is open they may
\* have voted already.
ChangeOwner(from, to) ==
    doubled' = IF from = to THEN doubled
               ELSE doubled \cup {p \in Proposals : prop[p].status = "Active"}

\* transfer of the token contract, into and out of this contract.
PayIn(h, a)  == wallet[h] >= a /\ wallet' = [wallet EXCEPT ![h] = @ - a] /\ pot' = pot + a
PayOut(h, a) == pot >= a /\ wallet' = [wallet EXCEPT ![h] = @ + a] /\ pot' = pot - a

----------------------------------------------------------------------------
Init ==
    /\ wallet = [h \in Holders |-> Endowment]
    /\ pot = 0
    /\ prop = [p \in Proposals |-> NoProposal]
    /\ ballots = [p \in Proposals |-> [h \in Holders |-> 0]]
    /\ stake = [h \in Holders |-> 0]
    /\ lock = [h \in Holders |-> NoLock]
    /\ config \in Configs
    /\ unowned = 0
    /\ doubled = {}

----------------------------------------------------------------------------
(* Proposals *)

\* next_proposal_id: consecutive, from 0 in the code and from 1 here.
NextId(p) == Created = 1 .. p - 1

NewProposal(h, grant, snapshot) ==
    [status |-> "Active", proposer |-> h, grant |-> grant, phase |-> "delay",
     votesFor |-> 0, votesAgainst |-> 0, snapshot |-> snapshot, deposit |-> ProposerFee]

\* create_proposal; nothing checks the snapshot against the supply.
CreateProposal(h, grant, snapshot) ==
    /\ Power(h) >= config.threshold
    /\ \E p \in Proposals :
          /\ NextId(p)
          /\ prop' = [prop EXCEPT ![p] = NewProposal(h, grant, snapshot)]
    /\ PayIn(h, ProposerFee)
    /\ UNCHANGED <<ballots, stake, lock, config, unowned, doubled>>

\* Mutation of CastVote: AlreadyVoted is not tested.
CastVoteAgain(h, p, support) ==
    /\ prop[p].status = "Active" /\ prop[p].phase = "voting"
    /\ Power(h) > 0
    /\ prop' = IF support THEN [prop EXCEPT ![p].votesFor = @ + Power(h)]
                          ELSE [prop EXCEPT ![p].votesAgainst = @ + Power(h)]
    /\ ballots' = [ballots EXCEPT ![p][h] = Power(h)]
    /\ UNCHANGED <<wallet, pot, stake, lock, config, unowned, doubled>>

\* cast_vote.
CastVote(h, p, support) ==
    /\ prop[p].status = "Active" /\ prop[p].phase = "voting"
    /\ ballots[p][h] = 0
    /\ Power(h) > 0
    /\ prop' = IF support THEN [prop EXCEPT ![p].votesFor = @ + Power(h)]
                          ELSE [prop EXCEPT ![p].votesAgainst = @ + Power(h)]
    /\ ballots' = [ballots EXCEPT ![p][h] = Power(h)]
    /\ UNCHANGED <<wallet, pot, stake, lock, config, unowned, doubled>>

\* finalize_proposal: the votes decide under the configuration of this moment,
\* and the deposit goes back or to the treasury.
FinalizeProposal(p) ==
    LET receiver == IF EnoughTurnout(prop[p]) THEN prop[p].proposer ELSE Treasury IN
    /\ prop[p].status = "Active" /\ prop[p].phase \in {"timelock", "executable"}
    /\ prop' = [prop EXCEPT
          ![p].status = IF Evaluate(prop[p], config) THEN "Queued" ELSE "Defeated",
          ![p].deposit = 0]
    /\ PayOut(receiver, prop[p].deposit)
    /\ ChangeOwner(prop[p].proposer, receiver)
    /\ UNCHANGED <<ballots, stake, lock, config, unowned>>

\* execute_proposal: an allocation is paid from the contract's whole balance.
ExecuteProposal(p) ==
    LET grant == prop[p].grant IN
    /\ prop[p].status = "Queued" /\ prop[p].phase = "executable"
    /\ prop' = [prop EXCEPT ![p].status = "Executed"]
    /\ PayOut(grant.to, grant.amount)
    /\ unowned' = unowned - grant.amount
    /\ doubled' = IF unowned' < 0 /\ grant.amount > 0 THEN Proposals
                  ELSE IF grant.amount > 0
                  THEN doubled \cup {q \in Proposals : prop[q].status = "Active"}
                  ELSE doubled
    /\ UNCHANGED <<ballots, stake, lock, config>>

\* Mutation of CancelProposal: the deposit's entry is not removed.
CancelProposalKeepsDeposit(p) ==
    /\ prop[p].status \in {"Active", "Defeated", "Queued"}
    /\ prop' = [prop EXCEPT ![p].status = "Cancelled"]
    /\ PayOut(prop[p].proposer, prop[p].deposit)
    /\ UNCHANGED <<ballots, stake, lock, config, unowned, doubled>>

\* cancel_proposal by the proposer or the admin, a defeated proposal included.
CancelProposal(p) ==
    /\ prop[p].status \in {"Active", "Defeated", "Queued"}
    /\ prop' = [prop EXCEPT ![p].status = "Cancelled", ![p].deposit = 0]
    /\ PayOut(prop[p].proposer, prop[p].deposit)
    /\ UNCHANGED <<ballots, stake, lock, config, unowned, doubled>>

\* update_config; running proposals are finalized under the new values.
UpdateConfig ==
    /\ config' \in Configs
    /\ UNCHANGED <<wallet, pot, prop, ballots, stake, lock, unowned, doubled>>

----------------------------------------------------------------------------
(* Arbitrator stakes *)

\* stake_arbitrator.
StakeArbitrator(h, a) ==
    /\ a >= MinStake
    /\ PayIn(h, a)
    /\ stake' = [stake EXCEPT ![h] = @ + a]
    /\ UNCHANGED <<prop, ballots, lock, config, unowned, doubled>>

\* Mutation of SlashArbitrator: a stake that stays above the minimum is not reduced.
SlashArbitratorUnbooked(h, recipient) ==
    LET slashed   == (stake[h] * SlashPercent) \div 100
        remaining == stake[h] - slashed
    IN
    /\ stake[h] > 0
    /\ PayOut(recipient, slashed)
    /\ IF remaining < MinStake
         THEN stake' = [stake EXCEPT ![h] = 0] /\ unowned' = unowned + remaining
         ELSE UNCHANGED <<stake, unowned>>
    /\ ChangeOwner(h, recipient)
    /\ UNCHANGED <<prop, ballots, lock, config>>

\* slash_arbitrator: a stake that falls below the minimum is forgotten and what
\* is left of it stays in the contract.
SlashArbitrator(h, recipient) ==
    LET slashed   == (stake[h] * SlashPercent) \div 100
        remaining == stake[h] - slashed
    IN
    /\ stake[h] > 0
    /\ PayOut(recipient, slashed)
    /\ IF remaining < MinStake
         THEN stake' = [stake EXCEPT ![h] = 0] /\ unowned' = unowned + remaining
         ELSE stake' = [stake EXCEPT ![h] = remaining] /\ UNCHANGED unowned
    /\ ChangeOwner(h, recipient)
    /\ UNCHANGED <<prop, ballots, lock, config>>

----------------------------------------------------------------------------
(* Vote-escrow locks *)

\* create_lock.
CreateLock(h, a, periods) ==
    /\ lock[h] = NoLock
    /\ PayIn(h, a)
    /\ lock' = [lock EXCEPT ![h] = [amount |-> a, left |-> periods]]
    /\ UNCHANGED <<prop, ballots, stake, config, unowned, doubled>>

\* extend_lock, of a lock that has expired as well.
ExtendLock(h, a, periods) ==
    /\ lock[h] # NoLock
    /\ periods >= lock[h].left
    /\ PayIn(h, a)
    /\ lock' = [lock EXCEPT ![h] = [amount |-> @.amount + a, left |-> periods]]
    /\ UNCHANGED <<prop, ballots, stake, config, unowned, doubled>>

\* withdraw_lock.
WithdrawLock(h) ==
    /\ lock[h] # NoLock /\ lock[h].left = 0
    /\ PayOut(h, lock[h].amount)
    /\ lock' = [lock EXCEPT ![h] = NoLock]
    /\ UNCHANGED <<prop, ballots, stake, config, unowned, doubled>>

----------------------------------------------------------------------------
(* Around the contract *)

\* A transfer between two holders.
Transfer(from, to, a) ==
    /\ from # to /\ wallet[from] >= a
    /\ wallet' = [wallet EXCEPT ![from] = @ - a, ![to] = @ + a]
    /\ ChangeOwner(from, to)
    /\ UNCHANGED <<pot, prop, ballots, stake, lock, config, unowned>>

\* A transfer to the contract, which is what fills its treasury.
Donate(h, a) ==
    /\ PayIn(h, a)
    /\ unowned' = unowned + a
    /\ UNCHANGED <<prop, ballots, stake, lock, config, doubled>>

\* The clock passes vote_start, vote_end or executable_at of a proposal.
PhasePasses(p) ==
    /\ prop[p].status \in {"Active", "Queued"}
    /\ \/ prop[p].phase = "delay" /\ prop' = [prop EXCEPT ![p].phase = "voting"]
       \/ prop[p].phase = "voting" /\ prop' = [prop EXCEPT ![p].phase = "timelock"]
       \/ prop[p].phase = "timelock" /\ prop' = [prop EXCEPT ![p].phase = "executable"]
    /\ UNCHANGED <<wallet, pot, ballots, stake, lock, config, unowned, doubled>>

\* A period of a lock passes.
LockPasses(h) ==
    /\ lock[h].left > 0
    /\ lock' = [lock EXCEPT ![h].left = @ - 1]
    /\ UNCHANGED <<wallet, pot, prop, ballots, stake, config, unowned, doubled>>

----------------------------------------------------------------------------
ProposalStep(p) ==
    \/ \E h \in Holders, support \in BOOLEAN : CastVote(h, p, support)
    \/ FinalizeProposal(p) \/ ExecuteProposal(p) \/ CancelProposal(p) \/ PhasePasses(p)

StakeStep(h) ==
    \/ \E a \in Amounts : StakeArbitrator(h, a)
    \/ \E recipient \in Holders : SlashArbitrator(h, recipient)

LockStep(h) ==
    \/ \E a \in Amounts, periods \in 1 .. MaxPeriods : CreateLock(h, a, periods)
    \/ \E a \in {0} \cup Amounts, periods \in 0 .. MaxPeriods : ExtendLock(h, a, periods)
    \/ WithdrawLock(h) \/ LockPasses(h)

TokenStep ==
    \/ \E from \in Senders, to \in Holders, a \in Amounts : Transfer(from, to, a)
    \/ \E h \in Senders, a \in Amounts : Donate(h, a)

Next ==
    \/ \E h \in Proposers, grant \in Grants, s \in Snapshots : CreateProposal(h, grant, s)
    \/ \E p \in Proposals : ProposalStep(p)
    \/ \E h \in Stakers : StakeStep(h)
    \/ \E h \in Lockers : LockStep(h)
    \/ TokenStep \/ UpdateConfig

Spec == Init /\ [][Next]_vars

----------------------------------------------------------------------------
(* Properties *)

ProposalRecords ==
    [status : Statuses \ {"none"}, proposer : Holders, grant : Grants, phase : Phases,
     votesFor : Nat, votesAgainst : Nat, snapshot : Snapshots, deposit : {0, ProposerFee}]

\* Type invariant: no balance, stake or lock is ever negative.
TypeOK ==
    /\ wallet \in [Holders -> Nat]
    /\ pot \in Nat
    /\ prop \in [Proposals -> {NoProposal} \cup ProposalRecords]
    /\ ballots \in [Proposals -> [Holders -> Nat]]
    /\ stake \in [Holders -> Nat]
    /\ lock \in [Holders -> Locks]
    /\ config \in Configs
    /\ unowned \in Int
    /\ doubled \subseteq Proposals

\* What the contract has to give back: deposits, stakes and locks.
Owed == SumOver([p \in Proposals |-> IF p \in Created THEN prop[p].deposit ELSE 0])
        + SumOver(stake) + SumOver([h \in Holders |-> lock[h].amount])

\* One balance serves deposits, stakes, locks and the treasury: it is exactly
\* what the records of the contract owe and what was given or left to it, less
\* the allocations it has paid.  No refund is paid twice, no slash unbooked.
CustodyAccounted == pot = Owed + unowned

\* A proposer has a deposit in the contract while the proposal is Active and
\* only then, on every way out of it: finalized, cancelled, or both in turn.
DepositWhileActive ==
    \A p \in Created : prop[p].deposit = IF prop[p].status = "Active" THEN ProposerFee ELSE 0

\* What is Queued or Executed is carried by the votes that stand recorded,
\* under a configuration of the admin: no vote is counted after the decision.
CarriedByVotes ==
    \A p \in Created : prop[p].status \in {"Queued", "Executed"} =>
        \E c \in Configs : Evaluate(prop[p], c)

\* Each proposal is decided once, by its votes, and its deposit goes with it.
DecisionSound == DepositWhileActive /\ CarriedByVotes

\* The power of a voter is read when the vote is cast, from a balance that
\* stakes, deposits, locks and refunds change all the time.  Unless a token
\* changes its owner during the vote, or an allocation was paid with tokens that
\* a lock still counts as its own, the votes never exceed the supply.
TalliesWithinSupply ==
    \A p \in Created : p \notin doubled => prop[p].votesFor + prop[p].votesAgainst <= Supply
=============================================================================
