-------------------------- MODULE Governance_proofs --------------------------
(***************************************************************************)
(* Theorems about Governance for any holders, proposals, amounts and        *)
(* configurations.                                                          *)
(***************************************************************************)
EXTENDS Governance, SumTheorems

\* What the proofs use of GovernanceAssumption.
LEMMA ConstantFacts ==
    /\ Treasury \in Holders
    /\ Proposers \subseteq Holders /\ Stakers \subseteq Holders /\ Lockers \subseteq Holders
    /\ Senders \subseteq Holders
    /\ Amounts \subseteq Nat \ {0}
    /\ ProposerFee \in Nat \ {0} /\ MaxPeriods \in Nat \ {0}
    /\ SlashPercent \in 0 .. 100
  BY GovernanceAssumption DEF GovernanceAssumption

LEMMA GrantsTyped == \A grant \in Grants : grant.to \in Holders /\ grant.amount \in Nat
  <1> SUFFICES ASSUME NEW grant \in Grants
               PROVE  grant.to \in Holders /\ grant.amount \in Nat
    OBVIOUS
  <1>1. Amounts \subseteq Nat /\ Payees \subseteq Holders /\ Treasury \in Holders
    BY GovernanceAssumption DEF GovernanceAssumption
  <1>2. CASE grant = Signal
    BY <1>1, <1>2 DEF Signal
  <1>3. CASE grant \in [to : Payees, amount : Amounts]
    BY <1>1, <1>3
  <1> QED  BY <1>2, <1>3 DEF Grants

----------------------------------------------------------------------------
(* Arithmetic *)

\* What SLASH_PERCENT takes of a stake is never more than the stake.
LEMMA SlashWithinStake ==
    ASSUME NEW s \in Nat, NEW percent \in 0 .. 100
    PROVE  (s * percent) \div 100 \in 0 .. s
  <1>1. s * percent \in Nat /\ s * percent <= s * 100
    BY Z3
  <1> QED  BY <1>1

\* voting_power is a natural number.
LEMMA PowerIsNat ==
    ASSUME TypeOK, NEW h \in Holders
    PROVE  Power(h) \in Nat
  <1>1. lock[h].amount \in Nat /\ lock[h].left \in Nat /\ wallet[h] \in Nat
    BY DEF TypeOK, Locks
  <1>2. MaxPeriods \in Nat \ {0}
    BY GovernanceAssumption DEF GovernanceAssumption
  <1>3. lock[h].amount * lock[h].left \in Nat
    BY <1>1, Z3
  <1>4. VePower(h) \in Nat
    BY <1>2, <1>3 DEF VePower
  <1> QED  BY <1>1, <1>4 DEF Power

\* A transfer that succeeds leaves no balance negative.
LEMMA TransfersKeepBalances ==
    ASSUME TypeOK, NEW h \in Holders, NEW a \in Nat, PayIn(h, a) \/ PayOut(h, a)
    PROVE  wallet' \in [Holders -> Nat] /\ pot' \in Nat
  BY DEF TypeOK, PayIn, PayOut

----------------------------------------------------------------------------
(* Types *)

LEMMA CreatedTypes ==
    ASSUME TypeOK, NEW p \in Created
    PROVE  p \in Proposals /\ prop[p] \in ProposalRecords
  BY DEF TypeOK, Created, NoProposal

LEMMA ChangeOwnerType ==
    ASSUME TypeOK, NEW a, NEW b, ChangeOwner(a, b)
    PROVE  doubled' \subseteq Proposals
  BY DEF TypeOK, ChangeOwner

\* The updates of a proposal's record.
LEMMA RecordUpdates ==
    ASSUME NEW P \in ProposalRecords, NEW s \in Statuses \ {"none"}, NEW phase \in Phases,
           NEW d \in {0, ProposerFee}
    PROVE  /\ [P EXCEPT !.status = s] \in ProposalRecords
           /\ [P EXCEPT !.status = s, !.deposit = d] \in ProposalRecords
           /\ [P EXCEPT !.phase = phase] \in ProposalRecords
  BY DEF ProposalRecords

LEMMA ProposalTypes ==
    ASSUME TypeOK, NEW p \in Proposals, ProposalStep(p)
    PROVE  TypeOK'
  <1>0. ASSUME prop[p].status \in {"Active", "Defeated", "Queued"}
        PROVE  prop[p] \in ProposalRecords /\ prop[p].proposer \in Holders
               /\ prop[p].deposit \in Nat /\ prop[p].grant \in Grants
    BY <1>0, ConstantFacts DEF TypeOK, NoProposal, ProposalRecords
  <1>1. ASSUME NEW h \in Holders, NEW support \in BOOLEAN, CastVote(h, p, support)
        PROVE  TypeOK'
    <2>1. Power(h) \in Nat
      BY PowerIsNat
    <2>2. prop'[p] \in ProposalRecords
      BY <1>0, <1>1, <2>1, SMTT(20) DEF CastVote, TypeOK, ProposalRecords
    <2> QED  BY <1>1, <2>1, <2>2 DEF CastVote, TypeOK
  <1>2. CASE FinalizeProposal(p)
    <2> DEFINE receiver == IF EnoughTurnout(prop[p]) THEN prop[p].proposer ELSE Treasury
    <2>1. receiver \in Holders /\ prop[p].deposit \in Nat
      BY <1>0, <1>2, ConstantFacts DEF FinalizeProposal
    <2>2. wallet' \in [Holders -> Nat] /\ pot' \in Nat
      BY <1>2, <2>1, TransfersKeepBalances DEF FinalizeProposal
    <2>3. doubled' \subseteq Proposals
      BY <1>2, ChangeOwnerType DEF FinalizeProposal
    <2> DEFINE s == IF Evaluate(prop[p], config) THEN "Queued" ELSE "Defeated"
    <2>4. s \in Statuses \ {"none"} /\ prop[p] \in ProposalRecords
      BY <1>0, <1>2 DEF FinalizeProposal, Statuses
    <2>5. prop' = [prop EXCEPT ![p].status = s, ![p].deposit = 0]
      BY <1>2 DEF FinalizeProposal
    <2> HIDE DEF s
    <2>6. [prop[p] EXCEPT !.status = s, !.deposit = 0] \in ProposalRecords
      BY <2>4, RecordUpdates DEF Phases
    <2>7. prop' \in [Proposals -> {NoProposal} \cup ProposalRecords]
      BY <2>5, <2>6 DEF TypeOK
    <2> QED  BY <1>2, <2>2, <2>3, <2>7 DEF FinalizeProposal, TypeOK
  <1>3. CASE ExecuteProposal(p)
    <2>1. prop[p].grant.to \in Holders /\ prop[p].grant.amount \in Nat
      BY <1>0, <1>3, GrantsTyped DEF ExecuteProposal
    <2>2. wallet' \in [Holders -> Nat] /\ pot' \in Nat
      BY <1>3, <2>1, TransfersKeepBalances DEF ExecuteProposal
    <2>3. doubled' \subseteq Proposals /\ unowned' \in Int
      BY <1>3, <2>1 DEF ExecuteProposal, TypeOK
    <2>4. prop'[p] \in ProposalRecords
      BY <1>0, <1>3 DEF ExecuteProposal, TypeOK, ProposalRecords, Statuses
    <2> QED  BY <1>3, <2>2, <2>3, <2>4 DEF ExecuteProposal, TypeOK
  <1>4. CASE CancelProposal(p)
    <2>1. wallet' \in [Holders -> Nat] /\ pot' \in Nat
      BY <1>0, <1>4, TransfersKeepBalances DEF CancelProposal
    <2>2. prop[p] \in ProposalRecords
      BY <1>0, <1>4 DEF CancelProposal
    <2>3. [prop[p] EXCEPT !.status = "Cancelled", !.deposit = 0] \in ProposalRecords
      BY <2>2, RecordUpdates DEF Phases, Statuses
    <2>4. prop' \in [Proposals -> {NoProposal} \cup ProposalRecords]
      BY <1>4, <2>3 DEF CancelProposal, TypeOK
    <2> QED  BY <1>4, <2>1, <2>4 DEF CancelProposal, TypeOK
  <1>5. CASE PhasePasses(p)
    <2>1. prop[p] \in ProposalRecords
      BY <1>0, <1>5 DEF PhasePasses
    <2>2. \/ prop' = [prop EXCEPT ![p].phase = "voting"]
          \/ prop' = [prop EXCEPT ![p].phase = "timelock"]
          \/ prop' = [prop EXCEPT ![p].phase = "executable"]
      BY <1>5 DEF PhasePasses
    <2>3. \A phase \in Phases : [prop[p] EXCEPT !.phase = phase] \in ProposalRecords
      <3>1. "Active" \in Statuses \ {"none"} /\ 0 \in {0, ProposerFee}
        BY DEF Statuses
      <3> QED  BY <2>1, <3>1, RecordUpdates
    <2>4. prop' \in [Proposals -> {NoProposal} \cup ProposalRecords]
      BY <2>2, <2>3 DEF TypeOK, Phases
    <2> QED  BY <1>5, <2>4 DEF PhasePasses, TypeOK
  <1> QED  BY <1>1, <1>2, <1>3, <1>4, <1>5 DEF ProposalStep

LEMMA StakeTypes ==
    ASSUME TypeOK, NEW h \in Holders, StakeStep(h)
    PROVE  TypeOK'
  <1>1. ASSUME NEW a \in Amounts, StakeArbitrator(h, a)
        PROVE  TypeOK'
    <2>1. a \in Nat /\ wallet' \in [Holders -> Nat] /\ pot' \in Nat
      BY <1>1, ConstantFacts, TransfersKeepBalances DEF StakeArbitrator
    <2>2. stake' \in [Holders -> Nat]
      BY <1>1, <2>1 DEF StakeArbitrator, TypeOK
    <2> QED  BY <1>1, <2>1, <2>2 DEF StakeArbitrator, TypeOK
  <1>2. ASSUME NEW r \in Holders, SlashArbitrator(h, r)
        PROVE  TypeOK'
    <2> DEFINE slashed == (stake[h] * SlashPercent) \div 100
    <2>1. stake[h] \in Nat /\ slashed \in 0 .. stake[h]
      BY ConstantFacts, SlashWithinStake DEF TypeOK
    <2> HIDE DEF slashed
    <2>2. SlashArbitrator(h, r) <=>
            /\ stake[h] > 0
            /\ PayOut(r, slashed)
            /\ IF stake[h] - slashed < MinStake
                 THEN stake' = [stake EXCEPT ![h] = 0]
                      /\ unowned' = unowned + (stake[h] - slashed)
                 ELSE stake' = [stake EXCEPT ![h] = stake[h] - slashed] /\ UNCHANGED unowned
            /\ ChangeOwner(h, r)
            /\ UNCHANGED <<prop, ballots, lock, config>>
      BY DEF SlashArbitrator, slashed
    <2>3. wallet' \in [Holders -> Nat] /\ pot' \in Nat
      BY <1>2, <2>1, <2>2, TransfersKeepBalances
    <2>4. doubled' \subseteq Proposals
      BY <1>2, <2>2, ChangeOwnerType
    <2>5. stake' \in [Holders -> Nat] /\ unowned' \in Int
      BY <1>2, <2>1, <2>2 DEF TypeOK
    <2> QED  BY <1>2, <2>2, <2>3, <2>4, <2>5 DEF TypeOK
  <1> QED  BY <1>1, <1>2 DEF StakeStep

LEMMA LockTypes ==
    ASSUME TypeOK, NEW h \in Holders, LockStep(h)
    PROVE  TypeOK'
  <1>1. ASSUME NEW a \in Amounts, NEW periods \in 1 .. MaxPeriods, CreateLock(h, a, periods)
        PROVE  TypeOK'
    <2>1. a \in Nat /\ wallet' \in [Holders -> Nat] /\ pot' \in Nat
      BY <1>1, ConstantFacts, TransfersKeepBalances DEF CreateLock
    <2>2. [amount |-> a, left |-> periods] \in Locks
      BY <2>1, ConstantFacts DEF Locks
    <2>3. lock' \in [Holders -> Locks]
      BY <1>1, <2>2 DEF CreateLock, TypeOK
    <2> QED  BY <1>1, <2>1, <2>3 DEF CreateLock, TypeOK
  <1>2. ASSUME NEW a \in {0} \cup Amounts, NEW periods \in 0 .. MaxPeriods,
               ExtendLock(h, a, periods)
        PROVE  TypeOK'
    <2>1. a \in Nat /\ wallet' \in [Holders -> Nat] /\ pot' \in Nat
      BY <1>2, ConstantFacts, TransfersKeepBalances DEF ExtendLock
    <2>2. lock[h] \in Locks /\ lock' = [lock EXCEPT
                 ![h] = [amount |-> lock[h].amount + a, left |-> periods]]
      BY <1>2 DEF ExtendLock, TypeOK
    <2>3. [amount |-> lock[h].amount + a, left |-> periods] \in Locks
      BY <2>1, <2>2 DEF Locks
    <2>4. lock' \in [Holders -> Locks]
      BY <2>2, <2>3 DEF TypeOK
    <2> QED  BY <1>2, <2>1, <2>4 DEF ExtendLock, TypeOK
  <1>3. CASE WithdrawLock(h)
    <2>1. lock[h].amount \in Nat /\ NoLock \in Locks
      BY ConstantFacts DEF TypeOK, Locks, NoLock
    <2>2. wallet' \in [Holders -> Nat] /\ pot' \in Nat
      BY <1>3, <2>1, TransfersKeepBalances DEF WithdrawLock
    <2>3. lock' \in [Holders -> Locks]
      BY <1>3, <2>1 DEF WithdrawLock, TypeOK
    <2> QED  BY <1>3, <2>2, <2>3 DEF WithdrawLock, TypeOK
  <1>4. CASE LockPasses(h)
    <2>1. lock[h] \in Locks /\ lock' = [lock EXCEPT ![h].left = lock[h].left - 1]
          /\ lock[h].left > 0
      BY <1>4 DEF LockPasses, TypeOK
    <2>2. [lock[h] EXCEPT !.left = lock[h].left - 1] \in Locks
      BY <2>1, ConstantFacts DEF Locks
    <2>3. lock' \in [Holders -> Locks]
      BY <2>1, <2>2 DEF TypeOK
    <2> QED  BY <1>4, <2>3 DEF LockPasses, TypeOK
  <1> QED  BY <1>1, <1>2, <1>3, <1>4 DEF LockStep

LEMMA TokenTypes ==
    ASSUME TypeOK, TokenStep
    PROVE  TypeOK'
  <1>1. ASSUME NEW from \in Senders, NEW to \in Holders, NEW a \in Amounts,
               Transfer(from, to, a)
        PROVE  TypeOK'
    <2>1. doubled' \subseteq Proposals
      BY <1>1, ChangeOwnerType DEF Transfer
    <2>2. from \in Holders /\ a \in Nat
      BY ConstantFacts
    <2>3. wallet' \in [Holders -> Nat]
      BY <1>1, <2>2 DEF Transfer, TypeOK
    <2> QED  BY <1>1, <2>1, <2>3 DEF Transfer, TypeOK
  <1>2. ASSUME NEW h \in Senders, NEW a \in Amounts, Donate(h, a)
        PROVE  TypeOK'
    <2>1. h \in Holders /\ a \in Nat
      BY ConstantFacts
    <2>2. wallet' \in [Holders -> Nat] /\ pot' \in Nat
      BY <1>2, <2>1, TransfersKeepBalances DEF Donate
    <2> QED  BY <1>2, <2>1, <2>2 DEF Donate, TypeOK
  <1> QED  BY <1>1, <1>2 DEF TokenStep

LEMMA CreateTypes ==
    ASSUME TypeOK, NEW h \in Holders, NEW grant \in Grants, NEW s \in Snapshots,
           CreateProposal(h, grant, s)
    PROVE  TypeOK'
  <1>1. wallet' \in [Holders -> Nat] /\ pot' \in Nat
    BY ConstantFacts, TransfersKeepBalances DEF CreateProposal
  <1>2. PICK p \in Proposals : prop' = [prop EXCEPT ![p] = NewProposal(h, grant, s)]
    BY Zenon DEF CreateProposal
  <1>3. NewProposal(h, grant, s) \in ProposalRecords
    BY DEF NewProposal, ProposalRecords, Statuses, Phases
  <1>4. prop' \in [Proposals -> {NoProposal} \cup ProposalRecords]
    BY <1>2, <1>3 DEF TypeOK
  <1> QED  BY <1>1, <1>4 DEF CreateProposal, TypeOK

LEMMA StepTypes == TypeOK /\ [Next]_vars => TypeOK'
  <1> SUFFICES ASSUME TypeOK, [Next]_vars PROVE TypeOK'
    OBVIOUS
  <1>1. ASSUME NEW h \in Proposers, NEW grant \in Grants, NEW s \in Snapshots,
               CreateProposal(h, grant, s)
        PROVE  TypeOK'
    BY <1>1, ConstantFacts, CreateTypes
  <1>2. ASSUME NEW p \in Proposals, ProposalStep(p) PROVE TypeOK'
    BY <1>2, ProposalTypes
  <1>3. ASSUME NEW h \in Stakers, StakeStep(h) PROVE TypeOK'
    BY <1>3, ConstantFacts, StakeTypes
  <1>4. ASSUME NEW h \in Lockers, LockStep(h) PROVE TypeOK'
    BY <1>4, ConstantFacts, LockTypes
  <1>5. CASE TokenStep
    BY <1>5, TokenTypes
  <1>6. CASE UpdateConfig
    BY <1>6 DEF UpdateConfig, TypeOK
  <1>7. CASE UNCHANGED vars
    BY <1>7 DEF vars, TypeOK
  <1> QED  BY <1>1, <1>2, <1>3, <1>4, <1>5, <1>6, <1>7 DEF Next

\* No balance, stake, lock or deposit is ever negative and no slash takes more
\* than the stake (stake_arbitrator to withdraw_lock), whatever is called.
THEOREM TypeCorrect == Spec => []TypeOK
  <1>1. Init => TypeOK
    BY GovernanceAssumption DEF GovernanceAssumption, Init, TypeOK, NoLock, Locks
  <1> QED  BY <1>1, StepTypes, PTL DEF Spec

----------------------------------------------------------------------------
(* Decisions *)

\* DecisionSound of one proposal: it is preserved by what leaves the proposal alone.
Sound(P) ==
    P.status # "none" =>
       /\ P.deposit = IF P.status = "Active" THEN ProposerFee ELSE 0
       /\ P.status \in {"Queued", "Executed"} => \E c \in Configs : Evaluate(P, c)

LEMMA SoundPieces == DecisionSound <=> \A p \in Proposals : Sound(prop[p])
  BY DEF DecisionSound, DepositWhileActive, CarriedByVotes, Sound, Created

\* Evaluate looks at the votes and the snapshot only.
LEMMA EvaluateSame ==
    ASSUME NEW P, NEW R, P.votesFor = R.votesFor, P.votesAgainst = R.votesAgainst,
           P.snapshot = R.snapshot, NEW c
    PROVE  Evaluate(P, c) <=> Evaluate(R, c)
  BY DEF Evaluate

\* Every step on a proposal leaves it sound, and touches no other one.
LEMMA ProposalSound ==
    ASSUME TypeOK, NEW p \in Proposals, ProposalStep(p), Sound(prop[p])
    PROVE  Sound(prop'[p]) /\ \A q \in Proposals : q # p => prop'[q] = prop[q]
  <1>0. /\ prop \in [Proposals -> {NoProposal} \cup ProposalRecords]
        /\ config \in Configs
    BY DEF TypeOK
  <1>1. ASSUME NEW h \in Holders, NEW support \in BOOLEAN, CastVote(h, p, support)
        PROVE  /\ prop'[p].status = "Active" /\ prop'[p].deposit = prop[p].deposit
               /\ prop[p].status = "Active"
               /\ \A q \in Proposals : q # p => prop'[q] = prop[q]
    <2>1. prop[p] \in ProposalRecords
      BY <1>0, <1>1 DEF CastVote, NoProposal
    <2> QED  BY <1>0, <1>1, <2>1 DEF CastVote, ProposalRecords
  <1>2. CASE FinalizeProposal(p)
    <2>1. prop[p] \in ProposalRecords
      BY <1>0, <1>2 DEF FinalizeProposal, NoProposal
    <2>2. prop' = [prop EXCEPT
             ![p].status = IF Evaluate(prop[p], config) THEN "Queued" ELSE "Defeated",
             ![p].deposit = 0]
      BY <1>2 DEF FinalizeProposal
    <2>3. /\ prop'[p].status = IF Evaluate(prop[p], config) THEN "Queued" ELSE "Defeated"
          /\ prop'[p].deposit = 0
          /\ prop'[p].votesFor = prop[p].votesFor
          /\ prop'[p].votesAgainst = prop[p].votesAgainst
          /\ prop'[p].snapshot = prop[p].snapshot
          /\ \A q \in Proposals : q # p => prop'[q] = prop[q]
      BY <1>0, <2>1, <2>2 DEF ProposalRecords
    <2>4. Evaluate(prop'[p], config) <=> Evaluate(prop[p], config)
      BY <2>3, EvaluateSame
    <2> QED  BY <1>0, <2>3, <2>4 DEF Sound
  <1>3. CASE ExecuteProposal(p)
    <2>1. prop[p] \in ProposalRecords
      BY <1>0, <1>3 DEF ExecuteProposal, NoProposal
    <2>2. prop[p].status = "Queued" /\ prop' = [prop EXCEPT ![p].status = "Executed"]
      BY <1>3 DEF ExecuteProposal
    <2>3. /\ prop'[p].status = "Executed" /\ prop'[p].deposit = prop[p].deposit
          /\ prop'[p].votesFor = prop[p].votesFor
          /\ prop'[p].votesAgainst = prop[p].votesAgainst
          /\ prop'[p].snapshot = prop[p].snapshot
          /\ \A q \in Proposals : q # p => prop'[q] = prop[q]
      BY <1>0, <2>1, <2>2 DEF ProposalRecords
    <2>4. PICK c \in Configs : Evaluate(prop[p], c)
      BY <2>2 DEF Sound
    <2>5. Evaluate(prop'[p], c)
      BY <2>3, <2>4, EvaluateSame
    <2> QED  BY <2>2, <2>3, <2>5 DEF Sound
  <1>4. CASE CancelProposal(p)
    <2>1. prop[p] \in ProposalRecords
      BY <1>0, <1>4 DEF CancelProposal, NoProposal
    <2> QED  BY <1>0, <1>4, <2>1 DEF CancelProposal, ProposalRecords, Sound
  <1>5. CASE PhasePasses(p)
    <2>1. prop[p] \in ProposalRecords
      BY <1>0, <1>5 DEF PhasePasses, NoProposal
    <2>2. /\ prop'[p].status = prop[p].status /\ prop'[p].deposit = prop[p].deposit
          /\ prop'[p].votesFor = prop[p].votesFor
          /\ prop'[p].votesAgainst = prop[p].votesAgainst
          /\ prop'[p].snapshot = prop[p].snapshot
          /\ \A q \in Proposals : q # p => prop'[q] = prop[q]
      BY <1>0, <1>5, <2>1 DEF PhasePasses, ProposalRecords
    <2>3. \A c \in Configs : Evaluate(prop'[p], c) <=> Evaluate(prop[p], c)
      BY <2>2, EvaluateSame
    <2> QED  BY <2>2, <2>3 DEF Sound
  <1>6. ASSUME NEW h \in Holders, NEW support \in BOOLEAN, CastVote(h, p, support)
        PROVE  Sound(prop'[p])
    BY <1>1, <1>6 DEF Sound
  <1> QED  BY <1>1, <1>2, <1>3, <1>4, <1>5, <1>6 DEF ProposalStep

\* Whatever is called, in any order and under a changing configuration, a
\* proposal leaves Active once, by its votes or by cancellation, and returns its
\* deposit with that; finalize_proposal and cancel_proposal never both pay it.
THEOREM DecisionsAreSound == Spec => []DecisionSound
  <1>1. Init => DecisionSound
    BY DEF Init, DecisionSound, DepositWhileActive, CarriedByVotes, Created, NoProposal
  <1>2. TypeOK /\ DecisionSound /\ [Next]_vars => DecisionSound'
    <2> SUFFICES ASSUME TypeOK, \A p \in Proposals : Sound(prop[p]), [Next]_vars
                 PROVE  \A p \in Proposals : Sound(prop'[p])
      <3>1. DecisionSound' <=> \A p \in Proposals : Sound(prop'[p])
        BY DEF DecisionSound, DepositWhileActive, CarriedByVotes, Sound, Created
      <3> QED  BY <3>1, SoundPieces
    <2>1. ASSUME NEW h \in Proposers, NEW grant \in Grants, NEW s \in Snapshots,
                 CreateProposal(h, grant, s), NEW q \in Proposals
          PROVE  Sound(prop'[q])
      <3>1. PICK p \in Proposals : prop' = [prop EXCEPT ![p] = NewProposal(h, grant, s)]
        BY <2>1, Zenon DEF CreateProposal
      <3>2. CASE q = p
        BY <3>1, <3>2 DEF Sound, TypeOK, NewProposal
      <3>3. CASE q # p
        BY <3>1, <3>3 DEF TypeOK
      <3> QED  BY <3>2, <3>3
    <2>2. ASSUME NEW p \in Proposals, ProposalStep(p), NEW q \in Proposals
          PROVE  Sound(prop'[q])
      <3>1. CASE q = p
        BY <2>2, <3>1, ProposalSound
      <3>2. CASE q # p
        <4>1. prop'[q] = prop[q]
          BY <2>2, <3>2, ProposalSound
        <4> QED  BY <4>1
      <3> QED  BY <3>1, <3>2
    <2>3. ASSUME UNCHANGED prop PROVE \A q \in Proposals : Sound(prop'[q])
      BY <2>3
    <2>4. ASSUME NEW h \in Holders, StakeStep(h) \/ LockStep(h) PROVE UNCHANGED prop
      BY <2>4 DEF StakeStep, StakeArbitrator, SlashArbitrator, LockStep, CreateLock,
                  ExtendLock, WithdrawLock, LockPasses
    <2>5. ASSUME TokenStep \/ UpdateConfig \/ UNCHANGED vars PROVE UNCHANGED prop
      BY <2>5 DEF TokenStep, Transfer, Donate, UpdateConfig, vars
    <2>6. Stakers \subseteq Holders /\ Lockers \subseteq Holders
      BY GovernanceAssumption DEF GovernanceAssumption
    <2> QED  BY <2>1, <2>2, <2>3, <2>4, <2>5, <2>6 DEF Next
  <1> QED  BY <1>1, <1>2, TypeCorrect, PTL DEF Spec

----------------------------------------------------------------------------
(* The contract's balance *)

Deposits == [p \in Proposals |-> IF p \in Created THEN prop[p].deposit ELSE 0]
Locked   == [h \in Holders |-> lock[h].amount]

LEMMA FiniteFacts == IsFiniteSet(Holders) /\ IsFiniteSet(Proposals)
  <1>1. IsFiniteSet(Proposals)
    BY GovernanceAssumption, FS_Interval DEF GovernanceAssumption, Proposals
  <1> QED  BY <1>1, GovernanceAssumption DEF GovernanceAssumption

\* What the contract owes is three sums of natural numbers.
Books ==
    /\ Deposits \in [Proposals -> Nat] /\ Locked \in [Holders -> Nat]
    /\ stake \in [Holders -> Nat]
    /\ Sum(Deposits, Proposals) \in Nat /\ Sum(stake, Holders) \in Nat
    /\ Sum(Locked, Holders) \in Nat
    /\ Owed = Sum(Deposits, Proposals) + Sum(stake, Holders) + Sum(Locked, Holders)

LEMMA BooksKept == TypeOK => Books
  <1> SUFFICES ASSUME TypeOK PROVE Books
    OBVIOUS
  <1>1. Deposits \in [Proposals -> Nat]
    <2>1. \A p \in Created : prop[p].deposit \in Nat
      BY CreatedTypes, GovernanceAssumption DEF GovernanceAssumption, ProposalRecords
    <2> QED  BY <2>1 DEF Deposits
  <1>2. Locked \in [Holders -> Nat] /\ stake \in [Holders -> Nat]
    BY DEF Locked, TypeOK, Locks
  <1>3. /\ Sum(Deposits, Proposals) \in Nat /\ Sum(stake, Holders) \in Nat
        /\ Sum(Locked, Holders) \in Nat
    BY <1>1, <1>2, FiniteFacts, SumType
  <1>4. Owed = Sum(Deposits, Proposals) + Sum(stake, Holders) + Sum(Locked, Holders)
    <2>1. \A f : SumOver(f) = Sum(f, DOMAIN f)
      BY DEF SumOver, Sum
    <2>2. DOMAIN Deposits = Proposals /\ DOMAIN stake = Holders /\ DOMAIN Locked = Holders
      BY <1>1, <1>2
    <2>3. Owed = SumOver(Deposits) + SumOver(stake) + SumOver(Locked)
      BY DEF Owed, Deposits, Locked
    <2> QED  BY <2>1, <2>2, <2>3
  <1> QED  BY <1>1, <1>2, <1>3, <1>4 DEF Books

LEMMA BooksKeptNext == TypeOK' => Books'
  BY BooksKept, PTL

LEMMA DepositChanges ==
    ASSUME Books, Books', NEW p \in Proposals,
           \A q \in Proposals : q # p => prop'[q] = prop[q]
    PROVE  Sum(Deposits', Proposals) = Sum(Deposits, Proposals) - Deposits[p] + Deposits'[p]
  <1>1. \A q \in Proposals : Deposits[q] \in Int /\ Deposits'[q] \in Int
    BY DEF Books
  <1>2. \A q \in Proposals : q # p => Deposits'[q] = Deposits[q]
    BY DEF Deposits, Created
  <1> QED  BY <1>1, <1>2, FiniteFacts, SumChange

\* Each operation moves tokens between the balance and one entry of the books,
\* or between the balance and what nobody owns.
LEMMA DepositMoves ==
    ASSUME CustodyAccounted, Books, Books', NEW p \in Proposals, NEW d \in Int, NEW u \in Int,
           \A q \in Proposals : q # p => prop'[q] = prop[q],
           Deposits'[p] = Deposits[p] + d, pot' = pot + d + u,
           unowned \in Int, unowned' = unowned + u, UNCHANGED <<stake, lock>>
    PROVE  CustodyAccounted'
  <1>1. Sum(Deposits', Proposals) = Sum(Deposits, Proposals) + d
    BY DepositChanges DEF Books
  <1>2. Locked' = Locked
    BY DEF Locked
  <1> QED  BY <1>1, <1>2 DEF Books, CustodyAccounted

LEMMA StakeMoves ==
    ASSUME CustodyAccounted, Books, Books', NEW h \in Holders, NEW d \in Int, NEW u \in Int,
           \A k \in Holders : k # h => stake'[k] = stake[k],
           stake'[h] = stake[h] + d - u, pot' = pot + d,
           unowned' = unowned + u, unowned \in Int, UNCHANGED <<prop, lock>>
    PROVE  CustodyAccounted'
  <1>1. \A k \in Holders : stake[k] \in Int /\ stake'[k] \in Int
    BY DEF Books
  <1>2. Sum(stake', Holders) = Sum(stake, Holders) - stake[h] + stake'[h]
    BY <1>1, FiniteFacts, SumChange
  <1>3. Locked' = Locked /\ Deposits' = Deposits
    BY DEF Locked, Deposits, Created
  <1> QED  BY <1>1, <1>2, <1>3 DEF Books, CustodyAccounted

LEMMA LockMoves ==
    ASSUME CustodyAccounted, Books, Books', NEW h \in Holders, NEW d \in Int,
           \A k \in Holders : k # h => lock'[k] = lock[k],
           lock'[h].amount = lock[h].amount + d, pot' = pot + d,
           unowned \in Int, UNCHANGED <<prop, stake, unowned>>
    PROVE  CustodyAccounted'
  <1>1. /\ \A k \in Holders : Locked[k] \in Int /\ Locked'[k] \in Int
        /\ \A k \in Holders : k # h => Locked'[k] = Locked[k]
        /\ Locked'[h] = Locked[h] + d
    <2>1. \A k \in Holders : Locked[k] \in Int /\ Locked'[k] \in Int
      BY DEF Books
    <2> QED  BY <2>1 DEF Locked
  <1>2. Sum(Locked', Holders) = Sum(Locked, Holders) - Locked[h] + Locked'[h]
    BY <1>1, FiniteFacts, SumChange
  <1>3. Deposits' = Deposits
    BY DEF Deposits, Created
  <1> QED  BY <1>1, <1>2, <1>3 DEF Books, CustodyAccounted

LEMMA BalanceMoves ==
    ASSUME CustodyAccounted, Books, Books', NEW d \in Int, pot' = pot + d,
           unowned' = unowned + d, unowned \in Int, UNCHANGED <<prop, stake, lock>>
    PROVE  CustodyAccounted'
  <1>1. Locked' = Locked /\ Deposits' = Deposits
    BY DEF Locked, Deposits, Created
  <1> QED  BY <1>1 DEF Books, CustodyAccounted

LEMMA CreateAccounted ==
    ASSUME TypeOK, Books, Books', CustodyAccounted,
           NEW h \in Holders, NEW grant \in Grants, NEW s \in Snapshots,
           CreateProposal(h, grant, s)
    PROVE  CustodyAccounted'
  <1>1. PICK p \in Proposals : /\ NextId(p)
                               /\ prop' = [prop EXCEPT ![p] = NewProposal(h, grant, s)]
    BY Zenon DEF CreateProposal
  <1>2. ProposerFee \in Int /\ unowned \in Int
    BY GovernanceAssumption DEF GovernanceAssumption, TypeOK
  <1>3. p \notin Created
    BY <1>1 DEF NextId, Proposals
  <1>4. prop'[p] = NewProposal(h, grant, s) /\ \A q \in Proposals : q # p => prop'[q] = prop[q]
    BY <1>1 DEF TypeOK
  <1>5. Deposits[p] = 0 /\ Deposits'[p] = ProposerFee
    <2>1. Deposits'[p] = IF prop'[p].status # "none" THEN prop'[p].deposit ELSE 0
      BY DEF Deposits, Created
    <2> QED  BY <1>3, <1>4, <2>1 DEF Deposits, NewProposal
  <1>6. pot' = pot + ProposerFee /\ UNCHANGED <<stake, lock, unowned>> /\ pot \in Int
    BY DEF CreateProposal, PayIn, TypeOK
  <1> DEFINE d == ProposerFee
             u == 0
  <1>7. /\ d \in Int /\ u \in Int /\ unowned \in Int
        /\ Deposits'[p] = Deposits[p] + d /\ pot' = pot + d + u /\ unowned' = unowned + u
    BY <1>2, <1>5, <1>6
  <1> HIDE DEF d, u
  <1> QED  BY <1>4, <1>6, <1>7, DepositMoves

LEMMA ProposalAccounted ==
    ASSUME TypeOK, Books, Books', CustodyAccounted, NEW p \in Proposals, ProposalStep(p)
    PROVE  CustodyAccounted'
  <1>0. /\ prop \in [Proposals -> {NoProposal} \cup ProposalRecords]
        /\ unowned \in Int /\ pot \in Int
    BY DEF TypeOK
  <1>1. ASSUME prop[p].status \in {"Active", "Defeated", "Queued"},
               NEW d \in Int, NEW u \in Int,
               prop'[p].status # "none", prop'[p].deposit = prop[p].deposit + d,
               \A q \in Proposals : q # p => prop'[q] = prop[q],
               pot' = pot + d + u, unowned' = unowned + u, UNCHANGED <<stake, lock>>
        PROVE  CustodyAccounted'
    <2>1. Deposits[p] = prop[p].deposit /\ Deposits'[p] = prop'[p].deposit
      BY <1>1 DEF Deposits, Created
    <2>2. Deposits'[p] = Deposits[p] + d
      BY <1>1, <2>1
    <2> QED  BY <1>0, <1>1, <2>2, DepositMoves
  <1>2. ASSUME prop[p].status \in {"Active", "Defeated", "Queued"}
        PROVE  /\ prop[p] \in ProposalRecords
               /\ prop[p].deposit \in Int /\ prop[p].grant.amount \in Int
    <2>1. prop[p] \in ProposalRecords
      BY <1>0, <1>2 DEF NoProposal
    <2>2. prop[p].deposit \in {0, ProposerFee} /\ prop[p].grant \in Grants
      BY <2>1 DEF ProposalRecords
    <2>3. \A grant \in Grants : grant.amount \in Int
      BY GrantsTyped
    <2> QED  BY <2>1, <2>2, <2>3, GovernanceAssumption DEF GovernanceAssumption
  <1>3. ASSUME NEW h \in Holders, NEW support \in BOOLEAN, CastVote(h, p, support)
        PROVE  CustodyAccounted'
    <2>1. prop[p].status = "Active" /\ UNCHANGED <<pot, stake, lock, unowned>>
      BY <1>3 DEF CastVote
    <2>2. /\ prop'[p].status # "none" /\ prop'[p].deposit = prop[p].deposit + 0
          /\ \A q \in Proposals : q # p => prop'[q] = prop[q]
      BY <1>0, <1>2, <1>3 DEF CastVote, ProposalRecords
    <2>3. pot' = pot + 0 + 0 /\ unowned' = unowned + 0
      BY <1>0, <2>1
    <2> QED  BY <1>1, <2>1, <2>2, <2>3
  <1>4. CASE FinalizeProposal(p)
    <2> DEFINE d == 0 - prop[p].deposit
    <2>1. /\ prop[p].status = "Active" /\ pot' = pot - prop[p].deposit
          /\ UNCHANGED <<stake, lock, unowned>>
      BY <1>4 DEF FinalizeProposal, PayOut
    <2>2. /\ prop'[p].status # "none" /\ prop'[p].deposit = 0
          /\ \A q \in Proposals : q # p => prop'[q] = prop[q]
      BY <1>0, <1>2, <1>4 DEF FinalizeProposal, ProposalRecords
    <2>3. /\ d \in Int /\ prop'[p].deposit = prop[p].deposit + d
          /\ pot' = pot + d + 0 /\ unowned' = unowned + 0
      BY <1>0, <1>2, <2>1, <2>2
    <2> HIDE DEF d
    <2> QED  BY <1>1, <2>1, <2>2, <2>3
  <1>5. CASE ExecuteProposal(p)
    <2> DEFINE u == 0 - prop[p].grant.amount
    <2>1. /\ prop[p].status = "Queued" /\ pot' = pot - prop[p].grant.amount
          /\ unowned' = unowned - prop[p].grant.amount /\ UNCHANGED <<stake, lock>>
      BY <1>5 DEF ExecuteProposal, PayOut
    <2>2. /\ prop'[p].status # "none" /\ prop'[p].deposit = prop[p].deposit + 0
          /\ \A q \in Proposals : q # p => prop'[q] = prop[q]
      BY <1>0, <1>2, <1>5 DEF ExecuteProposal, ProposalRecords
    <2>3. u \in Int /\ pot' = pot + 0 + u /\ unowned' = unowned + u
      BY <1>0, <1>2, <2>1
    <2> HIDE DEF u
    <2> QED  BY <1>1, <2>1, <2>2, <2>3
  <1>6. CASE CancelProposal(p)
    <2> DEFINE d == 0 - prop[p].deposit
    <2>1. /\ prop[p].status \in {"Active", "Defeated", "Queued"}
          /\ pot' = pot - prop[p].deposit /\ UNCHANGED <<stake, lock, unowned>>
      BY <1>6 DEF CancelProposal, PayOut
    <2>2. /\ prop'[p].status # "none" /\ prop'[p].deposit = 0
          /\ \A q \in Proposals : q # p => prop'[q] = prop[q]
      BY <1>0, <1>2, <1>6 DEF CancelProposal, ProposalRecords
    <2>3. /\ d \in Int /\ prop'[p].deposit = prop[p].deposit + d
          /\ pot' = pot + d + 0 /\ unowned' = unowned + 0
      BY <1>0, <1>2, <2>1, <2>2
    <2> HIDE DEF d
    <2> QED  BY <1>1, <2>1, <2>2, <2>3
  <1>7. CASE PhasePasses(p)
    <2>1. prop[p].status \in {"Active", "Queued"} /\ UNCHANGED <<pot, stake, lock, unowned>>
      BY <1>7 DEF PhasePasses
    <2>2. /\ prop'[p].status # "none" /\ prop'[p].deposit = prop[p].deposit + 0
          /\ \A q \in Proposals : q # p => prop'[q] = prop[q]
      BY <1>0, <1>2, <1>7 DEF PhasePasses, ProposalRecords
    <2>3. pot' = pot + 0 + 0 /\ unowned' = unowned + 0
      BY <1>0, <2>1
    <2> QED  BY <1>1, <2>1, <2>2, <2>3
  <1> QED  BY <1>3, <1>4, <1>5, <1>6, <1>7 DEF ProposalStep

LEMMA StakeAccounted ==
    ASSUME TypeOK, Books, Books', CustodyAccounted, NEW h \in Holders, StakeStep(h)
    PROVE  CustodyAccounted'
  <1>0. /\ stake \in [Holders -> Nat] /\ unowned \in Int /\ pot \in Int /\ stake[h] \in Nat
        /\ Amounts \subseteq Int
    BY GovernanceAssumption DEF TypeOK, GovernanceAssumption
  <1>1. ASSUME NEW a \in Amounts, StakeArbitrator(h, a)
        PROVE  CustodyAccounted'
    <2>1. /\ pot' = pot + a /\ unowned' = unowned + 0 /\ a \in Int
          /\ UNCHANGED <<prop, lock>>
      BY <1>0, <1>1 DEF StakeArbitrator, PayIn
    <2>2. stake'[h] = stake[h] + a - 0 /\ \A k \in Holders : k # h => stake'[k] = stake[k]
      BY <1>0, <1>1, <2>1 DEF StakeArbitrator
    <2> QED  BY <1>0, <2>1, <2>2, StakeMoves
  <1>2. ASSUME NEW r \in Holders, SlashArbitrator(h, r)
        PROVE  CustodyAccounted'
    <2> DEFINE slashed == (stake[h] * SlashPercent) \div 100
               d == 0 - slashed
               u == unowned' - unowned
    <2>1. slashed \in 0 .. stake[h]
      BY <1>0, SlashWithinStake, GovernanceAssumption DEF GovernanceAssumption
    <2>2. /\ pot' = pot - slashed /\ UNCHANGED <<prop, lock>>
          /\ \/ /\ stake' = [stake EXCEPT ![h] = 0]
                /\ unowned' = unowned + (stake[h] - slashed)
             \/ /\ stake' = [stake EXCEPT ![h] = stake[h] - slashed]
                /\ unowned' = unowned
      <3>1. PayOut(r, slashed) /\ UNCHANGED <<prop, lock>>
        BY <1>2 DEF SlashArbitrator
      <3>2. \/ /\ stake' = [stake EXCEPT ![h] = 0]
               /\ unowned' = unowned + (stake[h] - slashed)
            \/ /\ stake' = [stake EXCEPT ![h] = stake[h] - slashed]
               /\ unowned' = unowned
        BY <1>2 DEF SlashArbitrator
      <3> QED  BY <3>1, <3>2 DEF PayOut
    <2> HIDE DEF slashed
    <2>3. /\ d \in Int /\ u \in Int /\ pot' = pot + d /\ unowned' = unowned + u
          /\ stake'[h] = stake[h] + d - u
          /\ \A k \in Holders : k # h => stake'[k] = stake[k]
      BY <1>0, <2>1, <2>2
    <2> HIDE DEF d, u
    <2> QED  BY <1>0, <2>2, <2>3, StakeMoves
  <1> QED  BY <1>1, <1>2 DEF StakeStep

LEMMA LockAccounted ==
    ASSUME TypeOK, Books, Books', CustodyAccounted, NEW h \in Holders, LockStep(h)
    PROVE  CustodyAccounted'
  <1>0. /\ lock \in [Holders -> Locks] /\ lock[h] \in Locks /\ lock[h].amount \in Int
        /\ unowned \in Int /\ pot \in Int /\ {0} \cup Amounts \subseteq Int
    BY GovernanceAssumption DEF TypeOK, GovernanceAssumption, Locks
  <1>1. ASSUME NEW d \in Int, NEW L, lock' = [lock EXCEPT ![h] = L],
               L.amount = lock[h].amount + d, pot' = pot + d,
               UNCHANGED <<prop, stake, unowned>>
        PROVE  CustodyAccounted'
    <2>1. lock'[h] = L /\ \A k \in Holders : k # h => lock'[k] = lock[k]
      BY <1>0, <1>1
    <2> QED  BY <1>0, <1>1, <2>1, LockMoves
  <1>2. ASSUME NEW a \in Amounts, NEW periods \in 1 .. MaxPeriods, CreateLock(h, a, periods)
        PROVE  CustodyAccounted'
    <2> DEFINE L == [amount |-> a, left |-> periods]
    <2>1. /\ pot' = pot + a /\ lock' = [lock EXCEPT ![h] = L] /\ lock[h] = NoLock
          /\ UNCHANGED <<prop, stake, unowned>>
      BY <1>2 DEF CreateLock, PayIn
    <2>2. L.amount = lock[h].amount + a /\ a \in Int
      BY <1>0, <2>1 DEF NoLock
    <2> HIDE DEF L
    <2> QED  BY <1>1, <2>1, <2>2
  <1>3. ASSUME NEW a \in {0} \cup Amounts, NEW periods \in 0 .. MaxPeriods,
               ExtendLock(h, a, periods)
        PROVE  CustodyAccounted'
    <2> DEFINE L == [amount |-> lock[h].amount + a, left |-> periods]
    <2>1. /\ pot' = pot + a /\ lock' = [lock EXCEPT ![h] = L]
          /\ UNCHANGED <<prop, stake, unowned>>
      BY <1>0, <1>3 DEF ExtendLock, PayIn
    <2>2. L.amount = lock[h].amount + a /\ a \in Int
      BY <1>0
    <2> HIDE DEF L
    <2> QED  BY <1>1, <2>1, <2>2
  <1>4. CASE WithdrawLock(h)
    <2> DEFINE d == 0 - lock[h].amount
    <2>1. /\ pot' = pot - lock[h].amount /\ lock' = [lock EXCEPT ![h] = NoLock]
          /\ UNCHANGED <<prop, stake, unowned>>
      BY <1>4 DEF WithdrawLock, PayOut
    <2>2. d \in Int /\ NoLock.amount = lock[h].amount + d /\ pot' = pot + d
      BY <1>0, <2>1 DEF NoLock
    <2> HIDE DEF d
    <2> QED  BY <1>1, <2>1, <2>2
  <1>5. CASE LockPasses(h)
    <2> DEFINE L == [lock[h] EXCEPT !.left = @ - 1]
               d == 0
    <2>1. /\ lock' = [lock EXCEPT ![h] = L] /\ pot' = pot + d
          /\ UNCHANGED <<prop, stake, unowned>>
      BY <1>0, <1>5 DEF LockPasses
    <2>2. L.amount = lock[h].amount + d /\ d \in Int
      BY <1>0 DEF Locks
    <2> HIDE DEF L, d
    <2> QED  BY <1>1, <2>1, <2>2
  <1> QED  BY <1>2, <1>3, <1>4, <1>5 DEF LockStep

LEMMA TokenAccounted ==
    ASSUME TypeOK, Books, Books', CustodyAccounted, TokenStep
    PROVE  CustodyAccounted'
  <1>0. unowned \in Int /\ pot \in Int /\ Amounts \subseteq Int
    BY GovernanceAssumption DEF TypeOK, GovernanceAssumption
  <1>1. ASSUME NEW from \in Senders, NEW to \in Holders, NEW a \in Amounts,
               Transfer(from, to, a)
        PROVE  CustodyAccounted'
    <2>1. /\ pot' = pot + 0 /\ unowned' = unowned + 0 /\ UNCHANGED <<prop, stake, lock>>
      BY <1>0, <1>1 DEF Transfer
    <2> QED  BY <1>0, <2>1, BalanceMoves
  <1>2. ASSUME NEW h \in Senders, NEW a \in Amounts, Donate(h, a)
        PROVE  CustodyAccounted'
    <2>1. /\ pot' = pot + a /\ unowned' = unowned + a /\ UNCHANGED <<prop, stake, lock>>
          /\ a \in Int
      BY <1>0, <1>2 DEF Donate, PayIn
    <2> QED  BY <1>0, <2>1, BalanceMoves
  <1> QED  BY <1>1, <1>2 DEF TokenStep

LEMMA CustodyStep == TypeOK /\ TypeOK' /\ CustodyAccounted /\ [Next]_vars => CustodyAccounted'
  <1> SUFFICES ASSUME TypeOK, TypeOK', CustodyAccounted, [Next]_vars PROVE CustodyAccounted'
    OBVIOUS
  <1>0. Books /\ Books'
    BY BooksKept, BooksKeptNext
  <1>1. ASSUME NEW h \in Proposers, NEW grant \in Grants, NEW s \in Snapshots,
               CreateProposal(h, grant, s)
        PROVE  CustodyAccounted'
    BY <1>0, <1>1, CreateAccounted, GovernanceAssumption DEF GovernanceAssumption
  <1>2. ASSUME NEW p \in Proposals, ProposalStep(p) PROVE CustodyAccounted'
    BY <1>0, <1>2, ProposalAccounted
  <1>3. ASSUME NEW h \in Stakers, StakeStep(h) PROVE CustodyAccounted'
    BY <1>0, <1>3, StakeAccounted, GovernanceAssumption DEF GovernanceAssumption
  <1>4. ASSUME NEW h \in Lockers, LockStep(h) PROVE CustodyAccounted'
    BY <1>0, <1>4, LockAccounted, GovernanceAssumption DEF GovernanceAssumption
  <1>5. CASE TokenStep
    BY <1>0, <1>5, TokenAccounted
  <1>6. CASE UpdateConfig \/ UNCHANGED vars
    <2>1. UNCHANGED <<pot, unowned, prop, stake, lock>> /\ pot \in Int /\ unowned \in Int
      BY <1>6 DEF UpdateConfig, vars, TypeOK
    <2>2. pot' = pot + 0 /\ unowned' = unowned + 0
      BY <2>1
    <2> QED  BY <1>0, <2>1, <2>2, BalanceMoves
  <1> QED  BY <1>1, <1>2, <1>3, <1>4, <1>5, <1>6 DEF Next

LEMMA CustodyStart == Init => CustodyAccounted
  <1> SUFFICES ASSUME Init PROVE CustodyAccounted
    OBVIOUS
  <1>1. TypeOK
    BY GovernanceAssumption DEF GovernanceAssumption, Init, TypeOK, NoLock, Locks
  <1>2. /\ \A p \in Proposals : Deposits[p] = 0
        /\ \A h \in Holders : stake[h] = 0
        /\ \A h \in Holders : Locked[h] = 0
    BY DEF Init, Deposits, Locked, Created, NoProposal, NoLock
  <1>3. /\ Sum(Deposits, Proposals) = 0 * Cardinality(Proposals)
        /\ Sum(stake, Holders) = 0 * Cardinality(Holders)
        /\ Sum(Locked, Holders) = 0 * Cardinality(Holders)
    BY <1>2, FiniteFacts, SumConstant
  <1>4. Cardinality(Proposals) \in Nat /\ Cardinality(Holders) \in Nat
    BY FiniteFacts, FS_CardinalityType
  <1>5. Owed = 0
    BY <1>1, <1>3, <1>4, BooksKept DEF Books
  <1> QED  BY <1>5 DEF Init, CustodyAccounted

\* Whatever is proposed, staked, locked, slashed, paid or donated, the balance of
\* the contract is the deposits, stakes and locks it owes and the tokens nobody
\* owns: nothing is paid twice and nothing is forgotten.
THEOREM CustodyIsAccounted == Spec => []CustodyAccounted
  <1> QED  BY CustodyStart, CustodyStep, TypeCorrect, PTL DEF Spec

----------------------------------------------------------------------------
(* What each holder owns, inside and outside the contract *)

Larger(a, b) == IF a > b THEN a ELSE b

\* The deposits of the proposals of h.
OwnDeposits(h) ==
    [p \in Proposals |-> IF p \in Created /\ prop[p].proposer = h THEN prop[p].deposit ELSE 0]
Deposited(h) == Sum(OwnDeposits(h), Proposals)

\* What h holds, has staked, locked or deposited: calls move it around.
Own == [h \in Holders |-> wallet[h] + stake[h] + lock[h].amount + Deposited(h)]

Owners ==
    \A h \in Holders :
        /\ OwnDeposits(h) \in [Proposals -> Nat] /\ Deposited(h) \in Nat
        /\ wallet[h] \in Nat /\ stake[h] \in Nat /\ lock[h].amount \in Nat
        /\ Own[h] \in Nat
        /\ Own[h] = wallet[h] + stake[h] + lock[h].amount + Deposited(h)

LEMMA OwnersKept == TypeOK => Owners
  <1> SUFFICES ASSUME TypeOK, NEW h \in Holders
               PROVE  /\ OwnDeposits(h) \in [Proposals -> Nat] /\ Deposited(h) \in Nat
                      /\ wallet[h] \in Nat /\ stake[h] \in Nat /\ lock[h].amount \in Nat
    BY DEF Owners, Own
  <1>1. OwnDeposits(h) \in [Proposals -> Nat]
    <2>1. \A p \in Created : prop[p].deposit \in Nat
      BY CreatedTypes, GovernanceAssumption DEF GovernanceAssumption, ProposalRecords
    <2> QED  BY <2>1 DEF OwnDeposits
  <1>2. Deposited(h) \in Nat
    BY <1>1, FiniteFacts, SumType DEF Deposited
  <1> QED  BY <1>1, <1>2 DEF TypeOK, Locks

LEMMA OwnersKeptNext == TypeOK' => Owners'
  BY OwnersKept, PTL

LEMMA DepositedSame ==
    ASSUME UNCHANGED prop, NEW h
    PROVE  Deposited(h)' = Deposited(h)
  BY DEF Deposited, OwnDeposits, Created

LEMMA DepositedChanges ==
    ASSUME Owners, Owners', NEW p \in Proposals,
           \A q \in Proposals : q # p => prop'[q] = prop[q], NEW h \in Holders
    PROVE  Deposited(h)' = Deposited(h) - OwnDeposits(h)[p] + OwnDeposits(h)'[p]
  <1>1. \A q \in Proposals : OwnDeposits(h)[q] \in Int /\ OwnDeposits(h)'[q] \in Int
    BY DEF Owners
  <1>2. \A q \in Proposals : q # p => OwnDeposits(h)'[q] = OwnDeposits(h)[q]
    BY DEF OwnDeposits, Created
  <1> QED  BY <1>1, <1>2, FiniteFacts, SumChange DEF Deposited

----------------------------------------------------------------------------
(* Votes within the supply: the invariant *)

\* All tokens have an owner or are what nobody owns.
OwnedAll == Sum(Own, Holders) + unowned = Supply

\* An allocation paid with tokens that are somebody's lets every vote be doubled.
OverdrawnDoubled == unowned < 0 => doubled = Proposals

\* The tallies are the powers recorded per voter.
VotesAreBallots ==
    \A p \in Proposals :
        IF p \in Created
          THEN prop[p].votesFor + prop[p].votesAgainst = Sum(ballots[p], Holders)
          ELSE \A h \in Holders : ballots[p][h] = 0

\* Behind the votes that were cast and those that still can be are tokens that
\* are each counted once: a holder's vote never takes more than it owned then,
\* and what it owned it still owns.
Backing(p) == [h \in Holders |-> Larger(Own[h], ballots[p][h])]
BallotsBacked ==
    \A p \in Proposals : prop[p].status = "Active" /\ p \notin doubled
                         => Sum(Backing(p), Holders) <= Supply

TallyInv ==
    /\ OwnedAll /\ OverdrawnDoubled /\ VotesAreBallots /\ BallotsBacked
    /\ TalliesWithinSupply

\* What a step does to what the holders own: what changes hands doubles every
\* open vote, all else is moved about by its owner or given up.
OwnEffect ==
    /\ OwnedAll'
    /\ OverdrawnDoubled'
    /\ doubled \subseteq doubled'
    /\ \/ \A h \in Holders : Own'[h] <= Own[h]
       \/ \A p \in Proposals : prop[p].status = "Active" => p \in doubled'

LEMMA OwnOneChanges ==
    ASSUME OwnedAll, Owners, Owners', NEW x \in Holders, NEW d \in Int, unowned \in Int,
           \A h \in Holders : h # x => Own'[h] = Own[h],
           Own'[x] = Own[x] + d, unowned' = unowned - d,
           OverdrawnDoubled', doubled \subseteq doubled',
           d <= 0 \/ \A p \in Proposals : prop[p].status = "Active" => p \in doubled'
    PROVE  OwnEffect
  <1>1. \A h \in Holders : Own[h] \in Int /\ Own'[h] \in Int
    BY DEF Owners
  <1>2. Sum(Own', Holders) = Sum(Own, Holders) - Own[x] + Own'[x] /\ Sum(Own, Holders) \in Int
    BY <1>1, FiniteFacts, SumChange, SumType
  <1>3. OwnedAll'
    <2>1. Sum(Own', Holders) + unowned' = Sum(Own, Holders) + unowned
      BY <1>1, <1>2
    <2> QED  BY <2>1 DEF OwnedAll, Supply
  <1>4. d <= 0 => \A h \in Holders : Own'[h] <= Own[h]
    BY <1>1
  <1> QED  BY <1>3, <1>4 DEF OwnEffect

LEMMA OwnSame ==
    ASSUME OwnedAll, Owners, Owners', \A h \in Holders : Own'[h] = Own[h],
           UNCHANGED unowned, OverdrawnDoubled', doubled \subseteq doubled'
    PROVE  OwnEffect
  <1>1. \A h \in Holders : Own[h] \in Int /\ Own'[h] \in Int
    BY DEF Owners
  <1>2. Sum(Own', Holders) = Sum(Own, Holders)
    BY <1>1, FiniteFacts, SumSame
  <1>3. OwnedAll'
    BY <1>2 DEF OwnedAll, Supply
  <1>4. \A h \in Holders : Own'[h] <= Own[h]
    BY <1>1
  <1> QED  BY <1>3, <1>4 DEF OwnEffect

LEMMA OwnTwoChange ==
    ASSUME OwnedAll, Owners, Owners', NEW x \in Holders, NEW y \in Holders, x # y,
           NEW d \in Int, NEW e \in Int, unowned \in Int,
           \A h \in Holders : h \notin {x, y} => Own'[h] = Own[h],
           Own'[x] = Own[x] - d, Own'[y] = Own[y] + e, unowned' = unowned + d - e,
           OverdrawnDoubled', doubled \subseteq doubled',
           \A p \in Proposals : prop[p].status = "Active" => p \in doubled'
    PROVE  OwnEffect
  <1>1. \A h \in Holders : Own[h] \in Int /\ Own'[h] \in Int
    BY DEF Owners
  <1>2. /\ Sum(Own', Holders) = Sum(Own, Holders) - Own[x] - Own[y] + Own'[x] + Own'[y]
        /\ Sum(Own, Holders) \in Int
    BY <1>1, FiniteFacts, SumChangeTwo, SumType
  <1>3. OwnedAll'
    <2>1. Sum(Own', Holders) + unowned' = Sum(Own, Holders) + unowned
      BY <1>1, <1>2
    <2> QED  BY <2>1 DEF OwnedAll, Supply
  <1> QED  BY <1>3 DEF OwnEffect

----------------------------------------------------------------------------
(* What each operation does to what the holders own *)

LEMMA WithProp ==
    ASSUME Owners, Owners', UNCHANGED prop
    PROVE  \A h \in Holders :
              /\ Own[h] = wallet[h] + stake[h] + lock[h].amount + Deposited(h)
              /\ Own'[h] = wallet'[h] + stake'[h] + lock'[h].amount + Deposited(h)
  BY DepositedSame DEF Owners

LEMMA ChangeOwnerDoubles ==
    ASSUME NEW from, NEW to, ChangeOwner(from, to), TypeOK
    PROVE  /\ doubled \subseteq doubled'
           /\ from # to => \A p \in Proposals : prop[p].status = "Active" => p \in doubled'
           /\ doubled = Proposals => doubled' = Proposals
  BY DEF ChangeOwner, TypeOK

LEMMA CreateEffect ==
    ASSUME TypeOK, Owners, Owners', OwnedAll, OverdrawnDoubled,
           NEW h \in Holders, NEW grant \in Grants, NEW s \in Snapshots,
           CreateProposal(h, grant, s)
    PROVE  OwnEffect
  <1>1. PICK p \in Proposals : /\ NextId(p)
                               /\ prop' = [prop EXCEPT ![p] = NewProposal(h, grant, s)]
    BY Zenon DEF CreateProposal
  <1>2. p \notin Created /\ p \in Created'
    BY <1>1, SMTT(20) DEF NextId, Proposals, Created, NewProposal, TypeOK
  <1>3. prop'[p] = NewProposal(h, grant, s) /\ \A q \in Proposals : q # p => prop'[q] = prop[q]
    BY <1>1 DEF TypeOK
  <1>4. /\ wallet' = [wallet EXCEPT ![h] = @ - ProposerFee]
        /\ UNCHANGED <<stake, lock, unowned, doubled>> /\ ProposerFee \in Nat
    BY GovernanceAssumption DEF CreateProposal, PayIn, GovernanceAssumption
  <1>5. \A k \in Holders : /\ OwnDeposits(k)[p] = 0
                           /\ OwnDeposits(k)'[p] = IF k = h THEN ProposerFee ELSE 0
    BY <1>2, <1>3 DEF OwnDeposits, NewProposal
  <1>6. ASSUME NEW k \in Holders PROVE Own'[k] = Own[k]
    <2>1. Deposited(k)' = Deposited(k) + (IF k = h THEN ProposerFee ELSE 0)
      BY <1>3, <1>4, <1>5, DepositedChanges DEF Owners
    <2>2. wallet'[k] = wallet[k] - (IF k = h THEN ProposerFee ELSE 0)
      BY <1>4 DEF TypeOK
    <2> QED  BY <1>4, <2>1, <2>2 DEF Owners
  <1>7. OverdrawnDoubled' /\ doubled \subseteq doubled'
    BY <1>4 DEF OverdrawnDoubled
  <1> QED  BY <1>4, <1>6, <1>7, OwnSame

LEMMA ProposalEffect ==
    ASSUME TypeOK, Owners, Owners', OwnedAll, OverdrawnDoubled,
           NEW p \in Proposals, ProposalStep(p)
    PROVE  OwnEffect
  <1>0. /\ prop \in [Proposals -> {NoProposal} \cup ProposalRecords]
        /\ unowned \in Int /\ wallet \in [Holders -> Nat] /\ doubled \subseteq Proposals
    BY DEF TypeOK
  <1>1. ASSUME prop[p].status \in {"Active", "Defeated", "Queued"}
        PROVE  /\ prop[p] \in ProposalRecords /\ p \in Created
               /\ prop[p].proposer \in Holders /\ prop[p].deposit \in Nat
               /\ prop[p].grant.to \in Holders /\ prop[p].grant.amount \in Nat
    <2>1. prop[p] \in ProposalRecords /\ p \in Created
      BY <1>0, <1>1 DEF NoProposal, Created
    <2>2. /\ prop[p].proposer \in Holders /\ prop[p].deposit \in {0, ProposerFee}
          /\ prop[p].grant \in Grants
      BY <2>1 DEF ProposalRecords
    <2> QED  BY <2>1, <2>2, GrantsTyped, GovernanceAssumption DEF GovernanceAssumption
  \* The deposit stays with the proposal.
  <1>2. ASSUME prop[p].status \in {"Active", "Defeated", "Queued"},
               prop'[p].status # "none", prop'[p].deposit = prop[p].deposit,
               prop'[p].proposer = prop[p].proposer,
               \A q \in Proposals : q # p => prop'[q] = prop[q], NEW k \in Holders
        PROVE  Deposited(k)' = Deposited(k)
    <2>1. OwnDeposits(k)'[p] = OwnDeposits(k)[p]
      BY <1>2 DEF OwnDeposits, Created
    <2> QED  BY <1>2, <2>1, DepositedChanges DEF Owners
  \* The deposit leaves the proposal.
  <1>3. ASSUME prop[p].status \in {"Active", "Defeated", "Queued"},
               prop'[p].deposit = 0,
               \A q \in Proposals : q # p => prop'[q] = prop[q], NEW k \in Holders
        PROVE  Deposited(k)' = Deposited(k)
                                - (IF k = prop[p].proposer THEN prop[p].deposit ELSE 0)
    <2>1. OwnDeposits(k)'[p] = 0
      BY <1>3 DEF OwnDeposits
    <2>2. OwnDeposits(k)[p] = IF k = prop[p].proposer THEN prop[p].deposit ELSE 0
      BY <1>1, <1>3 DEF OwnDeposits
    <2>3. OwnDeposits(k)[p] \in Int /\ Deposited(k) \in Int
      BY DEF Owners
    <2>4. Deposited(k)' = Deposited(k) - OwnDeposits(k)[p] + OwnDeposits(k)'[p]
      BY <1>3, DepositedChanges
    <2> HIDE DEF Deposited
    <2>5. Deposited(k)' = Deposited(k) - OwnDeposits(k)[p]
      BY <2>1, <2>3, <2>4
    <2> QED  BY <2>2, <2>5
  <1>4. ASSUME NEW h \in Holders, NEW support \in BOOLEAN, CastVote(h, p, support)
        PROVE  OwnEffect
    <2>1. /\ prop[p].status = "Active"
          /\ UNCHANGED <<wallet, stake, lock, unowned, doubled>>
      BY <1>4 DEF CastVote
    <2>2. /\ prop'[p].status # "none" /\ prop'[p].deposit = prop[p].deposit
          /\ prop'[p].proposer = prop[p].proposer
          /\ \A q \in Proposals : q # p => prop'[q] = prop[q]
      BY <1>0, <1>1, <1>4 DEF CastVote, ProposalRecords
    <2>3. \A k \in Holders : Deposited(k)' = Deposited(k)
      BY <1>2, <2>1, <2>2
    <2>4. \A k \in Holders : Own'[k] = Own[k]
      BY <2>1, <2>3 DEF Owners
    <2> QED  BY <2>1, <2>4, OwnSame DEF OverdrawnDoubled
  <1>5. CASE FinalizeProposal(p)
    <2> DEFINE author == prop[p].proposer
               fee == prop[p].deposit
               receiver == IF EnoughTurnout(prop[p]) THEN author ELSE Treasury
    <2>1. /\ prop[p].status = "Active" /\ UNCHANGED <<stake, lock, unowned>>
          /\ wallet' = [wallet EXCEPT ![receiver] = @ + fee]
          /\ ChangeOwner(author, receiver)
      BY <1>5 DEF FinalizeProposal, PayOut
    <2>2. prop'[p].deposit = 0 /\ \A q \in Proposals : q # p => prop'[q] = prop[q]
      BY <1>0, <1>1, <1>5 DEF FinalizeProposal, ProposalRecords
    <2>3. author \in Holders /\ receiver \in Holders /\ fee \in Nat
      BY <1>1, <2>1, GovernanceAssumption DEF GovernanceAssumption
    <2>4. \A k \in Holders : Deposited(k)' = Deposited(k) - (IF k = author THEN fee ELSE 0)
      BY <1>3, <2>1, <2>2
    <2> HIDE DEF author, fee, receiver
    <2>5. \A k \in Holders : wallet'[k] = wallet[k] + (IF k = receiver THEN fee ELSE 0)
      BY <1>0, <2>1, <2>3
    <2>6. \A k \in Holders :
             Own'[k] = Own[k] - (IF k = author THEN fee ELSE 0)
                              + (IF k = receiver THEN fee ELSE 0)
      BY <2>1, <2>3, <2>4, <2>5, SMTT(20) DEF Owners
    <2>7. OverdrawnDoubled' /\ doubled \subseteq doubled'
      BY <2>1, ChangeOwnerDoubles DEF OverdrawnDoubled
    <2>8. CASE receiver = author
      <3>1. \A k \in Holders : Own'[k] = Own[k]
        BY <2>3, <2>6, <2>8 DEF Owners
      <3> QED  BY <2>1, <2>7, <3>1, OwnSame
    <2>9. CASE receiver # author
      <3>1. /\ Own'[author] = Own[author] - fee /\ Own'[receiver] = Own[receiver] + fee
            /\ \A k \in Holders : k \notin {author, receiver} => Own'[k] = Own[k]
            /\ unowned' = unowned + fee - fee
        BY <1>0, <2>1, <2>3, <2>6, <2>9 DEF Owners
      <3>2. \A q \in Proposals : prop[q].status = "Active" => q \in doubled'
        BY <2>1, <2>9, ChangeOwnerDoubles
      <3> QED  BY <1>0, <2>3, <2>7, <2>9, <3>1, <3>2, OwnTwoChange
    <2> QED  BY <2>8, <2>9
  <1>6. CASE ExecuteProposal(p)
    <2> DEFINE to == prop[p].grant.to
               a == prop[p].grant.amount
    <2>1. /\ prop[p].status = "Queued" /\ UNCHANGED <<stake, lock>>
          /\ wallet' = [wallet EXCEPT ![to] = @ + a] /\ unowned' = unowned - a
          /\ doubled' = IF unowned' < 0 /\ a > 0 THEN Proposals
                        ELSE IF a > 0
                        THEN doubled \cup {q \in Proposals : prop[q].status = "Active"}
                        ELSE doubled
      BY <1>6 DEF ExecuteProposal, PayOut
    <2>2. /\ prop'[p].status # "none" /\ prop'[p].deposit = prop[p].deposit
          /\ prop'[p].proposer = prop[p].proposer
          /\ \A q \in Proposals : q # p => prop'[q] = prop[q]
      BY <1>0, <1>1, <1>6 DEF ExecuteProposal, ProposalRecords
    <2>3. to \in Holders /\ a \in Nat
      BY <1>1, <2>1
    <2>4. \A k \in Holders : Deposited(k)' = Deposited(k)
      BY <1>2, <2>1, <2>2
    <2> HIDE DEF to, a
    <2>5. \A k \in Holders : wallet'[k] = wallet[k] + (IF k = to THEN a ELSE 0)
      BY <1>0, <2>1, <2>3
    <2>6. Own'[to] = Own[to] + a /\ \A k \in Holders : k # to => Own'[k] = Own[k]
      BY <2>1, <2>3, <2>4, <2>5 DEF Owners
    <2>7. OverdrawnDoubled' /\ doubled \subseteq doubled'
      <3>1. a > 0 \/ (a = 0 /\ unowned' = unowned)
        BY <1>0, <2>1, <2>3
      <3> QED  BY <1>0, <2>1, <3>1 DEF OverdrawnDoubled
    <2>8. a <= 0 \/ \A q \in Proposals : prop[q].status = "Active" => q \in doubled'
      BY <2>1, <2>3
    <2> QED  BY <1>0, <2>1, <2>3, <2>6, <2>7, <2>8, OwnOneChanges
  <1>7. CASE CancelProposal(p)
    <2> DEFINE author == prop[p].proposer
               fee == prop[p].deposit
    <2>1. /\ prop[p].status \in {"Active", "Defeated", "Queued"}
          /\ UNCHANGED <<stake, lock, unowned, doubled>>
          /\ wallet' = [wallet EXCEPT ![author] = @ + fee]
      BY <1>7 DEF CancelProposal, PayOut
    <2>2. prop'[p].deposit = 0 /\ \A q \in Proposals : q # p => prop'[q] = prop[q]
      BY <1>0, <1>1, <1>7 DEF CancelProposal, ProposalRecords
    <2>3. author \in Holders /\ fee \in Nat
      BY <1>1, <2>1
    <2>4. \A k \in Holders : Deposited(k)' = Deposited(k) - (IF k = author THEN fee ELSE 0)
      BY <1>3, <2>1, <2>2
    <2> HIDE DEF author, fee
    <2>5. \A k \in Holders : wallet'[k] = wallet[k] + (IF k = author THEN fee ELSE 0)
      BY <1>0, <2>1, <2>3
    <2>6. \A k \in Holders : Own'[k] = Own[k]
      BY <2>1, <2>3, <2>4, <2>5 DEF Owners
    <2> QED  BY <2>1, <2>6, OwnSame DEF OverdrawnDoubled
  <1>8. CASE PhasePasses(p)
    <2>1. /\ prop[p].status \in {"Active", "Queued"}
          /\ UNCHANGED <<wallet, stake, lock, unowned, doubled>>
      BY <1>8 DEF PhasePasses
    <2>2. /\ prop'[p].status # "none" /\ prop'[p].deposit = prop[p].deposit
          /\ prop'[p].proposer = prop[p].proposer
          /\ \A q \in Proposals : q # p => prop'[q] = prop[q]
      BY <1>0, <1>1, <1>8 DEF PhasePasses, ProposalRecords
    <2>3. \A k \in Holders : Deposited(k)' = Deposited(k)
      BY <1>2, <2>1, <2>2
    <2>4. \A k \in Holders : Own'[k] = Own[k]
      BY <2>1, <2>3 DEF Owners
    <2> QED  BY <2>1, <2>4, OwnSame DEF OverdrawnDoubled
  <1> QED  BY <1>4, <1>5, <1>6, <1>7, <1>8 DEF ProposalStep

LEMMA StakeEffect ==
    ASSUME TypeOK, Owners, Owners', OwnedAll, OverdrawnDoubled,
           NEW h \in Holders, StakeStep(h)
    PROVE  OwnEffect
  <1>0. /\ stake \in [Holders -> Nat] /\ wallet \in [Holders -> Nat]
        /\ unowned \in Int /\ stake[h] \in Nat /\ Amounts \subseteq Int
    BY GovernanceAssumption DEF TypeOK, GovernanceAssumption
  <1>1. ASSUME NEW a \in Amounts, StakeArbitrator(h, a)
        PROVE  OwnEffect
    <2>1. /\ wallet' = [wallet EXCEPT ![h] = @ - a] /\ stake' = [stake EXCEPT ![h] = @ + a]
          /\ UNCHANGED <<prop, lock, unowned, doubled>> /\ a \in Int
      BY <1>0, <1>1 DEF StakeArbitrator, PayIn
    <2>2. \A k \in Holders : wallet'[k] + stake'[k] = wallet[k] + stake[k]
      BY <1>0, <2>1
    <2>3. \A k \in Holders : Own'[k] = Own[k]
      BY <2>1, <2>2, WithProp DEF Owners
    <2> QED  BY <2>1, <2>3, OwnSame DEF OverdrawnDoubled
  <1>2. ASSUME NEW r \in Holders, SlashArbitrator(h, r)
        PROVE  OwnEffect
    <2> DEFINE slashed == (stake[h] * SlashPercent) \div 100
               lost == stake[h] - stake'[h]
    <2>1. slashed \in 0 .. stake[h]
      BY <1>0, SlashWithinStake, GovernanceAssumption DEF GovernanceAssumption
    <2>2. /\ wallet' = [wallet EXCEPT ![r] = @ + slashed] /\ ChangeOwner(h, r)
          /\ UNCHANGED <<prop, lock>>
          /\ \/ /\ stake' = [stake EXCEPT ![h] = 0]
                /\ unowned' = unowned + (stake[h] - slashed)
             \/ /\ stake' = [stake EXCEPT ![h] = stake[h] - slashed]
                /\ unowned' = unowned
      <3>1. PayOut(r, slashed) /\ ChangeOwner(h, r) /\ UNCHANGED <<prop, lock>>
        BY <1>2 DEF SlashArbitrator
      <3>2. \/ /\ stake' = [stake EXCEPT ![h] = 0]
               /\ unowned' = unowned + (stake[h] - slashed)
            \/ /\ stake' = [stake EXCEPT ![h] = stake[h] - slashed]
               /\ unowned' = unowned
        BY <1>2 DEF SlashArbitrator
      <3> QED  BY <3>1, <3>2 DEF PayOut
    <2> HIDE DEF slashed
    <2>3. /\ lost \in Nat /\ slashed <= lost /\ unowned' = unowned + (lost - slashed)
          /\ \A k \in Holders : stake'[k] = stake[k] - (IF k = h THEN lost ELSE 0)
      BY <1>0, <2>1, <2>2
    <2>4. \A k \in Holders : wallet'[k] = wallet[k] + (IF k = r THEN slashed ELSE 0)
      BY <1>0, <2>1, <2>2
    <2> HIDE DEF lost
    <2>5. \A k \in Holders :
             Own'[k] = Own[k] - (IF k = h THEN lost ELSE 0) + (IF k = r THEN slashed ELSE 0)
      BY <2>1, <2>2, <2>3, <2>4, WithProp DEF Owners
    <2>6. OverdrawnDoubled' /\ doubled \subseteq doubled'
      <3>1. unowned' < 0 => unowned < 0
        BY <1>0, <2>1, <2>3
      <3> QED  BY <2>2, <3>1, ChangeOwnerDoubles DEF OverdrawnDoubled
    <2>7. CASE r = h
      <3> DEFINE d == slashed - lost
      <3>1. /\ d \in Int /\ d <= 0 /\ unowned' = unowned - d
            /\ Own'[h] = Own[h] + d /\ \A k \in Holders : k # h => Own'[k] = Own[k]
        BY <1>0, <2>1, <2>3, <2>5, <2>7 DEF Owners
      <3> HIDE DEF d
      <3> QED  BY <1>0, <2>6, <3>1, OwnOneChanges
    <2>8. CASE r # h
      <3>1. /\ Own'[h] = Own[h] - lost /\ Own'[r] = Own[r] + slashed
            /\ \A k \in Holders : k \notin {h, r} => Own'[k] = Own[k]
            /\ unowned' = unowned + lost - slashed /\ lost \in Int /\ slashed \in Int
        BY <1>0, <2>1, <2>3, <2>5, <2>8 DEF Owners
      <3>2. \A q \in Proposals : prop[q].status = "Active" => q \in doubled'
        BY <2>2, <2>8, ChangeOwnerDoubles
      <3> QED  BY <1>0, <2>6, <2>8, <3>1, <3>2, OwnTwoChange
    <2> QED  BY <2>7, <2>8
  <1> QED  BY <1>1, <1>2 DEF StakeStep

LEMMA LockEffect ==
    ASSUME TypeOK, Owners, Owners', OwnedAll, OverdrawnDoubled,
           NEW h \in Holders, LockStep(h)
    PROVE  OwnEffect
  <1>0. /\ lock \in [Holders -> Locks] /\ lock[h] \in Locks /\ lock[h].amount \in Int
        /\ wallet \in [Holders -> Nat] /\ {0} \cup Amounts \subseteq Int
    BY GovernanceAssumption DEF TypeOK, GovernanceAssumption, Locks
  <1>1. ASSUME NEW d \in Int, NEW L, lock' = [lock EXCEPT ![h] = L],
               L.amount = lock[h].amount + d, wallet' = [wallet EXCEPT ![h] = @ - d],
               UNCHANGED <<prop, stake, unowned, doubled>>
        PROVE  OwnEffect
    <2>1. \A k \in Holders : /\ lock'[k].amount = lock[k].amount + (IF k = h THEN d ELSE 0)
                             /\ wallet'[k] = wallet[k] - (IF k = h THEN d ELSE 0)
      <3>1. \A k \in Holders : lock'[k] = IF k = h THEN L ELSE lock[k]
        BY <1>0, <1>1
      <3> QED  BY <1>0, <1>1, <3>1 DEF Owners
    <2>2. \A k \in Holders : Own'[k] = Own[k]
      BY <1>1, <2>1, WithProp DEF Owners
    <2> QED  BY <1>1, <2>2, OwnSame DEF OverdrawnDoubled
  <1>2. ASSUME NEW a \in Amounts, NEW periods \in 1 .. MaxPeriods, CreateLock(h, a, periods)
        PROVE  OwnEffect
    <2> DEFINE L == [amount |-> a, left |-> periods]
    <2>1. /\ lock' = [lock EXCEPT ![h] = L] /\ lock[h] = NoLock
          /\ wallet' = [wallet EXCEPT ![h] = @ - a]
          /\ UNCHANGED <<prop, stake, unowned, doubled>>
      BY <1>2 DEF CreateLock, PayIn
    <2>2. L.amount = lock[h].amount + a /\ a \in Int
      BY <1>0, <2>1 DEF NoLock
    <2> HIDE DEF L
    <2> QED  BY <1>1, <2>1, <2>2
  <1>3. ASSUME NEW a \in {0} \cup Amounts, NEW periods \in 0 .. MaxPeriods,
               ExtendLock(h, a, periods)
        PROVE  OwnEffect
    <2> DEFINE L == [amount |-> lock[h].amount + a, left |-> periods]
    <2>1. /\ lock' = [lock EXCEPT ![h] = L] /\ wallet' = [wallet EXCEPT ![h] = @ - a]
          /\ UNCHANGED <<prop, stake, unowned, doubled>>
      BY <1>0, <1>3 DEF ExtendLock, PayIn
    <2>2. L.amount = lock[h].amount + a /\ a \in Int
      BY <1>0
    <2> HIDE DEF L
    <2> QED  BY <1>1, <2>1, <2>2
  <1>4. CASE WithdrawLock(h)
    <2> DEFINE d == 0 - lock[h].amount
    <2>1. /\ lock' = [lock EXCEPT ![h] = NoLock]
          /\ wallet' = [wallet EXCEPT ![h] = @ + lock[h].amount]
          /\ UNCHANGED <<prop, stake, unowned, doubled>>
      BY <1>4 DEF WithdrawLock, PayOut
    <2>2. wallet[h] - d = wallet[h] + lock[h].amount /\ d \in Int
      BY <1>0
    <2>3. NoLock.amount = lock[h].amount + d
      BY <1>0 DEF NoLock
    <2>4. wallet' = [wallet EXCEPT ![h] = @ - d]
      <3> HIDE DEF d
      <3> QED  BY <2>1, <2>2
    <2> HIDE DEF d
    <2> QED  BY <1>1, <2>1, <2>2, <2>3, <2>4
  <1>5. CASE LockPasses(h)
    <2> DEFINE L == [lock[h] EXCEPT !.left = @ - 1]
               d == 0
    <2>1. /\ lock' = [lock EXCEPT ![h] = L] /\ wallet' = [wallet EXCEPT ![h] = @ - d]
          /\ UNCHANGED <<prop, stake, unowned, doubled>>
      BY <1>0, <1>5 DEF LockPasses
    <2>2. L.amount = lock[h].amount + d /\ d \in Int
      BY <1>0 DEF Locks
    <2> HIDE DEF L, d
    <2> QED  BY <1>1, <2>1, <2>2
  <1> QED  BY <1>2, <1>3, <1>4, <1>5 DEF LockStep

LEMMA TokenEffect ==
    ASSUME TypeOK, Owners, Owners', OwnedAll, OverdrawnDoubled, TokenStep
    PROVE  OwnEffect
  <1>0. /\ wallet \in [Holders -> Nat] /\ unowned \in Int
        /\ Senders \subseteq Holders /\ Amounts \subseteq Nat
    BY GovernanceAssumption DEF TypeOK, GovernanceAssumption
  <1>1. ASSUME NEW from \in Senders, NEW to \in Holders, NEW a \in Amounts,
               Transfer(from, to, a)
        PROVE  OwnEffect
    <2>1. /\ from # to /\ wallet' = [wallet EXCEPT ![from] = @ - a, ![to] = @ + a]
          /\ ChangeOwner(from, to) /\ UNCHANGED <<prop, stake, lock, unowned>>
      BY <1>1 DEF Transfer
    <2>2. /\ wallet'[from] = wallet[from] - a /\ wallet'[to] = wallet[to] + a
          /\ \A k \in Holders : k \notin {from, to} => wallet'[k] = wallet[k]
      BY <1>0, <2>1
    <2>3. /\ Own'[from] = Own[from] - a /\ Own'[to] = Own[to] + a
          /\ \A k \in Holders : k \notin {from, to} => Own'[k] = Own[k]
          /\ unowned' = unowned + a - a /\ a \in Int
      <3>1. \A k \in Holders : wallet[k] \in Int /\ wallet'[k] \in Int /\ Own[k] \in Int
        BY DEF Owners
      <3>2. ASSUME NEW k \in Holders PROVE Own'[k] = Own[k] + wallet'[k] - wallet[k]
        <4>1. stake'[k] = stake[k] /\ lock'[k].amount = lock[k].amount
          BY <2>1
        <4>2. /\ Own[k] = wallet[k] + stake[k] + lock[k].amount + Deposited(k)
              /\ Own'[k] = wallet'[k] + stake[k] + lock[k].amount + Deposited(k)
          BY <2>1, <4>1, WithProp
        <4>3. stake[k] \in Int /\ lock[k].amount \in Int /\ Deposited(k) \in Int
          BY DEF Owners
        <4> QED  BY <3>1, <4>2, <4>3
      <3> QED  BY <1>0, <2>1, <2>2, <3>1, <3>2
    <2>4. /\ OverdrawnDoubled' /\ doubled \subseteq doubled'
          /\ \A q \in Proposals : prop[q].status = "Active" => q \in doubled'
      BY <2>1, ChangeOwnerDoubles DEF OverdrawnDoubled
    <2> QED  BY <1>0, <2>1, <2>3, <2>4, OwnTwoChange
  <1>2. ASSUME NEW h \in Senders, NEW a \in Amounts, Donate(h, a)
        PROVE  OwnEffect
    <2> DEFINE d == 0 - a
    <2>1. /\ wallet' = [wallet EXCEPT ![h] = @ - a] /\ unowned' = unowned + a
          /\ UNCHANGED <<prop, stake, lock, doubled>> /\ h \in Holders /\ a \in Nat
      BY <1>0, <1>2 DEF Donate, PayIn
    <2>2. /\ d \in Int /\ d <= 0 /\ unowned' = unowned - d
          /\ Own'[h] = Own[h] + d /\ \A k \in Holders : k # h => Own'[k] = Own[k]
      <3>1. wallet'[h] = wallet[h] - a /\ \A k \in Holders : k # h => wallet'[k] = wallet[k]
        BY <1>0, <2>1
      <3> QED  BY <1>0, <2>1, <3>1, WithProp DEF Owners
    <2>3. OverdrawnDoubled' /\ doubled \subseteq doubled'
      BY <1>0, <2>1 DEF OverdrawnDoubled
    <2> HIDE DEF d
    <2> QED  BY <1>0, <2>1, <2>2, <2>3, OwnOneChanges
  <1> QED  BY <1>1, <1>2 DEF TokenStep

----------------------------------------------------------------------------
(* What each operation does to the votes *)

LEMMA ShareOfAmount ==
    ASSUME NEW a \in Nat, NEW m \in Nat \ {0}, NEW l \in 0 .. m
    PROVE  (a * l) \div m <= a
  <1> DEFINE q == (a * l) \div m
  <1>1. a * l \in Nat /\ a * l <= a * m
    BY Z3
  <1>2. q \in Int /\ m * q <= a * l
    BY <1>1
  <1> HIDE DEF q
  <1>3. ASSUME q >= a + 1 PROVE FALSE
    <2>1. m * q >= m * (a + 1)
      BY <1>2, <1>3, Z3
    <2>2. m * (a + 1) = a * m + m
      OBVIOUS
    <2>3. a * m \in Nat /\ m * q \in Int
      BY <1>2, Z3
    <2> QED  BY <1>1, <1>2, <2>1, <2>2, <2>3
  <1>4. q <= a
    BY <1>2, <1>3
  <1> QED  BY <1>4 DEF q

\* The power of a vote is never more than what the voter owns.
LEMMA PowerWithinOwn ==
    ASSUME TypeOK, Owners, NEW h \in Holders
    PROVE  Power(h) \in Nat /\ Power(h) <= Own[h]
  <1>1. lock[h].amount \in Nat /\ lock[h].left \in 0 .. MaxPeriods /\ wallet[h] \in Nat
    BY DEF TypeOK, Locks
  <1>2. VePower(h) <= lock[h].amount
    BY <1>1, ShareOfAmount, GovernanceAssumption DEF VePower, GovernanceAssumption
  <1>3. wallet[h] <= Own[h] /\ lock[h].amount <= Own[h]
    BY DEF Owners
  <1>4. Power(h) = VePower(h) \/ Power(h) = wallet[h]
    BY DEF Power
  <1>5. Power(h) \in Nat
    BY PowerIsNat
  <1> QED  BY <1>1, <1>2, <1>3, <1>4, <1>5 DEF Owners

\* The three things a step can do to the votes of p.
Untouched(p) ==
    /\ ballots'[p] = ballots[p] /\ (p \in Created' <=> p \in Created)
    /\ p \in Created => /\ prop'[p].votesFor = prop[p].votesFor
                        /\ prop'[p].votesAgainst = prop[p].votesAgainst
    /\ prop'[p].status = "Active" => prop[p].status = "Active"

Opened(p) ==
    /\ ballots'[p] = ballots[p] /\ p \notin Created /\ p \in Created'
    /\ prop'[p].votesFor = 0 /\ prop'[p].votesAgainst = 0

VotedBy(p, h) ==
    /\ prop[p].status = "Active" /\ p \in Created' /\ ballots[p][h] = 0
    /\ ballots'[p] = [ballots[p] EXCEPT ![h] = Power(h)]
    /\ prop'[p].votesFor + prop'[p].votesAgainst
       = prop[p].votesFor + prop[p].votesAgainst + Power(h)
    /\ UNCHANGED doubled /\ \A k \in Holders : Own'[k] = Own[k]

\* TallyInv of one proposal, after the step.
TallyNext(p) ==
    /\ IF p \in Created'
         THEN prop'[p].votesFor + prop'[p].votesAgainst = Sum(ballots'[p], Holders)
         ELSE \A h \in Holders : ballots'[p][h] = 0
    /\ prop'[p].status = "Active" /\ p \notin doubled' => Sum(Backing(p)', Holders) <= Supply
    /\ p \in Created' /\ p \notin doubled'
       => prop'[p].votesFor + prop'[p].votesAgainst <= Supply

LEMMA BallotsTyped ==
    ASSUME TypeOK, TypeOK', Owners, Owners', NEW p \in Proposals, NEW h \in Holders
    PROVE  /\ ballots[p][h] \in Nat /\ ballots'[p][h] \in Nat
           /\ Own[h] \in Nat /\ Own'[h] \in Nat
           /\ Backing(p)[h] = Larger(Own[h], ballots[p][h])
           /\ Backing(p)'[h] = Larger(Own'[h], ballots'[p][h])
           /\ Backing(p)[h] \in Nat /\ Backing(p)'[h] \in Nat
  <1>1. /\ ballots[p][h] \in Nat /\ ballots'[p][h] \in Nat
        /\ Own[h] \in Nat /\ Own'[h] \in Nat
    BY DEF TypeOK, Owners
  <1>2. /\ Backing(p)[h] = Larger(Own[h], ballots[p][h])
        /\ Backing(p)'[h] = Larger(Own'[h], ballots'[p][h])
    BY DEF Backing
  <1> QED  BY <1>1, <1>2 DEF Larger

LEMMA SupplyIsNat == Supply \in Nat
  <1>1. Cardinality(Holders) \in Nat /\ Endowment \in Nat
    BY FiniteFacts, FS_CardinalityType, GovernanceAssumption DEF GovernanceAssumption
  <1> QED  BY <1>1, Z3 DEF Supply

LEMMA UntouchedTally ==
    ASSUME TypeOK, TypeOK', Owners, Owners', TallyInv, OwnEffect,
           NEW p \in Proposals, Untouched(p)
    PROVE  TallyNext(p)
  <1>1. ASSUME prop'[p].status = "Active", p \notin doubled'
        PROVE  Sum(Backing(p)', Holders) <= Supply
    <2>1. prop[p].status = "Active" /\ p \notin doubled
      BY <1>1 DEF Untouched, OwnEffect
    <2>2. \A h \in Holders : Own'[h] <= Own[h]
      BY <1>1, <2>1 DEF OwnEffect
    <2>3. \A h \in Holders : /\ Backing(p)[h] \in Int /\ Backing(p)'[h] \in Int
                             /\ Backing(p)'[h] <= Backing(p)[h]
      <3> SUFFICES ASSUME NEW h \in Holders
                   PROVE  /\ Backing(p)[h] \in Int /\ Backing(p)'[h] \in Int
                          /\ Backing(p)'[h] <= Backing(p)[h]
        OBVIOUS
      <3>1. ballots'[p][h] = ballots[p][h]
        BY DEF Untouched
      <3> QED  BY <2>2, <3>1, BallotsTyped DEF Larger
    <2>4. Sum(Backing(p)', Holders) <= Sum(Backing(p), Holders)
      BY <2>3, FiniteFacts, SumMonotonic
    <2>5. Sum(Backing(p)', Holders) \in Int /\ Sum(Backing(p), Holders) \in Int
      BY <2>3, FiniteFacts, SumType
    <2>6. Sum(Backing(p), Holders) <= Supply
      BY <2>1 DEF TallyInv, BallotsBacked
    <2> QED  BY <2>4, <2>5, <2>6, SupplyIsNat
  <1>2. IF p \in Created'
          THEN prop'[p].votesFor + prop'[p].votesAgainst = Sum(ballots'[p], Holders)
          ELSE \A h \in Holders : ballots'[p][h] = 0
    BY DEF Untouched, TallyInv, VotesAreBallots
  <1>3. p \in Created' /\ p \notin doubled'
        => prop'[p].votesFor + prop'[p].votesAgainst <= Supply
    BY DEF Untouched, TallyInv, TalliesWithinSupply, OwnEffect
  <1> QED  BY <1>1, <1>2, <1>3 DEF TallyNext

LEMMA OpenedTally ==
    ASSUME TypeOK, TypeOK', Owners, Owners', TallyInv, OwnEffect,
           NEW p \in Proposals, Opened(p)
    PROVE  TallyNext(p)
  <1>1. \A h \in Holders : ballots'[p][h] = 0
    BY DEF Opened, TallyInv, VotesAreBallots
  <1>2. Sum(ballots'[p], Holders) = 0
    <2>1. Sum(ballots'[p], Holders) = 0 * Cardinality(Holders)
      BY <1>1, FiniteFacts, SumConstant
    <2>2. Cardinality(Holders) \in Nat
      BY FiniteFacts, FS_CardinalityType
    <2> QED  BY <2>1, <2>2
  <1>3. ASSUME p \notin doubled' PROVE Sum(Backing(p)', Holders) <= Supply
    <2>1. unowned' >= 0 /\ unowned' \in Int
      BY <1>3 DEF OwnEffect, OverdrawnDoubled, TypeOK
    <2>2. \A h \in Holders : Backing(p)'[h] \in Int /\ Backing(p)'[h] = Own'[h]
      BY <1>1, BallotsTyped DEF Larger
    <2>3. Sum(Backing(p)', Holders) = Sum(Own', Holders) /\ Sum(Backing(p)', Holders) \in Int
      BY <2>2, FiniteFacts, SumSame, SumType
    <2>4. Sum(Own', Holders) + unowned' = Supply
      BY DEF OwnEffect, OwnedAll, Supply
    <2> QED  BY <2>1, <2>3, <2>4, SupplyIsNat
  <1> QED  BY <1>2, <1>3, SupplyIsNat DEF Opened, TallyNext

LEMMA VotedTally ==
    ASSUME TypeOK, TypeOK', Owners, Owners', TallyInv, OwnEffect,
           NEW p \in Proposals, NEW h \in Holders, VotedBy(p, h)
    PROVE  TallyNext(p)
  <1>0. Power(h) \in Nat /\ Power(h) <= Own[h]
    BY PowerWithinOwn
  <1>1. /\ ballots'[p][h] = Power(h) /\ ballots[p][h] = 0
        /\ \A k \in Holders : k # h => ballots'[p][k] = ballots[p][k]
        /\ \A k \in Holders : ballots[p][k] \in Int /\ ballots'[p][k] \in Int
    BY DEF VotedBy, TypeOK
  <1>2. Sum(ballots'[p], Holders) = Sum(ballots[p], Holders) + Power(h)
        /\ Sum(ballots[p], Holders) \in Int /\ Sum(ballots'[p], Holders) \in Int
    <2>1. Sum(ballots'[p], Holders) = Sum(ballots[p], Holders) - ballots[p][h] + ballots'[p][h]
      BY <1>1, FiniteFacts, SumChange
    <2>2. Sum(ballots[p], Holders) \in Int
      BY <1>1, FiniteFacts, SumType
    <2> QED  BY <1>0, <1>1, <2>1, <2>2
  <1>3. prop'[p].votesFor + prop'[p].votesAgainst = Sum(ballots'[p], Holders)
    <2>1. p \in Created
      BY DEF VotedBy, Created
    <2> QED  BY <1>2, <2>1 DEF VotedBy, TallyInv, VotesAreBallots
  <1>4. ASSUME p \notin doubled'
        PROVE  /\ Sum(Backing(p)', Holders) <= Supply
               /\ Sum(ballots'[p], Holders) <= Supply
    <2>1. Sum(Backing(p), Holders) <= Supply
      BY <1>4 DEF VotedBy, TallyInv, BallotsBacked
    <2>2. \A k \in Holders : /\ Backing(p)'[k] \in Int /\ Backing(p)'[k] = Backing(p)[k]
                             /\ ballots'[p][k] <= Backing(p)'[k]
      <3> SUFFICES ASSUME NEW k \in Holders
                   PROVE  /\ Backing(p)'[k] \in Int /\ Backing(p)'[k] = Backing(p)[k]
                          /\ ballots'[p][k] <= Backing(p)'[k]
        OBVIOUS
      <3>1. Own'[k] = Own[k]
        BY DEF VotedBy
      <3>2. CASE k = h
        BY <1>0, <1>1, <3>1, <3>2, BallotsTyped DEF Larger
      <3>3. CASE k # h
        BY <1>1, <3>1, <3>3, BallotsTyped DEF Larger
      <3> QED  BY <3>2, <3>3
    <2>3. Sum(Backing(p)', Holders) = Sum(Backing(p), Holders)
      BY <2>2, FiniteFacts, SumSame
    <2>4. Sum(ballots'[p], Holders) <= Sum(Backing(p)', Holders)
      BY <1>1, <2>2, FiniteFacts, SumMonotonic
    <2>5. Sum(Backing(p)', Holders) \in Int
      BY <2>2, FiniteFacts, SumType
    <2> QED  BY <1>2, <2>1, <2>3, <2>4, <2>5, SupplyIsNat
  <1>5. p \in Created'
    BY DEF VotedBy
  <1> QED  BY <1>3, <1>4, <1>5 DEF TallyNext

LEMMA CreateVotes ==
    ASSUME TypeOK, NEW h \in Holders, NEW grant \in Grants, NEW s \in Snapshots,
           CreateProposal(h, grant, s), NEW q \in Proposals
    PROVE  Untouched(q) \/ Opened(q)
  <1>1. PICK p \in Proposals : /\ NextId(p)
                               /\ prop' = [prop EXCEPT ![p] = NewProposal(h, grant, s)]
    BY Zenon DEF CreateProposal
  <1>2. UNCHANGED ballots /\ p \notin Created
    BY <1>1 DEF CreateProposal, NextId, Proposals
  <1>3. CASE q = p
    <2>1. prop'[p] = NewProposal(h, grant, s)
      BY <1>1 DEF TypeOK
    <2> QED  BY <1>2, <1>3, <2>1 DEF Opened, Created, NewProposal
  <1>4. CASE q # p
    <2>1. prop'[q] = prop[q]
      BY <1>1, <1>4 DEF TypeOK
    <2> QED  BY <1>2, <2>1 DEF Untouched, Created
  <1> QED  BY <1>3, <1>4

LEMMA ProposalVotes ==
    ASSUME TypeOK, Owners, Owners', NEW p \in Proposals, ProposalStep(p), NEW q \in Proposals
    PROVE  Untouched(q) \/ \E h \in Holders : VotedBy(q, h)
  <1>0. prop \in [Proposals -> {NoProposal} \cup ProposalRecords]
    BY DEF TypeOK
  <1>1. ASSUME prop[p].status \in {"Active", "Defeated", "Queued"}
        PROVE  prop[p] \in ProposalRecords
    BY <1>0, <1>1 DEF NoProposal
  <1>2. ASSUME NEW h \in Holders, NEW support \in BOOLEAN, CastVote(h, p, support)
        PROVE  Untouched(q) \/ VotedBy(q, h)
    <2>1. /\ prop[p].status = "Active" /\ ballots[p][h] = 0
          /\ prop' = IF support THEN [prop EXCEPT ![p].votesFor = @ + Power(h)]
                                ELSE [prop EXCEPT ![p].votesAgainst = @ + Power(h)]
          /\ ballots' = [ballots EXCEPT ![p][h] = Power(h)]
          /\ UNCHANGED <<wallet, stake, lock, doubled>>
      BY <1>2 DEF CastVote
    <2>2. prop[p] \in ProposalRecords /\ Power(h) \in Nat
      BY <1>1, <2>1, PowerIsNat
    <2>3. /\ prop'[p].status = "Active"
          /\ prop'[p].proposer = prop[p].proposer /\ prop'[p].deposit = prop[p].deposit
          /\ prop'[p].votesFor + prop'[p].votesAgainst
             = prop[p].votesFor + prop[p].votesAgainst + Power(h)
          /\ \A r \in Proposals : r # p => prop'[r] = prop[r]
      BY <1>0, <2>1, <2>2 DEF ProposalRecords
    <2>4. /\ ballots'[p] = [ballots[p] EXCEPT ![h] = Power(h)]
          /\ \A r \in Proposals : r # p => ballots'[r] = ballots[r]
      BY <2>1 DEF TypeOK
    <2>5. CASE q # p
      BY <2>3, <2>4, <2>5 DEF Untouched, Created
    <2>6. CASE q = p
      <3>1. \A k \in Holders : Deposited(k)' = Deposited(k)
        <4> SUFFICES ASSUME NEW k \in Holders PROVE Deposited(k)' = Deposited(k)
          OBVIOUS
        <4>1. OwnDeposits(k)'[p] = OwnDeposits(k)[p]
          BY <2>1, <2>3 DEF OwnDeposits, Created
        <4> QED  BY <2>3, <4>1, DepositedChanges DEF Owners
      <3>2. \A k \in Holders : Own'[k] = Own[k]
        BY <2>1, <3>1 DEF Owners
      <3> QED  BY <2>1, <2>3, <2>4, <2>6, <3>2 DEF VotedBy, Created
    <2> QED  BY <2>5, <2>6
  <1>3. ASSUME prop[p] \in ProposalRecords, UNCHANGED ballots, NEW status \in Statuses \ {"none"},
               prop'[p].status = status, status = "Active" => prop[p].status = "Active",
               prop'[p].votesFor = prop[p].votesFor,
               prop'[p].votesAgainst = prop[p].votesAgainst,
               \A r \in Proposals : r # p => prop'[r] = prop[r]
        PROVE  Untouched(q)
    BY <1>3 DEF Untouched, Created, ProposalRecords
  <1>4. CASE FinalizeProposal(p)
    <2> DEFINE status == IF Evaluate(prop[p], config) THEN "Queued" ELSE "Defeated"
    <2>1. /\ prop[p].status = "Active" /\ UNCHANGED ballots
          /\ prop' = [prop EXCEPT ![p].status = status, ![p].deposit = 0]
          /\ status \in Statuses \ {"none"} /\ status # "Active"
      BY <1>4 DEF FinalizeProposal, Statuses
    <2> HIDE DEF status
    <2>2. prop[p] \in ProposalRecords
      BY <1>1, <2>1
    <2>3. /\ prop'[p].status = status
          /\ prop'[p].votesFor = prop[p].votesFor
          /\ prop'[p].votesAgainst = prop[p].votesAgainst
          /\ \A r \in Proposals : r # p => prop'[r] = prop[r]
      BY <1>0, <2>1, <2>2 DEF ProposalRecords
    <2> QED  BY <1>3, <2>1, <2>2, <2>3
  <1>5. CASE ExecuteProposal(p) \/ CancelProposal(p)
    <2>1. /\ prop[p].status \in {"Active", "Defeated", "Queued"} /\ UNCHANGED ballots
          /\ \/ prop' = [prop EXCEPT ![p].status = "Executed"]
             \/ prop' = [prop EXCEPT ![p].status = "Cancelled", ![p].deposit = 0]
      BY <1>5 DEF ExecuteProposal, CancelProposal
    <2>2. prop[p] \in ProposalRecords
      BY <1>1, <2>1
    <2>3. /\ prop'[p].status \in {"Executed", "Cancelled"}
          /\ prop'[p].votesFor = prop[p].votesFor
          /\ prop'[p].votesAgainst = prop[p].votesAgainst
          /\ \A r \in Proposals : r # p => prop'[r] = prop[r]
      BY <1>0, <2>1, <2>2 DEF ProposalRecords
    <2>4. {"Executed", "Cancelled"} \subseteq Statuses \ {"none"}
      BY DEF Statuses
    <2> QED  BY <1>3, <2>1, <2>2, <2>3, <2>4
  <1>6. CASE PhasePasses(p)
    <2>1. prop[p].status \in {"Active", "Queued"} /\ UNCHANGED ballots
      BY <1>6 DEF PhasePasses
    <2>2. prop[p] \in ProposalRecords
      BY <1>1, <2>1
    <2>3. /\ prop'[p].status = prop[p].status
          /\ prop'[p].votesFor = prop[p].votesFor
          /\ prop'[p].votesAgainst = prop[p].votesAgainst
          /\ \A r \in Proposals : r # p => prop'[r] = prop[r]
      BY <1>0, <1>6, <2>2 DEF PhasePasses, ProposalRecords
    <2>4. prop[p].status \in Statuses \ {"none"}
      BY <2>1 DEF Statuses
    <2> QED  BY <1>3, <2>1, <2>2, <2>3, <2>4
  <1> QED  BY <1>2, <1>4, <1>5, <1>6 DEF ProposalStep

LEMMA OtherVotes ==
    ASSUME UNCHANGED <<prop, ballots>>, NEW q \in Proposals
    PROVE  Untouched(q)
  BY DEF Untouched, Created

----------------------------------------------------------------------------
(* Votes within the supply *)

LEMMA TallyStep == TypeOK /\ TypeOK' /\ TallyInv /\ [Next]_vars => TallyInv'
  <1> SUFFICES ASSUME TypeOK, TypeOK', TallyInv, [Next]_vars PROVE TallyInv'
    OBVIOUS
  <1>0. /\ Owners /\ Owners' /\ OwnedAll /\ OverdrawnDoubled
        /\ Proposers \cup Stakers \cup Lockers \subseteq Holders
    BY OwnersKept, OwnersKeptNext, GovernanceAssumption DEF TallyInv, GovernanceAssumption
  <1> DEFINE Effects == /\ OwnEffect
                        /\ \A q \in Proposals : \/ Untouched(q) \/ Opened(q)
                                                \/ \E h \in Holders : VotedBy(q, h)
  <1>1. ASSUME NEW h \in Proposers, NEW grant \in Grants, NEW s \in Snapshots,
               CreateProposal(h, grant, s)
        PROVE  Effects
    BY <1>0, <1>1, CreateEffect, CreateVotes
  <1>2. ASSUME NEW p \in Proposals, ProposalStep(p) PROVE Effects
    BY <1>0, <1>2, ProposalEffect, ProposalVotes
  <1>3. ASSUME NEW h \in Stakers, StakeStep(h) PROVE Effects
    <2>1. UNCHANGED <<prop, ballots>>
      BY <1>3 DEF StakeStep, StakeArbitrator, SlashArbitrator
    <2> QED  BY <1>0, <1>3, <2>1, StakeEffect, OtherVotes
  <1>4. ASSUME NEW h \in Lockers, LockStep(h) PROVE Effects
    <2>1. UNCHANGED <<prop, ballots>>
      BY <1>4 DEF LockStep, CreateLock, ExtendLock, WithdrawLock, LockPasses
    <2> QED  BY <1>0, <1>4, <2>1, LockEffect, OtherVotes
  <1>5. ASSUME TokenStep PROVE Effects
    <2>1. UNCHANGED <<prop, ballots>>
      BY <1>5 DEF TokenStep, Transfer, Donate
    <2> QED  BY <1>0, <1>5, <2>1, TokenEffect, OtherVotes
  <1>6. ASSUME UpdateConfig \/ UNCHANGED vars PROVE Effects
    <2>1. UNCHANGED <<wallet, prop, ballots, stake, lock, unowned, doubled>>
      BY <1>6 DEF UpdateConfig, vars
    <2>2. \A h \in Holders : Own'[h] = Own[h]
      BY <1>0, <2>1, WithProp
    <2>3. OwnEffect
      BY <1>0, <2>1, <2>2, OwnSame DEF OverdrawnDoubled
    <2> QED  BY <2>1, <2>3, OtherVotes
  <1>7. Effects
    BY <1>1, <1>2, <1>3, <1>4, <1>5, <1>6 DEF Next
  <1>8. \A p \in Proposals : TallyNext(p)
    BY <1>0, <1>7, UntouchedTally, OpenedTally, VotedTally
  <1>9. OwnedAll' /\ OverdrawnDoubled'
    BY <1>7 DEF OwnEffect
  <1>10. VotesAreBallots'
    BY <1>8 DEF VotesAreBallots, TallyNext
  <1>11. BallotsBacked'
    BY <1>8 DEF BallotsBacked, TallyNext, Supply
  <1>12. TalliesWithinSupply'
    BY <1>8 DEF TalliesWithinSupply, TallyNext, Created, Supply
  <1> QED  BY <1>9, <1>10, <1>11, <1>12 DEF TallyInv

LEMMA TallyStart == Init => TallyInv
  <1> SUFFICES ASSUME Init PROVE TallyInv
    OBVIOUS
  <1>1. TypeOK
    BY GovernanceAssumption DEF GovernanceAssumption, Init, TypeOK, NoLock, Locks
  <1>2. Created = {} /\ \A p \in Proposals : prop[p].status = "none"
    BY DEF Init, Created, NoProposal
  <1>3. \A h \in Holders : Own[h] = Endowment
    <2> SUFFICES ASSUME NEW h \in Holders PROVE Own[h] = Endowment
      OBVIOUS
    <2>1. \A p \in Proposals : OwnDeposits(h)[p] = 0
      BY <1>2 DEF OwnDeposits
    <2>2. Deposited(h) = 0 * Cardinality(Proposals)
      BY <2>1, FiniteFacts, SumConstant DEF Deposited
    <2>3. Deposited(h) = 0
      BY <2>2, FiniteFacts, FS_CardinalityType
    <2>4. wallet[h] = Endowment /\ stake[h] = 0 /\ lock[h].amount = 0
      BY DEF Init, NoLock
    <2> QED  BY <1>1, <2>3, <2>4, OwnersKept DEF Owners
  <1>4. Sum(Own, Holders) = Supply
    <2>1. Endowment \in Int
      BY GovernanceAssumption DEF GovernanceAssumption
    <2> QED  BY <1>3, <2>1, FiniteFacts, SumConstant DEF Supply
  <1>5. OwnedAll
    BY <1>4, SupplyIsNat DEF OwnedAll, Init
  <1>6. \A p \in Proposals, h \in Holders : ballots[p][h] = 0
    BY DEF Init
  <1> QED  BY <1>2, <1>5, <1>6 DEF TallyInv, OverdrawnDoubled, VotesAreBallots,
                                   BallotsBacked, TalliesWithinSupply, Init

\* Whatever is staked, locked, deposited and refunded between two votes, the
\* votes on a proposal never exceed the supply of the token, unless a token
\* changes its owner during the vote.
THEOREM VotesWithinSupply == Spec => []TalliesWithinSupply
  <1>1. TypeOK /\ TypeOK' /\ TallyInv /\ [Next]_vars => TallyInv'
    BY TallyStep
  <1>2. TallyInv => TalliesWithinSupply
    BY DEF TallyInv
  <1> QED  BY <1>1, <1>2, TallyStart, TypeCorrect, PTL DEF Spec
=============================================================================
