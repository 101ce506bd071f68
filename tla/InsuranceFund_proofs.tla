------------------------- MODULE InsuranceFund_proofs -------------------------
(***************************************************************************)
(* Theorems about InsuranceFund, for any governors, stakers, claims,        *)
(* amounts and quorums.                                                     *)
(***************************************************************************)
EXTENDS InsuranceFund, SumTheorems

\* What the proofs use of FundAssumption.
LEMMA ConstantFacts ==
    /\ IsFiniteSet(Governors)
    /\ Amounts \subseteq Nat \ {0}
    /\ SlashBps \subseteq Nat
    /\ YieldPrecision \in Nat \ {0}
  BY FundAssumption

LEMMA StakersFinite == IsFiniteSet(Stakers)
  BY FundAssumption

LEMMA QuotientType ==
    \A x \in Int, d \in Nat \ {0} :
       x \div d \in Int /\ (x >= 0 => x \div d \in Nat)
  OBVIOUS

LEMMA ProductType ==
    /\ \A x \in Int, y \in Int : x * y \in Int
    /\ \A x \in Nat, y \in Nat : x * y \in Nat
  OBVIOUS

----------------------------------------------------------------------------
(* Type correctness *)

\* What a staker is owed is an integer, and what a call pays of it is covered.
LEMMA YieldType ==
    ASSUME TypeOK, NEW s \in Stakers
    PROVE  /\ PendingYield(s) \in Int
           /\ YieldSettled(s) \in Int /\ YieldSettled(s) <= balance
<1>1. stakes[s].amount \in Int /\ acc - stakes[s].debt \in Int /\ balance \in Nat
  BY DEF TypeOK, StakeRecords
<1>2. stakes[s].amount * (acc - stakes[s].debt) \in Int
  BY <1>1, ProductType
<1>3. PendingYield(s) \in Int
  BY <1>2, QuotientType, ConstantFacts DEF PendingYield
<1> QED
  BY <1>1, <1>3 DEF YieldSettled

LEMMA PoolShareType ==
    ASSUME TypeOK, NEW a \in Nat
    PROVE  PoolShare(a) \in Int
<1>1. stakePool \in Int /\ stakeTotal \in Int
  BY DEF TypeOK
<1>2. a * stakePool \in Int
  BY <1>1, ProductType
<1> QED
  BY <1>1, <1>2, QuotientType DEF PoolShare

LEMMA TypeOKInit == Init => TypeOK
  BY DEF Init, TypeOK, ClaimRecords, SlashRecords, StakeRecords, ClaimStatuses,
         SlashStatuses, Ballots

LEMMA TypeOKStep ==
    ASSUME TypeOK, [Next]_vars
    PROVE  TypeOK'
<1> USE DEF TypeOK
<1>1. CASE GovernanceStep
  BY <1>1 DEF GovernanceStep, AddGovernor, RemoveGovernor, SetQuorum, claimVars,
              slashVars, statVars, stakeVars, yieldVars
<1>2. ASSUME NEW a \in Amounts, Contribute(a)
      PROVE  TypeOK'
  BY <1>2, ConstantFacts DEF Contribute, governanceVars, claimVars, slashVars,
              stakeVars, yieldVars
<1>3. ASSUME NEW a \in Amounts, AddPlatformFees(a)
      PROVE  TypeOK'
  <2>1. acc' \in Nat
    <3>1. CASE stakeTotal > 0
      <4>1. a \in Nat /\ YieldPrecision \in Nat /\ stakeTotal \in Nat \ {0}
        BY <3>1, ConstantFacts
      <4> DEFINE product == a * YieldPrecision
                 quotient == product \div stakeTotal
      <4>2. product \in Nat
        BY <4>1, ProductType
      <4>3. acc' = acc + quotient
        BY <1>3, <3>1 DEF AddPlatformFees
      <4> HIDE DEF product
      <4>4. quotient \in Nat
        <5>1. product \in Int /\ product >= 0 /\ stakeTotal \in Nat \ {0}
          BY <4>1, <4>2
        <5> QED
          BY <5>1, QuotientType
      <4> QED
        BY <4>3, <4>4
    <3>2. CASE ~(stakeTotal > 0)
      BY <1>3, <3>2 DEF AddPlatformFees
    <3> QED
      BY <3>1, <3>2
  <2>2. balance' \in Nat /\ fees' \in Nat
    BY <1>3, ConstantFacts DEF AddPlatformFees
  <2> QED
    BY <1>3, <2>1, <2>2 DEF AddPlatformFees, governanceVars, claimVars, slashVars,
              statVars, stakeVars
<1>4. ASSUME NEW c \in Claims, ClaimStep(c)
      PROVE  TypeOK'
  <2> USE DEF ClaimRecords, ClaimStatuses
  <2>1. claims[c] \in ClaimRecords
    OBVIOUS
  <2>2. ASSUME NEW a \in Amounts, SubmitClaim(c, a)
        PROVE  TypeOK'
    <3>1. claims' \in [Claims -> ClaimRecords]
      BY <2>2, <2>1, ConstantFacts DEF SubmitClaim
    <3> QED
      BY <2>2, <3>1 DEF SubmitClaim, governanceVars, slashVars, statVars, stakeVars, yieldVars
  <2>3. CASE WithdrawClaim(c)
    <3>1. claims' \in [Claims -> ClaimRecords]
      BY <2>3, <2>1 DEF WithdrawClaim
    <3> QED
      BY <2>3, <3>1 DEF WithdrawClaim, governanceVars, slashVars, statVars, stakeVars, yieldVars
  <2>4. CASE ClaimExpires(c)
    <3>1. claims' \in [Claims -> ClaimRecords]
      BY <2>4, <2>1 DEF ClaimExpires
    <3> QED
      BY <2>4, <3>1 DEF ClaimExpires, governanceVars, slashVars, statVars, stakeVars, yieldVars
  <2>5. CASE ExecutePayout(c)
    <3>1. claims' \in [Claims -> ClaimRecords]
      BY <2>5, <2>1 DEF ExecutePayout
    <3>2. balance' \in Nat /\ paidOut' \in Nat
      BY <2>5, <2>1 DEF ExecutePayout
    <3> QED
      BY <2>5, <3>1, <3>2 DEF ExecutePayout, governanceVars, slashVars, stakeVars, yieldVars
  <2>6. ASSUME NEW g \in Governors, NEW b \in {"for", "against"}, Vote(g, c, b)
        PROVE  TypeOK'
    <3> DEFINE nFor == claims[c].votesFor + (IF b = "for" THEN 1 ELSE 0)
               nAgainst == claims[c].votesAgainst + (IF b = "against" THEN 1 ELSE 0)
    <3>1. claims' = [claims EXCEPT ![c] =
            [@ EXCEPT !.votesFor = nFor, !.votesAgainst = nAgainst,
                      !.status = ClaimVerdict(nFor, nAgainst)]]
      BY <2>6 DEF Vote
    <3>2. nFor \in Nat /\ nAgainst \in Nat /\ ClaimVerdict(nFor, nAgainst) \in ClaimStatuses
      BY <2>1 DEF ClaimVerdict
    <3> HIDE DEF nFor, nAgainst
    <3>3. claims' \in [Claims -> ClaimRecords]
      BY <3>1, <3>2, <2>1
    <3>4. votes' \in [Claims -> [Governors -> Ballots]]
      BY <2>6 DEF Vote, Ballots
    <3> HIDE DEF ClaimRecords
    <3> QED
      BY <2>6, <3>3, <3>4 DEF Vote, governanceVars, slashVars, statVars, stakeVars, yieldVars
  <2> QED
    BY <1>4, <2>2, <2>3, <2>4, <2>5, <2>6 DEF ClaimStep
<1>5. ASSUME NEW s \in Stakers, StakeStep(s)
      PROVE  TypeOK'
  <2>1. /\ PendingYield(s) \in Int /\ YieldSettled(s) \in Int
        /\ YieldSettled(s) <= balance /\ stakes[s] \in StakeRecords
    BY YieldType
  <2>2. ASSUME NEW a \in Amounts, Stake(s, a)
        PROVE  TypeOK'
    <3>1. stakes' \in [Stakers -> StakeRecords]
      BY <2>2, <2>1, ConstantFacts DEF Stake, StakeRecords
    <3>2. balance' \in Nat
      BY <2>2, <2>1, ConstantFacts DEF Stake
    <3>3. stakeTotal' \in Int /\ stakePool' \in Int /\ yieldPaid' \in Int
      BY <2>2, <2>1, ConstantFacts DEF Stake
    <3> QED
      BY <2>2, <3>1, <3>2, <3>3 DEF Stake, governanceVars, claimVars, slashVars, statVars
  <2>3. ASSUME NEW a \in 1 .. stakes[s].amount, Unstake(s, a)
        PROVE  TypeOK'
    <3>1. a \in Nat /\ PoolShare(a) \in Int /\ stakes[s].amount - a \in Nat
      BY <2>1, PoolShareType DEF StakeRecords
    <3>2. stakes' \in [Stakers -> StakeRecords]
      BY <2>3, <2>1, <3>1 DEF Unstake, StakeRecords
    <3>3. balance' \in Nat
      BY <2>3, <2>1, <3>1 DEF Unstake
    <3>4. stakeTotal' \in Int /\ stakePool' \in Int /\ yieldPaid' \in Int
      BY <2>3, <2>1, <3>1 DEF Unstake
    <3> QED
      BY <2>3, <3>2, <3>3, <3>4 DEF Unstake, governanceVars, claimVars, slashVars, statVars
  <2>4. CASE ClaimYield(s)
    <3>1. stakes' \in [Stakers -> StakeRecords]
      BY <2>4, <2>1 DEF ClaimYield, StakeRecords
    <3>2. balance' \in Nat /\ yieldPaid' \in Int
      BY <2>4, <2>1 DEF ClaimYield
    <3> QED
      BY <2>4, <3>1, <3>2 DEF ClaimYield, governanceVars, claimVars, slashVars, statVars
  <2> QED
    BY <1>5, <2>2, <2>3, <2>4 DEF StakeStep
<1>6. ASSUME NEW p \in Proposals, SlashStep(p)
      PROVE  TypeOK'
  <2> USE DEF SlashRecords, SlashStatuses
  <2>1. proposals[p] \in SlashRecords
    OBVIOUS
  <2>2. ASSUME NEW g \in Governors, NEW bps \in SlashBps, ProposeSlash(g, p, bps)
        PROVE  TypeOK'
    <3>1. proposals' \in [Proposals -> SlashRecords]
      BY <2>2, <2>1, ConstantFacts DEF ProposeSlash
    <3> QED
      BY <2>2, <3>1 DEF ProposeSlash, governanceVars, claimVars, statVars, stakeVars, yieldVars
  <2>3. ASSUME NEW g \in Governors, NEW b \in {"for", "against"}, VoteSlash(g, p, b)
        PROVE  TypeOK'
    <3> DEFINE nFor == proposals[p].votesFor + (IF b = "for" THEN 1 ELSE 0)
               nAgainst == proposals[p].votesAgainst + (IF b = "against" THEN 1 ELSE 0)
               verdict == IF nFor + nAgainst < quorum THEN "Pending"
                          ELSE IF nFor >= quorum THEN "Approved" ELSE "Rejected"
    <3>1. proposals' = [proposals EXCEPT ![p] =
            [@ EXCEPT !.votesFor = nFor, !.votesAgainst = nAgainst, !.status = verdict]]
      BY <2>3 DEF VoteSlash
    <3>2. nFor \in Nat /\ nAgainst \in Nat /\ verdict \in SlashStatuses
      BY <2>1
    <3> HIDE DEF nFor, nAgainst, verdict
    <3>3. proposals' \in [Proposals -> SlashRecords]
      BY <3>1, <3>2, <2>1
    <3>4. slashVotes' \in [Proposals -> [Governors -> Ballots]]
      BY <2>3 DEF VoteSlash, Ballots
    <3> HIDE DEF SlashRecords
    <3> QED
      BY <2>3, <3>3, <3>4 DEF VoteSlash, governanceVars, claimVars, statVars, stakeVars, yieldVars
  <2>4. CASE ExecuteSlash(p)
    <3> DEFINE slashAmount == (stakePool * proposals[p].bps) \div 10000
               actualSlash == IF slashAmount < balance THEN slashAmount ELSE balance
    <3>1. slashAmount \in Int
      <4>1. stakePool * proposals[p].bps \in Int
        BY <2>1, ProductType
      <4> QED
        BY <4>1, QuotientType
    <3>2. actualSlash \in Int /\ actualSlash <= balance
      BY <3>1
    <3>3. balance' = balance - actualSlash /\ stakePool' = stakePool - actualSlash
      BY <2>4 DEF ExecuteSlash
    <3>4. balance' \in Nat /\ stakePool' \in Int
      BY <3>2, <3>3
    <3>5. proposals' \in [Proposals -> SlashRecords]
      BY <2>4, <2>1 DEF ExecuteSlash
    <3> HIDE DEF slashAmount, actualSlash
    <3> QED
      BY <2>4, <3>4, <3>5 DEF ExecuteSlash, governanceVars, claimVars, statVars, yieldVars
  <2> QED
    BY <1>6, <2>2, <2>3, <2>4 DEF SlashStep
<1>7. CASE UNCHANGED vars
  BY <1>7 DEF vars, governanceVars, claimVars, slashVars, statVars, stakeVars, yieldVars
<1> QED
  BY <1>1, <1>2, <1>3, <1>4, <1>5, <1>6, <1>7 DEF Next

\* Every record keeps its type and the contract never spends tokens it does
\* not have, for any number of governors, stakers and claims.
THEOREM TypeCorrect == Spec => []TypeOK
<1>1. TypeOK /\ [Next]_vars => TypeOK'
  BY TypeOKStep
<1> QED
  BY <1>1, TypeOKInit, PTL DEF Spec

----------------------------------------------------------------------------
(* Votes *)

\* A governor who has not voted joins the voters of his ballot and no others.
LEMMA VotersAfterBallot ==
    ASSUME NEW v \in [Governors -> Ballots], NEW g \in Governors, v[g] = "none",
           NEW b \in {"for", "against"}, NEW d \in {"for", "against"},
           NEW w, w = [v EXCEPT ![g] = b]
    PROVE  /\ Cardinality(Voters(v, d)) \in Nat
           /\ Cardinality(Voters(w, d)) =
                Cardinality(Voters(v, d)) + (IF d = b THEN 1 ELSE 0)
<1>1. Voters(v, d) \subseteq Governors /\ g \notin Voters(v, d)
  BY DEF Voters
<1>2. IsFiniteSet(Voters(v, d)) /\ Cardinality(Voters(v, d)) \in Nat
  BY <1>1, ConstantFacts, FS_Subset, FS_CardinalityType
<1>3. CASE d = b
  <2>1. Voters(w, d) = Voters(v, d) \cup {g}
    BY <1>3 DEF Voters
  <2>2. Cardinality(Voters(v, d) \cup {g}) = Cardinality(Voters(v, d)) + 1
    BY <1>1, <1>2, FS_AddElement
  <2> QED
    BY <1>2, <1>3, <2>1, <2>2
<1>4. CASE d # b
  <2>1. Voters(w, d) = Voters(v, d)
    BY <1>4 DEF Voters
  <2> QED
    BY <1>2, <1>4, <2>1
<1> QED
  BY <1>3, <1>4

\* Nobody has voted.
LEMMA NoVoters ==
    ASSUME NEW d \in {"for", "against"}
    PROVE  Cardinality(Voters([g \in Governors |-> "none"], d)) = 0
<1>1. Voters([g \in Governors |-> "none"], d) = {}
  BY DEF Voters
<1> QED
  BY <1>1, FS_EmptySet

LEMMA TalliesInit == Init => TalliesCountVoters
  BY NoVoters DEF Init, TalliesCountVoters

\* The conjuncts of TalliesCountVoters: the tally of one record.
Counts(record, v) ==
    /\ record.votesFor = Cardinality(Voters(v, "for"))
    /\ record.votesAgainst = Cardinality(Voters(v, "against"))

LEMMA TalliesAreCounts ==
    TalliesCountVoters <=> /\ \A c \in Claims : Counts(claims[c], votes[c])
                           /\ \A p \in Proposals : Counts(proposals[p], slashVotes[p])
  BY DEF TalliesCountVoters, Counts

\* A step on one claim leaves the tallies of all other records alone.
LEMMA TalliesStep ==
    ASSUME TypeOK, TalliesCountVoters, [Next]_vars
    PROVE  TalliesCountVoters'
<1> USE TalliesAreCounts
<1>1. /\ \A c \in Claims : /\ Counts(claims[c], votes[c])
                           /\ votes[c] \in [Governors -> Ballots]
                           /\ claims[c] \in ClaimRecords
      /\ \A p \in Proposals : /\ Counts(proposals[p], slashVotes[p])
                              /\ slashVotes[p] \in [Governors -> Ballots]
                              /\ proposals[p] \in SlashRecords
      /\ claims \in [Claims -> ClaimRecords] /\ proposals \in [Proposals -> SlashRecords]
      /\ votes \in [Claims -> [Governors -> Ballots]]
      /\ slashVotes \in [Proposals -> [Governors -> Ballots]]
  BY DEF TypeOK
<1>2. SUFFICES /\ \A c \in Claims : Counts(claims'[c], votes'[c])
               /\ \A p \in Proposals : Counts(proposals'[p], slashVotes'[p])
  BY DEF TalliesCountVoters, Counts
<1>3. CASE UNCHANGED <<claimVars, slashVars>>
  BY <1>1, <1>3 DEF claimVars, slashVars
<1>4. ASSUME NEW c \in Claims, NEW g \in Governors, NEW b \in {"for", "against"},
             Vote(g, c, b)
      PROVE  /\ \A d \in Claims : Counts(claims'[d], votes'[d])
             /\ \A p \in Proposals : Counts(proposals'[p], slashVotes'[p])
  <2>1. /\ votes[c][g] = "none"
        /\ votes'[c] = [votes[c] EXCEPT ![g] = b]
        /\ claims'[c].votesFor = claims[c].votesFor + (IF b = "for" THEN 1 ELSE 0)
        /\ claims'[c].votesAgainst = claims[c].votesAgainst + (IF b = "against" THEN 1 ELSE 0)
        /\ \A d \in Claims \ {c} : votes'[d] = votes[d] /\ claims'[d] = claims[d]
        /\ UNCHANGED slashVars
    BY <1>1, <1>4 DEF Vote, ClaimRecords
  <2>2. ASSUME NEW d \in {"for", "against"}
        PROVE  Cardinality(Voters(votes'[c], d)) =
                 Cardinality(Voters(votes[c], d)) + (IF d = b THEN 1 ELSE 0)
    <3>1. votes[c] \in [Governors -> Ballots]
      BY <1>1
    <3> QED
      BY <2>1, <3>1, VotersAfterBallot
  <2>3. Counts(claims'[c], votes'[c])
    BY <1>1, <2>1, <2>2 DEF Counts
  <2> QED
    BY <1>1, <2>1, <2>3 DEF slashVars
<1>5. ASSUME NEW p \in Proposals, NEW g \in Governors, NEW b \in {"for", "against"},
             VoteSlash(g, p, b)
      PROVE  /\ \A c \in Claims : Counts(claims'[c], votes'[c])
             /\ \A q \in Proposals : Counts(proposals'[q], slashVotes'[q])
  <2>1. /\ slashVotes[p][g] = "none"
        /\ slashVotes'[p] = [slashVotes[p] EXCEPT ![g] = b]
        /\ proposals'[p].votesFor = proposals[p].votesFor + (IF b = "for" THEN 1 ELSE 0)
        /\ proposals'[p].votesAgainst =
              proposals[p].votesAgainst + (IF b = "against" THEN 1 ELSE 0)
        /\ \A q \in Proposals \ {p} :
              slashVotes'[q] = slashVotes[q] /\ proposals'[q] = proposals[q]
        /\ UNCHANGED claimVars
    BY <1>1, <1>5 DEF VoteSlash, SlashRecords
  <2>2. ASSUME NEW d \in {"for", "against"}
        PROVE  Cardinality(Voters(slashVotes'[p], d)) =
                 Cardinality(Voters(slashVotes[p], d)) + (IF d = b THEN 1 ELSE 0)
    <3>1. slashVotes[p] \in [Governors -> Ballots]
      BY <1>1
    <3> QED
      BY <2>1, <3>1, VotersAfterBallot
  <2>3. Counts(proposals'[p], slashVotes'[p])
    BY <1>1, <2>1, <2>2 DEF Counts
  <2> QED
    BY <1>1, <2>1, <2>3 DEF claimVars
<1>6. ASSUME NEW c \in Claims,
             \/ \E a \in Amounts : SubmitClaim(c, a)
             \/ WithdrawClaim(c) \/ ClaimExpires(c) \/ ExecutePayout(c)
      PROVE  /\ \A d \in Claims : Counts(claims'[d], votes'[d])
             /\ \A p \in Proposals : Counts(proposals'[p], slashVotes'[p])
  <2>1. /\ \A d \in Claims : /\ claims'[d].votesFor = claims[d].votesFor
                             /\ claims'[d].votesAgainst = claims[d].votesAgainst
        /\ UNCHANGED <<votes, slashVars>>
    <3>1. ASSUME NEW a \in Amounts, SubmitClaim(c, a)
          PROVE  /\ \A d \in Claims : /\ claims'[d].votesFor = claims[d].votesFor
                                     /\ claims'[d].votesAgainst = claims[d].votesAgainst
                 /\ UNCHANGED <<votes, slashVars>>
      BY <1>1, <3>1 DEF SubmitClaim, ClaimRecords
    <3>2. CASE WithdrawClaim(c)
      BY <1>1, <3>2 DEF WithdrawClaim, ClaimRecords
    <3>3. CASE ClaimExpires(c)
      BY <1>1, <3>3 DEF ClaimExpires, ClaimRecords
    <3>4. CASE ExecutePayout(c)
      BY <1>1, <3>4 DEF ExecutePayout, ClaimRecords
    <3> QED
      BY <1>6, <3>1, <3>2, <3>3, <3>4
  <2> QED
    BY <1>1, <2>1 DEF Counts, slashVars
<1>7. ASSUME NEW p \in Proposals,
             \/ \E g \in Governors, bps \in SlashBps : ProposeSlash(g, p, bps)
             \/ ExecuteSlash(p)
      PROVE  /\ \A c \in Claims : Counts(claims'[c], votes'[c])
             /\ \A q \in Proposals : Counts(proposals'[q], slashVotes'[q])
  <2>1. /\ \A q \in Proposals : /\ proposals'[q].votesFor = proposals[q].votesFor
                                /\ proposals'[q].votesAgainst = proposals[q].votesAgainst
        /\ UNCHANGED <<slashVotes, claimVars>>
    BY <1>1, <1>7 DEF ProposeSlash, ExecuteSlash, SlashRecords
  <2> QED
    BY <1>1, <2>1 DEF Counts, claimVars
<1>8. CASE GovernanceStep
  BY <1>3, <1>8 DEF GovernanceStep, AddGovernor, RemoveGovernor, SetQuorum
<1>9. ASSUME NEW a \in Amounts, Contribute(a) \/ AddPlatformFees(a)
      PROVE  UNCHANGED <<claimVars, slashVars>>
  BY <1>9 DEF Contribute, AddPlatformFees
<1>10. ASSUME NEW s \in Stakers, StakeStep(s)
       PROVE  UNCHANGED <<claimVars, slashVars>>
  BY <1>10 DEF StakeStep, Stake, Unstake, ClaimYield
<1>11. CASE UNCHANGED vars
  BY <1>3, <1>11 DEF vars
<1> QED
  BY <1>3, <1>4, <1>5, <1>6, <1>7, <1>8, <1>9, <1>10, <1>11
     DEF Next, ClaimStep, SlashStep

\* Every address is counted once in every claim and slash, removed and
\* registered again or not.
THEOREM VotesCounted == Spec => []TalliesCountVoters
<1>1. TypeOK /\ TalliesCountVoters /\ [Next]_vars => TalliesCountVoters'
  BY TalliesStep
<1> QED
  BY <1>1, TypeCorrect, TalliesInit, PTL DEF Spec

\* Only a ballot that leaves a quorum and a majority of distinct addresses for
\* the claim approves it.
THEOREM ApprovalSound == Spec => ApprovalNeedsQuorum
<1>1. ASSUME TypeOK, TalliesCountVoters, TalliesCountVoters', [Next]_vars,
             NEW c \in Claims,
             claims[c].status # "Approved", claims'[c].status = "Approved"
      PROVE  /\ Cardinality(Voters(votes'[c], "for")) >= quorum
             /\ Cardinality(Voters(votes'[c], "for"))
                  > Cardinality(Voters(votes'[c], "against"))
  <2>1. /\ claims \in [Claims -> ClaimRecords]
        /\ claims'[c].votesFor = Cardinality(Voters(votes'[c], "for"))
        /\ claims'[c].votesAgainst = Cardinality(Voters(votes'[c], "against"))
    BY <1>1 DEF TypeOK, TalliesCountVoters
  <2>2. PICK d \in Claims : ClaimStep(d)
    <3>1. claims' # claims
      BY <1>1
    <3>2. ~GovernanceStep
      BY <3>1 DEF GovernanceStep, AddGovernor, RemoveGovernor, SetQuorum, claimVars
    <3>3. \A a \in Amounts : ~Contribute(a) /\ ~AddPlatformFees(a)
      BY <3>1 DEF Contribute, AddPlatformFees, claimVars
    <3>4. \A s \in Stakers : ~StakeStep(s)
      BY <3>1 DEF StakeStep, Stake, Unstake, ClaimYield, claimVars
    <3>5. \A p \in Proposals : ~SlashStep(p)
      BY <3>1 DEF SlashStep, ProposeSlash, VoteSlash, ExecuteSlash, claimVars
    <3>6. Next
      BY <1>1, <3>1 DEF vars, claimVars
    <3> QED
      BY <3>2, <3>3, <3>4, <3>5, <3>6 DEF Next
  <2>3. PICK g \in Governors, b \in {"for", "against"} : Vote(g, c, b)
    <3>1. ASSUME NEW a \in Amounts, SubmitClaim(d, a)
          PROVE  FALSE
      BY <1>1, <2>1, <3>1 DEF SubmitClaim
    <3>2. ~WithdrawClaim(d) /\ ~ClaimExpires(d) /\ ~ExecutePayout(d)
      BY <1>1, <2>1 DEF WithdrawClaim, ClaimExpires, ExecutePayout, ClaimRecords
    <3>3. PICK g \in Governors, b \in {"for", "against"} : Vote(g, d, b)
      BY <2>2, <3>1, <3>2 DEF ClaimStep
    <3>4. d = c
      BY <1>1, <2>1, <3>3 DEF Vote
    <3> QED
      BY <3>3, <3>4
  <2>4. claims'[c].status = ClaimVerdict(claims'[c].votesFor, claims'[c].votesAgainst)
    BY <2>1, <2>3 DEF Vote, ClaimRecords
  <2> QED
    BY <1>1, <2>1, <2>4 DEF ClaimVerdict
<1>2. TypeOK /\ TalliesCountVoters /\ TalliesCountVoters' /\ [Next]_vars =>
        [\A c \in Claims :
           (claims[c].status # "Approved" /\ claims'[c].status = "Approved") =>
             /\ Cardinality(Voters(votes'[c], "for")) >= quorum
             /\ Cardinality(Voters(votes'[c], "for"))
                  > Cardinality(Voters(votes'[c], "against"))]_vars
  BY <1>1
<1> QED
  BY <1>2, TypeCorrect, VotesCounted, PTL DEF Spec, ApprovalNeedsQuorum

----------------------------------------------------------------------------
(* Payouts *)

\* The claims that are Paid, and what they come to.
PaidClaims == {c \in Claims : claims[c].status = "Paid"}
ClaimAmounts == [c \in Claims |-> claims[c].amount]

\* The inductive invariant adds that only finitely many claims are Paid, so that
\* Claims itself may be all of Nat.
PaidInv == IsFiniteSet(PaidClaims) /\ paidOut = Sum(ClaimAmounts, PaidClaims)

LEMMA PaidInvInit == Init => PaidInv
<1> SUFFICES ASSUME Init
             PROVE  PaidInv
  OBVIOUS
<1>1. PaidClaims = {}
  BY DEF Init, PaidClaims
<1> QED
  BY <1>1, SumEmpty, FS_EmptySet DEF Init, PaidInv

\* A step that pays nothing leaves the Paid claims and their amounts alone.
LEMMA PaidKept ==
    ASSUME TypeOK, PaidInv, paidOut' = paidOut,
           \A c \in Claims : (claims'[c].status = "Paid") <=> (claims[c].status = "Paid"),
           \A c \in PaidClaims : claims'[c].amount = claims[c].amount
    PROVE  PaidInv'
<1>1. PaidClaims' = PaidClaims /\ IsFiniteSet(PaidClaims)
  BY DEF PaidClaims, PaidInv
<1>2. \A c \in PaidClaims : /\ ClaimAmounts[c] \in Int
                            /\ ClaimAmounts[c] = ClaimAmounts'[c]
  BY DEF PaidClaims, ClaimAmounts, TypeOK, ClaimRecords
<1>3. Sum(ClaimAmounts, PaidClaims) = Sum(ClaimAmounts', PaidClaims)
  BY <1>1, <1>2, SumSame
<1> QED
  BY <1>1, <1>3 DEF PaidInv

\* A payout adds its claim, which was not Paid before.
LEMMA PaidAdded ==
    ASSUME TypeOK, PaidInv, NEW c \in Claims, ExecutePayout(c)
    PROVE  PaidInv'
<1>1. /\ c \notin PaidClaims /\ PaidClaims' = PaidClaims \cup {c}
      /\ \A d \in Claims : claims'[d].amount = claims[d].amount
      /\ paidOut' = paidOut + claims[c].amount
      /\ \A d \in Claims : claims[d].amount \in Nat
  BY DEF ExecutePayout, PaidClaims, TypeOK, ClaimRecords
<1>2. IsFiniteSet(PaidClaims) /\ IsFiniteSet(PaidClaims')
  BY <1>1, FS_AddElement DEF PaidInv
<1>3. PaidClaims \subseteq Claims /\ PaidClaims' \subseteq Claims
  BY <1>1 DEF PaidClaims
<1>4. \A d \in Claims : ClaimAmounts'[d] = ClaimAmounts[d] /\ ClaimAmounts[d] \in Int
  BY <1>1 DEF ClaimAmounts
<1>5. Sum(ClaimAmounts', PaidClaims') =
        ClaimAmounts'[c] + Sum(ClaimAmounts', PaidClaims' \ {c})
  <2> DEFINE f == ClaimAmounts'
             S == PaidClaims'
  <2>1. IsFiniteSet(S) /\ c \in S /\ \A d \in S : f[d] \in Int
    BY <1>1, <1>2, <1>3, <1>4
  <2> HIDE DEF f, S
  <2>2. Sum(f, S) = f[c] + Sum(f, S \ {c})
    BY <2>1, SumElement
  <2> QED
    BY <2>2 DEF f, S
<1>6. PaidClaims' \ {c} = PaidClaims
  BY <1>1
<1>7. Sum(ClaimAmounts', PaidClaims) = Sum(ClaimAmounts, PaidClaims)
  <2>1. \A d \in PaidClaims : ClaimAmounts[d] \in Int /\ ClaimAmounts[d] = ClaimAmounts'[d]
    BY <1>3, <1>4
  <2>2. Sum(ClaimAmounts, PaidClaims) = Sum(ClaimAmounts', PaidClaims)
    BY <2>1, <1>2, SumSame
  <2> QED
    BY <2>2
<1>8. ClaimAmounts'[c] = claims[c].amount /\ claims[c].amount \in Nat /\ paidOut \in Nat
  BY <1>1 DEF ClaimAmounts, TypeOK
<1>9. Sum(ClaimAmounts, PaidClaims) = paidOut
  BY DEF PaidInv
<1>10. Sum(ClaimAmounts', PaidClaims') = claims[c].amount + paidOut
  BY <1>5, <1>6, <1>7, <1>8, <1>9
<1>11. paidOut' = Sum(ClaimAmounts', PaidClaims')
  <2>1. paidOut' = paidOut + claims[c].amount
    BY <1>1
  <2> QED
    BY <1>8, <1>10, <2>1
<1> QED
  BY <1>2, <1>11 DEF PaidInv

LEMMA PaidInvStep ==
    ASSUME TypeOK, PaidInv, [Next]_vars
    PROVE  PaidInv'
<1>1. CASE UNCHANGED <<claims, paidOut>>
  BY <1>1, PaidKept DEF PaidClaims
<1>2. ASSUME NEW c \in Claims, ClaimStep(c)
      PROVE  PaidInv'
  <2>1. claims \in [Claims -> ClaimRecords]
    BY DEF TypeOK
  <2>2. CASE ExecutePayout(c)
    BY <2>2, PaidAdded
  <2>3. ASSUME \/ \E a \in Amounts : SubmitClaim(c, a)
               \/ WithdrawClaim(c) \/ ClaimExpires(c)
        PROVE  PaidInv'
    <3>1. /\ \A d \in Claims : claims'[d].status = "Paid" <=> claims[d].status = "Paid"
          /\ \A d \in PaidClaims : claims'[d].amount = claims[d].amount
          /\ paidOut' = paidOut
      BY <2>1, <2>3 DEF SubmitClaim, WithdrawClaim, ClaimExpires, statVars, ClaimRecords,
                PaidClaims
    <3> QED
      BY <3>1, PaidKept
  <2>4. ASSUME NEW g \in Governors, NEW b \in {"for", "against"}, Vote(g, c, b)
        PROVE  PaidInv'
    <3> DEFINE nFor == claims[c].votesFor + (IF b = "for" THEN 1 ELSE 0)
               nAgainst == claims[c].votesAgainst + (IF b = "against" THEN 1 ELSE 0)
    <3>1. /\ claims' = [claims EXCEPT ![c] =
               [@ EXCEPT !.votesFor = nFor, !.votesAgainst = nAgainst,
                         !.status = ClaimVerdict(nFor, nAgainst)]]
          /\ claims[c].status = "Pending" /\ paidOut' = paidOut
      BY <2>4 DEF Vote, statVars
    <3>2. ClaimVerdict(nFor, nAgainst) # "Paid"
      BY DEF ClaimVerdict
    <3> HIDE DEF nFor, nAgainst
    <3>3. /\ \A d \in Claims : claims'[d].status = "Paid" <=> claims[d].status = "Paid"
          /\ \A d \in PaidClaims : claims'[d].amount = claims[d].amount
      BY <2>1, <3>1, <3>2 DEF ClaimRecords, PaidClaims
    <3> QED
      BY <3>1, <3>3, PaidKept
  <2> QED
    BY <1>2, <2>2, <2>3, <2>4 DEF ClaimStep
<1>3. CASE GovernanceStep
  BY <1>1, <1>3 DEF GovernanceStep, AddGovernor, RemoveGovernor, SetQuorum, claimVars, statVars
<1>4. ASSUME NEW a \in Amounts, Contribute(a) \/ AddPlatformFees(a)
      PROVE  UNCHANGED <<claims, paidOut>>
  BY <1>4 DEF Contribute, AddPlatformFees, claimVars, statVars
<1>5. ASSUME NEW s \in Stakers, StakeStep(s)
      PROVE  UNCHANGED <<claims, paidOut>>
  BY <1>5 DEF StakeStep, Stake, Unstake, ClaimYield, claimVars, statVars
<1>6. ASSUME NEW p \in Proposals, SlashStep(p)
      PROVE  UNCHANGED <<claims, paidOut>>
  BY <1>6 DEF SlashStep, ProposeSlash, VoteSlash, ExecuteSlash, claimVars, statVars
<1>7. CASE UNCHANGED vars
  BY <1>1, <1>7 DEF vars, claimVars, statVars
<1> QED
  BY <1>1, <1>2, <1>3, <1>4, <1>5, <1>6, <1>7 DEF Next

\* No claim is paid twice, and none without the statistics showing it: the
\* payouts are the amounts of the Paid claims, whatever is submitted, voted on,
\* withdrawn or expires between them.
THEOREM PayoutsMatchClaims == Spec => []PaidOnce
<1>1. TypeOK /\ PaidInv /\ [Next]_vars => PaidInv'
  BY PaidInvStep
<1>2. PaidInv => PaidOnce
  BY DEF PaidInv, PaidOnce, PaidClaims, ClaimAmounts, Sum
<1> QED
  BY <1>1, <1>2, PaidInvInit, TypeCorrect, PTL DEF Spec

----------------------------------------------------------------------------
(* Stakes, the pool and the yield *)

\* What each staker put in, and what has accrued to him since his debt was set,
\* in units of 1 / YieldPrecision: PendingYield rounds it down.
StakeAmounts == [s \in Stakers |-> stakes[s].amount]
AccruedTo    == [s \in Stakers |-> stakes[s].amount * (acc - stakes[s].debt)]

\* What the balance holds beyond the pool and the contributions not paid out.
Reserve == balance + paidOut - stakePool - contributed

\* The inductive invariant.  StakersCovered speaks of yields rounded down, and a
\* fee may raise the sum of those by more than the fee: the fractions left over
\* from earlier fees come in with it.  The sum that is not rounded cannot, and
\* the reserve covers that one, however much has been paid out.
StakesAdded    == stakeTotal = Sum(StakeAmounts, Stakers)
PoolBounded    == 0 <= stakePool /\ stakePool <= stakeTotal
SlashesPartial == \A p \in Proposals : proposals[p].bps <= 10000
DebtsPast      == \A s \in Stakers : stakes[s].debt <= acc
AccruedBacked  == Sum(AccruedTo, Stakers) <= YieldPrecision * Reserve

FundInv == StakesAdded /\ PoolBounded /\ SlashesPartial /\ DebtsPast /\ AccruedBacked

\* Division rounds down.
LEMMA QuotientBounds ==
    ASSUME NEW x \in Int, NEW d \in Nat \ {0}
    PROVE  d * (x \div d) <= x /\ x < d * (x \div d) + d
  OBVIOUS

\* So it lies between any two integers the exact quotient lies between.
LEMMA QuotientBetween ==
    ASSUME NEW x \in Int, NEW d \in Nat \ {0}, NEW m \in Int, NEW n \in Int,
           d * m <= x, x <= d * n
    PROVE  m <= x \div d /\ x \div d <= n
<1> DEFINE q == x \div d
<1>1. q \in Int
  BY QuotientType
<1>2. d * q <= x /\ x < d * q + d
  BY QuotientBounds
<1> HIDE DEF q
<1>3. ASSUME NEW i \in Int, NEW j \in Int, d * i < d * j + d
      PROVE  i <= j
  BY <1>3, Z3
<1>4. m <= q
  BY <1>1, <1>2, <1>3
<1>5. q <= n
  BY <1>1, <1>2, <1>3
<1> QED
  BY <1>4, <1>5 DEF q

\* What TypeOK says of the stakes and of what is computed from them.
StakesTyped ==
    /\ \A s \in Stakers : /\ stakes[s].amount \in Nat /\ stakes[s].debt \in Nat
                          /\ StakeAmounts[s] = stakes[s].amount
                          /\ AccruedTo[s] \in Int
    /\ Reserve \in Int /\ acc \in Nat /\ balance \in Nat /\ paidOut \in Nat
    /\ contributed \in Nat /\ stakePool \in Int /\ stakeTotal \in Int

LEMMA StakeTypes == TypeOK => StakesTyped
<1> SUFFICES ASSUME TypeOK
             PROVE  StakesTyped
  OBVIOUS
<1>1. \A s \in Stakers : stakes[s].amount \in Nat /\ stakes[s].debt \in Nat
  BY DEF TypeOK, StakeRecords
<1>2. \A s \in Stakers : StakeAmounts[s] = stakes[s].amount
  BY DEF StakeAmounts
<1>3. \A s \in Stakers : acc - stakes[s].debt \in Int
  BY <1>1 DEF TypeOK
<1>4. \A s \in Stakers : AccruedTo[s] \in Int
  BY <1>1, <1>3, ProductType DEF AccruedTo
<1>5. Reserve \in Int
  BY DEF Reserve, TypeOK
<1> QED
  BY <1>1, <1>2, <1>4, <1>5 DEF StakesTyped, TypeOK

LEMMA StakeTypesNext == TypeOK' => StakesTyped'
  BY StakeTypes, PTL

LEMMA AccruedType == TypeOK => Sum(AccruedTo, Stakers) \in Int
  BY StakeTypes, SumType, StakersFinite DEF StakesTyped

\* A stake is part of the total.
LEMMA StakeWithinTotal ==
    ASSUME TypeOK, StakesAdded, NEW s \in Stakers
    PROVE  stakes[s].amount <= stakeTotal
<1>1. \A r \in Stakers : StakeAmounts[r] \in Nat
  BY StakeTypes DEF StakesTyped
<1>2. StakeAmounts[s] <= Sum(StakeAmounts, Stakers)
  BY <1>1, StakersFinite, SumOfMember
<1> QED
  BY <1>2, StakeTypes DEF StakesTyped, StakesAdded

\* The share of the pool a stake is worth is part of the pool, and what remains
\* is within the stakes that remain.
LEMMA PoolShareBounds ==
    ASSUME TypeOK, StakesAdded, PoolBounded, NEW s \in Stakers,
           NEW a \in 1 .. stakes[s].amount
    PROVE  /\ PoolShare(a) \in Int /\ 0 <= PoolShare(a) /\ PoolShare(a) <= stakePool
           /\ stakePool - PoolShare(a) <= stakeTotal - a
<1>1. /\ a \in Nat /\ a >= 1 /\ a <= stakeTotal /\ stakePool \in Nat
      /\ stakeTotal \in Nat \ {0} /\ stakePool <= stakeTotal
  BY StakeTypes, StakeWithinTotal DEF StakesTyped, PoolBounded
<1> DEFINE x == a * stakePool
           m == stakePool + a - stakeTotal
<1>2. PoolShare(a) = x \div stakeTotal
  BY <1>1 DEF PoolShare
<1>3. x \in Int
  BY <1>1, ProductType
<1>4. stakeTotal * 0 <= x
  BY <1>1
<1>5. x <= stakeTotal * stakePool
  <2>1. ASSUME NEW i \in Nat, NEW j \in Nat, NEW k \in Nat, i <= j
        PROVE  i * k <= j * k
    BY <2>1, Z3
  <2> QED
    BY <1>1, <2>1
<1>6. stakeTotal * m <= x
  <2>1. ASSUME NEW i \in Nat, NEW j \in Nat, NEW k \in Nat, i <= k, j <= k
        PROVE  k * (j + i - k) <= i * j
    <3>1. (k - i) * (k - j) >= 0
      BY <2>1, Z3
    <3> QED
      BY <3>1, Z3
  <2> QED
    BY <1>1, <2>1
<1>7. m \in Int
  BY <1>1
<1> HIDE DEF x
<1>8. 0 <= x \div stakeTotal /\ x \div stakeTotal <= stakePool
  BY <1>1, <1>3, <1>4, <1>5, QuotientBetween
<1>9. m <= x \div stakeTotal
  <2> HIDE DEF m
  <2> QED
    BY <1>1, <1>3, <1>5, <1>6, <1>7, QuotientBetween
<1>10. PoolShare(a) \in Int
  BY <1>2, <1>1, <1>3, QuotientType
<1> QED
  BY <1>1, <1>2, <1>8, <1>9, <1>10

\* A call that changes the stake of s alone moves the sum of the stakes with it.
LEMMA StakeChanged ==
    ASSUME TypeOK, TypeOK', StakesAdded, NEW s \in Stakers,
           \A r \in Stakers : r # s => stakes'[r] = stakes[r],
           stakeTotal' = stakeTotal - stakes[s].amount + stakes'[s].amount
    PROVE  StakesAdded'
<1> DEFINE f == StakeAmounts
           g == StakeAmounts'
<1>1. \A r \in Stakers : /\ f[r] = stakes[r].amount /\ g[r] = stakes'[r].amount
                         /\ f[r] \in Int /\ g[r] \in Int
  BY StakeTypes, StakeTypesNext DEF StakesTyped
<1>2. \A r \in Stakers : r # s => g[r] = f[r]
  BY <1>1
<1>3. Sum(f, Stakers) = stakeTotal
  BY DEF StakesAdded
<1> HIDE DEF f, g
<1>4. Sum(g, Stakers) = Sum(f, Stakers) - f[s] + g[s]
  BY <1>1, <1>2, StakersFinite, SumChange
<1>5. stakeTotal' = Sum(g, Stakers)
  BY <1>1, <1>3, <1>4
<1> QED
  BY <1>5 DEF StakesAdded, g

\* A call that settles the yield of s, paying no more than has accrued to him,
\* leaves the other accruals alone and keeps the reserve sufficient.
LEMMA YieldIsSettled ==
    ASSUME TypeOK, TypeOK', AccruedBacked, NEW s \in Stakers, NEW paid \in Int,
           YieldPrecision * paid <= AccruedTo[s],
           \A r \in Stakers : r # s => stakes'[r] = stakes[r],
           stakes'[s].amount = 0 \/ stakes'[s].debt = acc,
           acc' = acc, Reserve' = Reserve - paid
    PROVE  AccruedBacked'
<1> DEFINE f == AccruedTo
           g == AccruedTo'
<1>1. \A r \in Stakers : f[r] \in Int /\ g[r] \in Int
  BY StakeTypes, StakeTypesNext DEF StakesTyped
<1>2. \A r \in Stakers : r # s => g[r] = f[r]
  BY DEF AccruedTo
<1>3. g[s] = 0
  <2>1. g[s] = stakes'[s].amount * (acc - stakes'[s].debt)
    BY DEF AccruedTo
  <2>2. stakes'[s].amount \in Nat /\ stakes'[s].debt \in Nat /\ acc \in Nat
    BY StakeTypes, StakeTypesNext DEF StakesTyped
  <2> QED
    BY <2>1, <2>2
<1>4. /\ Sum(f, Stakers) \in Int
      /\ Sum(f, Stakers) <= YieldPrecision * Reserve
  BY AccruedType DEF AccruedBacked
<1>5. f[s] >= YieldPrecision * paid
  BY <1>1, ConstantFacts, ProductType
<1> HIDE DEF f, g
<1>6. Sum(g, Stakers) = Sum(f, Stakers) - f[s] + g[s]
  BY <1>1, <1>2, StakersFinite, SumChange
<1>7. YieldPrecision * Reserve' = YieldPrecision * Reserve - YieldPrecision * paid
  <2>1. Reserve \in Int /\ YieldPrecision \in Int
    BY StakeTypes, ConstantFacts DEF StakesTyped
  <2>2. ASSUME NEW i \in Int, NEW j \in Int
        PROVE  YieldPrecision * (i - j) = YieldPrecision * i - YieldPrecision * j
    BY <2>1, Z3
  <2> QED
    BY <2>1, <2>2
<1>8. YieldPrecision * Reserve \in Int /\ YieldPrecision * paid \in Int
  BY StakeTypes, ConstantFacts, ProductType DEF StakesTyped
<1>9. Sum(g, Stakers) <= YieldPrecision * Reserve'
  BY <1>1, <1>3, <1>4, <1>5, <1>6, <1>7, <1>8
<1> QED
  BY <1>9 DEF AccruedBacked, g

\* A call that touches neither stakes nor accumulator.
LEMMA StakesKept ==
    ASSUME FundInv, UNCHANGED <<stakes, stakeTotal, acc>>, Reserve' = Reserve,
           PoolBounded', SlashesPartial'
    PROVE  FundInv'
  BY DEF FundInv, StakesAdded, DebtsPast, AccruedBacked, StakeAmounts, AccruedTo

\* What is pending or settled is at most what has accrued, and nothing is owed.
LEMMA SettledWithinAccrued ==
    ASSUME TypeOK, DebtsPast, NEW s \in Stakers
    PROVE  /\ YieldPrecision * PendingYield(s) <= AccruedTo[s]
           /\ YieldPrecision * YieldSettled(s) <= AccruedTo[s]
           /\ PendingYield(s) \in Nat
<1>1. /\ stakes[s].amount \in Nat /\ acc - stakes[s].debt \in Nat
      /\ AccruedTo[s] = stakes[s].amount * (acc - stakes[s].debt)
  BY StakeTypes DEF StakesTyped, DebtsPast, AccruedTo
<1>2. AccruedTo[s] \in Nat
  BY <1>1, ProductType
<1>3. PendingYield(s) = AccruedTo[s] \div YieldPrecision
  BY <1>1 DEF PendingYield
<1>4. YieldPrecision * PendingYield(s) <= AccruedTo[s] /\ PendingYield(s) \in Nat
  <2> DEFINE x == AccruedTo[s]
  <2>1. x \in Int /\ x >= 0
    BY <1>2
  <2> HIDE DEF x
  <2>2. YieldPrecision * (x \div YieldPrecision) <= x /\ x \div YieldPrecision \in Nat
    BY <2>1, QuotientBounds, QuotientType, ConstantFacts
  <2> QED
    BY <2>2, <1>3 DEF x
<1>5. YieldPrecision * 0 <= AccruedTo[s]
  BY <1>2, ConstantFacts
<1> QED
  BY <1>4, <1>5 DEF YieldSettled

LEMMA FundInvInit == Init => FundInv
<1> SUFFICES ASSUME Init
             PROVE  FundInv
  OBVIOUS
<1>1. \A s \in Stakers : StakeAmounts[s] = 0 /\ AccruedTo[s] = 0
  BY DEF Init, StakeAmounts, AccruedTo
<1>2. Sum(StakeAmounts, Stakers) = 0 /\ Sum(AccruedTo, Stakers) = 0
  <2>1. Sum(StakeAmounts, Stakers) = 0 * Cardinality(Stakers)
    BY <1>1, StakersFinite, SumConstant
  <2>2. Sum(AccruedTo, Stakers) = 0 * Cardinality(Stakers)
    BY <1>1, StakersFinite, SumConstant
  <2> QED
    BY <2>1, <2>2, StakersFinite, FS_CardinalityType
<1>3. Reserve = 0 /\ YieldPrecision * 0 = 0
  BY ConstantFacts DEF Init, Reserve
<1>4. StakesAdded /\ AccruedBacked
  BY <1>2, <1>3 DEF Init, StakesAdded, AccruedBacked
<1> QED
  BY <1>4 DEF Init, FundInv, PoolBounded, SlashesPartial, DebtsPast

\* Stakes, the pool and yield, one call at a time.
LEMMA FundInvStake ==
    ASSUME TypeOK, TypeOK', FundInv, NEW s \in Stakers, NEW a \in Amounts, Stake(s, a)
    PROVE  FundInv'
<1>1. /\ a \in Nat /\ stakes \in [Stakers -> StakeRecords]
      /\ stakeTotal \in Int /\ stakePool \in Int /\ acc \in Nat /\ stakes[s].amount \in Nat
  BY ConstantFacts, StakeTypes DEF StakesTyped, TypeOK
<1>2. /\ \A r \in Stakers : r # s => stakes'[r] = stakes[r]
      /\ stakes'[s].amount = stakes[s].amount + a /\ stakes'[s].debt = acc /\ acc' = acc
      /\ stakeTotal' = stakeTotal + a /\ stakePool' = stakePool + a
      /\ balance' = balance - YieldSettled(s) + a
      /\ UNCHANGED <<paidOut, contributed, proposals>>
  BY <1>1 DEF Stake, statVars, slashVars
<1>3. StakesAdded'
  <2>1. stakeTotal' = stakeTotal - stakes[s].amount + stakes'[s].amount
    BY <1>1, <1>2
  <2> QED
    BY <1>2, <2>1, StakeChanged DEF FundInv
<1>4. AccruedBacked'
  <2>1. Reserve' = Reserve - YieldSettled(s) /\ YieldSettled(s) \in Int
    BY <1>1, <1>2, StakeTypes, YieldType DEF StakesTyped, Reserve
  <2> QED
    BY <1>2, <2>1, SettledWithinAccrued, YieldIsSettled DEF FundInv
<1>5. DebtsPast'
  BY <1>1, <1>2 DEF FundInv, DebtsPast
<1>6. PoolBounded' /\ SlashesPartial'
  BY <1>1, <1>2 DEF FundInv, PoolBounded, SlashesPartial
<1> QED
  BY <1>3, <1>4, <1>5, <1>6 DEF FundInv

LEMMA FundInvUnstake ==
    ASSUME TypeOK, TypeOK', FundInv, NEW s \in Stakers, NEW a \in 1 .. stakes[s].amount,
           Unstake(s, a)
    PROVE  FundInv'
<1>1. /\ a \in Nat /\ stakes \in [Stakers -> StakeRecords]
      /\ stakeTotal \in Int /\ stakePool \in Int /\ acc \in Nat /\ stakes[s].amount \in Nat
  BY StakeTypes DEF StakesTyped, TypeOK
<1>2. /\ \A r \in Stakers : r # s => stakes'[r] = stakes[r]
      /\ stakes'[s].amount = stakes[s].amount - a
      /\ stakes'[s].amount = 0 \/ stakes'[s].debt = acc
      /\ stakes'[s].debt \in {0, acc} /\ acc' = acc
      /\ stakeTotal' = stakeTotal - a /\ stakePool' = stakePool - PoolShare(a)
      /\ balance' = balance - YieldSettled(s) - PoolShare(a)
      /\ UNCHANGED <<paidOut, contributed, proposals>>
  BY <1>1 DEF Unstake, statVars, slashVars
<1>3. /\ PoolShare(a) \in Int /\ 0 <= PoolShare(a) /\ PoolShare(a) <= stakePool
      /\ stakePool - PoolShare(a) <= stakeTotal - a
  BY PoolShareBounds DEF FundInv
<1>4. StakesAdded'
  <2>1. stakeTotal' = stakeTotal - stakes[s].amount + stakes'[s].amount
    BY <1>1, <1>2
  <2> QED
    BY <1>2, <2>1, StakeChanged DEF FundInv
<1>5. AccruedBacked'
  <2>1. Reserve' = Reserve - YieldSettled(s) /\ YieldSettled(s) \in Int
    BY <1>1, <1>2, <1>3, StakeTypes, YieldType DEF StakesTyped, Reserve
  <2> QED
    BY <1>2, <2>1, SettledWithinAccrued, YieldIsSettled DEF FundInv
<1>6. DebtsPast'
  BY <1>1, <1>2 DEF FundInv, DebtsPast
<1>7. PoolBounded'
  BY <1>1, <1>2, <1>3 DEF PoolBounded
<1>8. SlashesPartial'
  BY <1>2 DEF FundInv, SlashesPartial
<1> QED
  BY <1>4, <1>5, <1>6, <1>7, <1>8 DEF FundInv

LEMMA FundInvClaimYield ==
    ASSUME TypeOK, TypeOK', FundInv, NEW s \in Stakers, ClaimYield(s)
    PROVE  FundInv'
<1>1. /\ stakes \in [Stakers -> StakeRecords]
      /\ stakeTotal \in Int /\ stakePool \in Int /\ acc \in Nat /\ stakes[s].amount \in Nat
  BY StakeTypes DEF StakesTyped, TypeOK
<1>2. /\ \A r \in Stakers : r # s => stakes'[r] = stakes[r]
      /\ stakes'[s].amount = stakes[s].amount /\ stakes'[s].debt = acc /\ acc' = acc
      /\ balance' = balance - PendingYield(s)
      /\ UNCHANGED <<paidOut, contributed, proposals, stakeTotal, stakePool>>
  BY <1>1 DEF ClaimYield, statVars, slashVars, StakeRecords
<1>3. StakesAdded'
  <2>1. stakeTotal' = stakeTotal - stakes[s].amount + stakes'[s].amount
    BY <1>1, <1>2
  <2> QED
    BY <1>2, <2>1, StakeChanged DEF FundInv
<1>4. AccruedBacked'
  <2>1. Reserve' = Reserve - PendingYield(s) /\ PendingYield(s) \in Int
    BY <1>1, <1>2, StakeTypes, YieldType DEF StakesTyped, Reserve
  <2> QED
    BY <1>2, <2>1, SettledWithinAccrued, YieldIsSettled DEF FundInv
<1>5. DebtsPast'
  BY <1>1, <1>2 DEF FundInv, DebtsPast
<1>6. PoolBounded' /\ SlashesPartial'
  BY <1>2 DEF FundInv, PoolBounded, SlashesPartial
<1> QED
  BY <1>3, <1>4, <1>5, <1>6 DEF FundInv

\* A fee gives every staker the same per unit of stake, and all of them together
\* no more than the fee.
LEMMA FundInvFees ==
    ASSUME TypeOK, TypeOK', FundInv, NEW a \in Amounts, AddPlatformFees(a)
    PROVE  FundInv'
<1> DEFINE delta == acc' - acc
           f == AccruedTo
           g == AccruedTo'
           h == [s \in Stakers |-> delta * StakeAmounts[s]]
           total == Sum(StakeAmounts, Stakers)
<1>1. /\ a \in Nat /\ YieldPrecision \in Nat \ {0} /\ stakeTotal \in Nat
      /\ stakeTotal = total
  BY ConstantFacts, StakeTypes DEF StakesTyped, FundInv, PoolBounded, StakesAdded
<1>2. /\ UNCHANGED <<stakes, stakeTotal, stakePool, paidOut, contributed, proposals>>
      /\ balance' = balance + a
  BY DEF AddPlatformFees, statVars, stakeVars, slashVars
<1>3. delta \in Nat /\ delta * stakeTotal <= YieldPrecision * a
  <2>1. acc \in Nat
    BY StakeTypes DEF StakesTyped
  <2>2. CASE stakeTotal > 0
    <3> DEFINE x == a * YieldPrecision
    <3>1. x \in Nat
      BY <1>1, ProductType
    <3>2. acc' = acc + x \div stakeTotal
      BY <2>2 DEF AddPlatformFees
    <3>3. x = YieldPrecision * a
      BY <1>1
    <3> HIDE DEF x
    <3>4. x \div stakeTotal \in Nat /\ stakeTotal * (x \div stakeTotal) <= x
      BY <3>1, <1>1, <2>2, QuotientType, QuotientBounds
    <3>5. delta = x \div stakeTotal
      BY <2>1, <3>2, <3>4
    <3>6. delta * stakeTotal = stakeTotal * delta
      BY <1>1, <3>4, <3>5
    <3> QED
      BY <3>3, <3>4, <3>5, <3>6
  <2>3. CASE ~(stakeTotal > 0)
    <3>1. stakeTotal = 0 /\ acc' = acc
      BY <1>1, <2>3 DEF AddPlatformFees
    <3>2. delta = 0 /\ YieldPrecision * a \in Nat
      BY <1>1, <2>1, <3>1, ProductType
    <3> QED
      BY <3>1, <3>2
  <2> QED
    BY <2>2, <2>3
<1> HIDE DEF delta
<1>4. \A s \in Stakers : /\ StakeAmounts[s] \in Int /\ h[s] = delta * StakeAmounts[s]
                         /\ f[s] \in Int /\ h[s] \in Int /\ g[s] = f[s] + h[s]
  <2> SUFFICES ASSUME NEW s \in Stakers
               PROVE  /\ StakeAmounts[s] \in Int /\ h[s] = delta * StakeAmounts[s]
                      /\ f[s] \in Int /\ h[s] \in Int /\ g[s] = f[s] + h[s]
    OBVIOUS
  <2>1. /\ stakes[s].amount \in Nat /\ stakes[s].debt \in Nat /\ acc \in Nat
        /\ StakeAmounts[s] = stakes[s].amount /\ acc' \in Nat /\ f[s] \in Int
    BY StakeTypes, StakeTypesNext DEF StakesTyped
  <2>2. h[s] \in Int
    BY <1>3, <2>1, ProductType
  <2>3. /\ f[s] = stakes[s].amount * (acc - stakes[s].debt)
        /\ g[s] = stakes[s].amount * (acc' - stakes[s].debt)
        /\ h[s] = (acc' - acc) * stakes[s].amount
    BY <1>2, <2>1 DEF AccruedTo, delta
  <2>4. g[s] = f[s] + h[s]
    <3> HIDE DEF f, g, h
    <3> QED
      BY <2>1, <2>3, Z3
  <2> QED
    BY <2>1, <2>2, <2>4
<1>5. g = AccruedTo'
  OBVIOUS
<1> HIDE DEF f, g, h, total
<1>6. Sum(g, Stakers) = Sum(f, Stakers) + Sum(h, Stakers)
  BY <1>4, StakersFinite, SumAdds
<1>7. Sum(h, Stakers) = delta * total
  <2>1. delta \in Int
    BY <1>3
  <2> QED
    BY <1>4, <2>1, StakersFinite, SumScaled DEF total
<1>8. Sum(f, Stakers) \in Int /\ Sum(f, Stakers) <= YieldPrecision * Reserve
  BY AccruedType DEF FundInv, AccruedBacked, f
<1>9. Reserve' = Reserve + a /\ Reserve \in Int
  BY <1>1, <1>2, StakeTypes DEF StakesTyped, Reserve
<1>10. YieldPrecision * Reserve' = YieldPrecision * Reserve + YieldPrecision * a
  <2>1. ASSUME NEW i \in Int, NEW j \in Int
        PROVE  YieldPrecision * (i + j) = YieldPrecision * i + YieldPrecision * j
    BY <1>1, Z3
  <2> QED
    BY <1>1, <1>9, <2>1
<1>11. /\ YieldPrecision * Reserve \in Int /\ YieldPrecision * a \in Int
       /\ delta * total \in Int /\ delta * total <= YieldPrecision * a
  BY <1>1, <1>3, <1>9, ProductType
<1>12. Sum(g, Stakers) <= YieldPrecision * Reserve'
  BY <1>6, <1>7, <1>8, <1>10, <1>11
<1>13. AccruedBacked'
  BY <1>5, <1>12 DEF AccruedBacked
<1>14. StakesAdded' /\ PoolBounded' /\ SlashesPartial'
  BY <1>2 DEF FundInv, StakesAdded, StakeAmounts, PoolBounded, SlashesPartial
<1>15. DebtsPast'
  <2>1. acc \in Nat /\ acc' \in Nat /\ acc <= acc'
    BY <1>3, StakeTypes, StakeTypesNext DEF StakesTyped, delta
  <2> QED
    BY <1>2, <2>1, StakeTypes DEF StakesTyped, FundInv, DebtsPast
<1> QED
  BY <1>13, <1>14, <1>15 DEF FundInv

\* A slash takes a part of the pool, and no more than there is.
LEMMA FundInvSlash ==
    ASSUME TypeOK, FundInv, NEW p \in Proposals, ExecuteSlash(p)
    PROVE  FundInv'
<1> DEFINE x == stakePool * proposals[p].bps
           slashAmount == x \div 10000
           actualSlash == IF slashAmount < balance THEN slashAmount ELSE balance
<1>1. /\ stakePool \in Nat /\ stakePool <= stakeTotal /\ stakeTotal \in Int
      /\ proposals[p].bps \in Nat /\ proposals[p].bps <= 10000 /\ balance \in Nat
  BY StakeTypes DEF StakesTyped, FundInv, PoolBounded, SlashesPartial, TypeOK, SlashRecords
<1>2. /\ balance' = balance - actualSlash /\ stakePool' = stakePool - actualSlash
      /\ UNCHANGED <<stakes, stakeTotal, acc, paidOut, contributed>>
  BY DEF ExecuteSlash, statVars, yieldVars
<1>3. slashAmount \in Int /\ 0 <= slashAmount /\ slashAmount <= stakePool
  <2>1. x \in Int /\ 10000 * 0 <= x
    BY <1>1, ProductType
  <2>2. x <= 10000 * stakePool
    <3>1. ASSUME NEW i \in Nat, NEW j \in Nat, j <= 10000
          PROVE  i * j <= 10000 * i
      BY <3>1, Z3
    <3> QED
      BY <1>1, <3>1
  <2> HIDE DEF x
  <2> QED
    BY <1>1, <2>1, <2>2, QuotientBetween, QuotientType
<1> HIDE DEF slashAmount
<1>4. actualSlash \in Int /\ 0 <= actualSlash /\ actualSlash <= stakePool
  BY <1>1, <1>3
<1> HIDE DEF actualSlash
<1>5. PoolBounded'
  BY <1>1, <1>2, <1>4 DEF PoolBounded
<1>6. Reserve' = Reserve
  BY <1>1, <1>2, <1>4, StakeTypes DEF StakesTyped, Reserve
<1>7. SlashesPartial'
  <2>1. \A q \in Proposals : proposals'[q].bps = proposals[q].bps
    BY DEF ExecuteSlash, TypeOK, SlashRecords
  <2> QED
    BY <2>1 DEF FundInv, SlashesPartial
<1> QED
  BY <1>2, <1>5, <1>6, <1>7, StakesKept

LEMMA FundInvStep ==
    ASSUME TypeOK, FundInv, [Next]_vars
    PROVE  FundInv'
<1> TypeOK'
  BY TypeOKStep
<1>1. CASE UNCHANGED <<balance, statVars, stakeVars, acc, proposals>>
  <2>1. /\ UNCHANGED <<stakes, stakeTotal, acc>> /\ Reserve' = Reserve
        /\ PoolBounded' /\ SlashesPartial'
    BY <1>1 DEF statVars, stakeVars, Reserve, PoolBounded, SlashesPartial, FundInv
  <2> QED
    BY <2>1, StakesKept
<1>2. ASSUME NEW a \in Amounts, Contribute(a)
      PROVE  FundInv'
  <2>1. /\ UNCHANGED <<stakes, stakeTotal, acc, stakePool, paidOut, proposals>>
        /\ balance' = balance + a /\ contributed' = contributed + a /\ a \in Nat
    BY <1>2, ConstantFacts DEF Contribute, slashVars, stakeVars, yieldVars
  <2>2. Reserve' = Reserve
    BY <2>1, StakeTypes DEF StakesTyped, Reserve
  <2> QED
    BY <2>1, <2>2, StakesKept DEF PoolBounded, SlashesPartial, FundInv
<1>3. ASSUME NEW c \in Claims, ClaimStep(c)
      PROVE  FundInv'
  <2>1. CASE ExecutePayout(c)
    <3>1. /\ UNCHANGED <<stakes, stakeTotal, acc, stakePool, contributed, proposals>>
          /\ balance' = balance - claims[c].amount /\ paidOut' = paidOut + claims[c].amount
          /\ claims[c].amount \in Nat
      BY <2>1 DEF ExecutePayout, slashVars, stakeVars, yieldVars, TypeOK, ClaimRecords
    <3>2. Reserve' = Reserve
      BY <3>1, StakeTypes DEF StakesTyped, Reserve
    <3> QED
      BY <3>1, <3>2, StakesKept DEF PoolBounded, SlashesPartial, FundInv
  <2>2. CASE ~ExecutePayout(c)
    <3>1. UNCHANGED <<balance, statVars, stakeVars, acc, proposals>>
      BY <1>3, <2>2 DEF ClaimStep, SubmitClaim, WithdrawClaim, ClaimExpires, Vote, yieldVars,
                slashVars
    <3> QED
      BY <1>1, <3>1
  <2> QED
    BY <2>1, <2>2
<1>4. ASSUME NEW s \in Stakers, StakeStep(s)
      PROVE  FundInv'
  BY <1>4, FundInvStake, FundInvUnstake, FundInvClaimYield DEF StakeStep
<1>5. ASSUME NEW p \in Proposals, SlashStep(p)
      PROVE  FundInv'
  <2>1. CASE ExecuteSlash(p)
    BY <2>1, FundInvSlash
  <2>2. ASSUME ~ExecuteSlash(p)
        PROVE  FundInv'
    <3>1. /\ UNCHANGED <<balance, statVars, stakeVars, yieldVars>>
          /\ \A q \in Proposals : proposals'[q].bps <= 10000
      <4>1. /\ proposals \in [Proposals -> SlashRecords]
            /\ \A q \in Proposals : proposals[q].bps <= 10000
        BY DEF TypeOK, FundInv, SlashesPartial
      <4>2. ASSUME NEW g \in Governors, NEW bps \in SlashBps, ProposeSlash(g, p, bps)
            PROVE  /\ UNCHANGED <<balance, statVars, stakeVars, yieldVars>>
                   /\ \A q \in Proposals : proposals'[q].bps <= 10000
        <5>1. bps <= 10000
          BY FundAssumption
        <5> QED
          BY <4>1, <4>2, <5>1 DEF ProposeSlash, SlashRecords
      <4>3. ASSUME NEW g \in Governors, NEW b \in {"for", "against"}, VoteSlash(g, p, b)
            PROVE  /\ UNCHANGED <<balance, statVars, stakeVars, yieldVars>>
                   /\ \A q \in Proposals : proposals'[q].bps <= 10000
        BY <4>1, <4>3 DEF VoteSlash, SlashRecords
      <4> QED
        BY <1>5, <2>2, <4>2, <4>3 DEF SlashStep
    <3>2. SlashesPartial'
      BY <3>1 DEF SlashesPartial
    <3>3. /\ UNCHANGED <<stakes, stakeTotal, acc>> /\ Reserve' = Reserve /\ PoolBounded'
      BY <3>1 DEF statVars, stakeVars, yieldVars, Reserve, PoolBounded, FundInv
    <3> QED
      BY <3>2, <3>3, StakesKept
  <2> QED
    BY <2>1, <2>2
<1>6. CASE GovernanceStep
  BY <1>1, <1>6 DEF GovernanceStep, AddGovernor, RemoveGovernor, SetQuorum, slashVars, yieldVars
<1>7. ASSUME NEW a \in Amounts, AddPlatformFees(a)
      PROVE  FundInv'
  BY <1>7, FundInvFees
<1>8. CASE UNCHANGED vars
  BY <1>1, <1>8 DEF vars, slashVars, yieldVars
<1> QED
  BY <1>2, <1>3, <1>4, <1>5, <1>6, <1>7, <1>8 DEF Next

\* Whatever is staked, withdrawn, slashed, paid or added as fees, the yield that
\* accrues without rounding is backed by the reserve, and every staker's debt
\* lies in the past (stake to claim_yield, execute_slash).
THEOREM FundSound == Spec => []FundInv
<1>1. TypeOK /\ FundInv /\ [Next]_vars => FundInv'
  BY FundInvStep
<1> QED
  BY <1>1, FundInvInit, TypeCorrect, PTL DEF Spec

\* The nominal stakes are the total, and slashes and rounding leave the pool
\* between nothing and that total, for any number of stakers and any amounts.
THEOREM PoolIsWithinStakes == Spec => []PoolWithinStakes
<1>1. FundInv => PoolWithinStakes
  BY DEF FundInv, StakesAdded, PoolBounded, PoolWithinStakes, StakeAmounts, Sum
<1> QED
  BY <1>1, FundSound, PTL

\* As long as claims were paid out of contributions, the balance covers the pool
\* and every staker's yield.
THEOREM StakersAreCovered == Spec => []StakersCovered
<1>1. ASSUME TypeOK, FundInv, paidOut <= contributed
      PROVE  stakePool + Sum([s \in Stakers |-> PendingYield(s)], Stakers) <= balance
  <2> DEFINE y == [s \in Stakers |-> PendingYield(s)]
             z == [s \in Stakers |-> YieldPrecision * y[s]]
             yield == Sum(y, Stakers)
  <2>1. \A s \in Stakers : /\ y[s] \in Int /\ z[s] = YieldPrecision * y[s]
                           /\ z[s] \in Int /\ AccruedTo[s] \in Int /\ z[s] <= AccruedTo[s]
    <3> SUFFICES ASSUME NEW s \in Stakers
                 PROVE  /\ PendingYield(s) \in Int
                        /\ YieldPrecision * PendingYield(s) \in Int
                        /\ AccruedTo[s] \in Int
                        /\ YieldPrecision * PendingYield(s) <= AccruedTo[s]
      OBVIOUS
    <3>1. PendingYield(s) \in Int /\ YieldPrecision * PendingYield(s) <= AccruedTo[s]
      BY <1>1, SettledWithinAccrued DEF FundInv
    <3>2. YieldPrecision * PendingYield(s) \in Int
      BY <3>1, ConstantFacts, ProductType
    <3> QED
      BY <1>1, <3>1, <3>2, StakeTypes DEF StakesTyped
  <2> HIDE DEF y, z
  <2>2. Sum(z, Stakers) = YieldPrecision * yield
    BY <2>1, ConstantFacts, StakersFinite, SumScaled
  <2>3. Sum(z, Stakers) <= Sum(AccruedTo, Stakers)
    BY <2>1, StakersFinite, SumMonotonic
  <2>4. yield \in Int
    BY <2>1, StakersFinite, SumType
  <2> HIDE DEF yield
  <2>5. YieldPrecision * yield <= YieldPrecision * Reserve
    <3>1. /\ Sum(AccruedTo, Stakers) \in Int /\ YieldPrecision * yield \in Int
          /\ Sum(AccruedTo, Stakers) <= YieldPrecision * Reserve
          /\ YieldPrecision * Reserve \in Int
      BY <1>1, <2>4, AccruedType, StakeTypes, ConstantFacts, ProductType
         DEF StakesTyped, FundInv, AccruedBacked
    <3> QED
      BY <2>2, <2>3, <3>1
  <2>6. yield <= Reserve
    <3>1. ASSUME NEW d \in Nat \ {0}, NEW i \in Int, NEW j \in Int, d * i <= d * j
          PROVE  i <= j
      BY <3>1, Z3
    <3> QED
      BY <1>1, <2>4, <2>5, <3>1, StakeTypes, ConstantFacts DEF StakesTyped
  <2>7. stakePool + yield <= balance
    BY <1>1, <2>4, <2>6, StakeTypes DEF StakesTyped, Reserve
  <2> QED
    BY <2>7 DEF yield, y
<1>2. TypeOK /\ FundInv => StakersCovered
  BY <1>1 DEF StakersCovered, Sum
<1> QED
  BY <1>2, TypeCorrect, FundSound, PTL

=============================================================================
