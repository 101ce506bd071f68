------------------------ MODULE EscrowLifecycle_proofs ------------------------
(***************************************************************************)
(* Theorems about EscrowLifecycle, for every number of milestones, every    *)
(* choice of amounts, fee and slash percentage and every escrow option.     *)
(***************************************************************************)
EXTENDS EscrowLifecycle, SumTheorems

(* Facts about the small operators, so that later steps need not expand them. *)

LEMMA RequestUpdates ==
    \A r \in Requests :
        /\ [r EXCEPT !.counterpartyApproved = TRUE] \in Requests
        /\ [r EXCEPT !.disputed = TRUE] \in Requests
        /\ [r EXCEPT !.window = IF r.window = "before" THEN "at" ELSE "after"]
              \in Requests
        /\ r.requester \in Parties
  BY DEF Requests

LEMMA SlashUpdates ==
    \A s \in SlashRecords :
        /\ [s EXCEPT !.disputed = TRUE] \in SlashRecords
        /\ [s EXCEPT !.window = "closed"] \in SlashRecords
        /\ s.amount \in Int
  BY DEF SlashRecords

LEMMA NewRecords ==
    /\ \A p \in Parties :
          [kind |-> "request", requester |-> p, disputed |-> FALSE,
           counterpartyApproved |-> FALSE, window |-> "before"] \in Requests
    /\ \A p \in Parties, x \in Int :
          [kind |-> "slash", slashedUser |-> p, amount |-> x,
           disputed |-> FALSE, window |-> "open"] \in SlashRecords
  BY DEF Requests, SlashRecords

LEMMA SlashAmountType == \A b \in Int : SlashAmount(b) \in Int
<1> TAKE b \in Int
<1>1. SlashPercentage \in Int
  BY ConstantsAssumption
<1>2. b * SlashPercentage \in Int /\ (-b) * SlashPercentage \in Int
  BY <1>1
<1>3. (b * SlashPercentage) \div 100 \in Int /\ ((-b) * SlashPercentage) \div 100 \in Int
  BY <1>2
<1> QED
  BY <1>3 DEF SlashAmount

LEMMA PayableType ==
    \A x \in Int : Payable(x) \in Int /\ Payable(x) >= 0 /\ Payable(x) >= x
  BY DEF Payable

LEMMA SlashHeldType ==
    ASSUME slash \in SlashRecords \cup {None}
    PROVE  SlashHeld \in Int
  BY DEF SlashHeld, SlashRecords

LEMMA BatchArithmetic ==
    ASSUME TypeOK, NEW a \in Milestones, NEW b \in Milestones \cup {0}
    PROVE  BatchAmount(a, b) \in Int /\ BatchSize(b) \in {1, 2}
  BY DEF BatchAmount, BatchSize, TypeOK

LEMMA BatchIds ==
    \A a \in Milestones : {0} \cup a .. MaxMilestones \subseteq Milestones \cup {0}
  BY ConstantsAssumption DEF Milestones

----------------------------------------------------------------------------
(* Type correctness *)

LEMMA TypeOKStep ==
    ASSUME TypeOK, [Next]_vars
    PROVE  TypeOK'
<1> USE DEF TypeOK, msVars, counterVars, moneyVars, timerVars, disputeVars,
            cancelVars, otherVars, Milestones, MilestoneStatuses, OpenStatuses,
            TerminalStatuses, IrregularCalls
<1>1. ASSUME NEW m \in Milestones, SubmitMilestone(m)
      PROVE  TypeOK'
  BY <1>1 DEF SubmitMilestone
<1>2. ASSUME NEW m \in Milestones, ApproveMilestone(m)
      PROVE  TypeOK'
  BY <1>2 DEF ApproveMilestone
<1>3. ASSUME NEW m \in Milestones, RejectMilestone(m)
      PROVE  TypeOK'
  BY <1>3 DEF RejectMilestone
<1>4. ASSUME NEW m \in Milestones, NEW isAdmin \in BOOLEAN, ReleaseFunds(m, isAdmin)
      PROVE  TypeOK'
  BY <1>4 DEF ReleaseFunds, PayMilestone
<1>5. ASSUME NEW m \in Milestones, ProcessPendingRelease(m)
      PROVE  TypeOK'
  BY <1>5 DEF ProcessPendingRelease, PayMilestone
<1>6. ASSUME NEW m \in Milestones, TriggerOracleRelease(m)
      PROVE  TypeOK'
  BY <1>6 DEF TriggerOracleRelease, PayMilestone
<1>7. ASSUME NEW a \in AmountChoices, NEW hasPrice \in {FALSE, HasOracle}, AddMilestone(a, hasPrice)
      PROVE  TypeOK'
  BY <1>7, ConstantsAssumption DEF AddMilestone
<1>8. ASSUME StartTimelock
      PROVE  TypeOK'
  BY <1>8 DEF StartTimelock
<1>9. ASSUME ExtendLockTime
      PROVE  TypeOK'
  BY <1>9 DEF ExtendLockTime
<1>10. ASSUME ExtendDeadline
      PROVE  TypeOK'
  BY <1>10 DEF ExtendDeadline
<1>11. ASSUME NEW a \in Approvers, ApproveRelease(a)
      PROVE  TypeOK'
  <2>1. CASE SettleRemaining("Completed")
    <3>1. remaining' \in Int /\ held' \in Int
      BY <2>1, PayableType DEF SettleRemaining
    <3> QED
      BY <1>11, <2>1, <3>1 DEF ApproveRelease, SettleRemaining
  <2>2. CASE UNCHANGED <<status, held, remaining, msVars, counterVars,
                         timerVars, arbiter, startTime>>
    BY <1>11, <2>2 DEF ApproveRelease
  <2> QED
    BY <1>11, <2>1, <2>2 DEF ApproveRelease
<1>12. ASSUME NEW a \in Approvers, RevokeApproval(a)
      PROVE  TypeOK'
  BY <1>12 DEF RevokeApproval
<1>13. ASSUME CancelEscrow
      PROVE  TypeOK'
  <2>1. remaining' \in Int /\ held' \in Int
    BY <1>13, PayableType DEF CancelEscrow, SettleRemaining
  <2> QED
    BY <1>13, <2>1 DEF CancelEscrow, SettleRemaining
<1>14. ASSUME ExpireEscrow
      PROVE  TypeOK'
  <2>1. remaining' \in Int /\ held' \in Int
    BY <1>14, PayableType DEF ExpireEscrow, SettleRemaining
  <2> QED
    BY <1>14, <2>1 DEF ExpireEscrow, SettleRemaining
<1>15. ASSUME PartialCancel
      PROVE  TypeOK'
  BY <1>15 DEF PartialCancel
<1>16. ASSUME NEW m \in Milestones \cup {0}, RaiseDispute(m)
      PROVE  TypeOK'
  BY <1>16 DEF RaiseDispute, InStatus
<1>17. ASSUME AssignDisputeArbiter
      PROVE  TypeOK'
  BY <1>17 DEF AssignDisputeArbiter
<1>18. ASSUME ResolveDispute
      PROVE  TypeOK'
  <2>1. remaining' \in Int /\ held' \in Int
    BY <1>18, PayableType DEF ResolveDispute, SettleRemaining
  <2> QED
    BY <1>18, <2>1 DEF ResolveDispute, SettleRemaining
<1>19. ASSUME ClaimDisputeTimeout
      PROVE  TypeOK'
  <2>1. remaining' \in Int /\ held' \in Int
    BY <1>19, PayableType DEF ClaimDisputeTimeout, SettleRemaining
  <2> QED
    BY <1>19, <2>1 DEF ClaimDisputeTimeout, SettleRemaining
<1>20. ASSUME SubmitRuling
      PROVE  TypeOK'
  <2>1. remaining' \in Int /\ held' \in Int
    BY <1>20, PayableType DEF SubmitRuling, SettleRemaining
  <2> QED
    BY <1>20, <2>1 DEF SubmitRuling, SettleRemaining
<1>21. ASSUME OracleResolveDispute
      PROVE  TypeOK'
  <2>1. remaining' \in Int /\ held' \in Int
    BY <1>21, PayableType DEF OracleResolveDispute, SettleRemaining
  <2> QED
    BY <1>21, <2>1 DEF OracleResolveDispute, SettleRemaining
<1>22. ASSUME NEW p \in Parties, RequestCancellation(p)
      PROVE  TypeOK'
  BY <1>22, NewRecords DEF RequestCancellation
<1>23. ASSUME ApproveCancellation
      PROVE  TypeOK'
  <2>1. request' \in Requests
    BY <1>23, RequestUpdates DEF ApproveCancellation
  <2> QED
    BY <1>23, <2>1 DEF ApproveCancellation
<1>24. ASSUME ExecuteCancellation
      PROVE  TypeOK'
  <2>1. SlashAmount(remaining) \in Int
    BY SlashAmountType
  <2>2. held' \in Int
    BY <1>24, <2>1, PayableType DEF ExecuteCancellation
  <2>3. slash' \in SlashRecords
    BY <1>24, <2>1, NewRecords, RequestUpdates DEF ExecuteCancellation
  <2> QED
    BY <1>24, <2>2, <2>3 DEF ExecuteCancellation
<1>25. ASSUME DisputeCancellation
      PROVE  TypeOK'
  <2>1. request' \in Requests
    BY <1>25, RequestUpdates DEF DisputeCancellation
  <2> QED
    BY <1>25, <2>1 DEF DisputeCancellation
<1>26. ASSUME ConfirmCancellation
      PROVE  TypeOK'
  <2>1. remaining' \in Int /\ held' \in Int
    BY <1>26, PayableType DEF ConfirmCancellation, SettleRemaining
  <2> QED
    BY <1>26, <2>1 DEF ConfirmCancellation, SettleRemaining
<1>27. ASSUME RejectCancellation
      PROVE  TypeOK'
  BY <1>27 DEF RejectCancellation
<1>28. ASSUME FinalizeSlash
      PROVE  TypeOK'
  <2>0. slash.amount \in Int
    BY <1>28, SlashUpdates DEF FinalizeSlash
  <2>1. held' \in Int
    BY <1>28, <2>0 DEF FinalizeSlash
  <2> QED
    BY <1>28, <2>1 DEF FinalizeSlash
<1>29. ASSUME DisputeSlash
      PROVE  TypeOK'
  <2>1. slash' \in SlashRecords
    BY <1>29, SlashUpdates DEF DisputeSlash
  <2> QED
    BY <1>29, <2>1 DEF DisputeSlash
<1>30. ASSUME NEW upheld \in BOOLEAN, ResolveSlashDispute(upheld)
      PROVE  TypeOK'
  <2>0. slash.amount \in Int
    BY <1>30, SlashUpdates DEF ResolveSlashDispute
  <2>1. held' \in Int /\ stranded' \in Int
    BY <1>30, <2>0 DEF ResolveSlashDispute
  <2> QED
    BY <1>30, <2>1 DEF ResolveSlashDispute
<1>31. ASSUME CollectExpiredRent
      PROVE  TypeOK'
  <2>0. SlashHeld \in Int /\ Payable(remaining) \in Int
    BY SlashHeldType, PayableType
  <2>1. held' \in Int /\ stranded' \in Int
    BY <1>31, <2>0 DEF CollectExpiredRent
  <2>2. count' \in 0 .. MaxMilestones /\ allocated' \in 0 .. TotalAmount
    BY <1>31, ConstantsAssumption DEF CollectExpiredRent
  <2>3. ms' \in [Milestones -> MilestoneStatuses] /\ amount' \in [Milestones -> Nat]
    BY <1>31 DEF CollectExpiredRent
  <2>4. history' \subseteq IrregularCalls /\ approvals' \subseteq Approvers
        /\ rentExpired' \in BOOLEAN /\ arbiter' \in BOOLEAN
    BY <1>31 DEF CollectExpiredRent
  <2>5. releaseAt' \in [Milestones -> {"none", "waiting", "due"}]
    BY <1>31 DEF CollectExpiredRent
  <2> HIDE DEF IrregularCalls, MilestoneStatuses, Milestones
  <2> QED
    BY <1>31, <2>1, <2>2, <2>3, <2>4, <2>5 DEF CollectExpiredRent
<1>32. ASSUME PassageOfTime
      PROVE  TypeOK'
  <2>1. request' \in Requests \cup {None}
    <3>1. request' = request \/ RequestWindowPasses
      BY <1>32 DEF PassageOfTime, SlashWindowPasses, cancelVars
    <3>2. CASE RequestWindowPasses
      BY <3>2, RequestUpdates DEF RequestWindowPasses
    <3> QED
      BY <3>1, <3>2
  <2>2. slash' \in SlashRecords \cup {None}
    BY <1>32, SlashUpdates
       DEF PassageOfTime, RequestWindowPasses, SlashWindowPasses
  <2>3. /\ lock' \in {"open", "locked"} /\ deadline' \in {"none", "ahead", "passed"}
        /\ timelock' \in {"none", "running", "expired"}
        /\ releaseAt' \in [Milestones -> {"none", "waiting", "due"}]
    BY <1>32 DEF PassageOfTime, TimersPass
  <2>4. /\ startedLedger' \in {"unset", "running", "due"}
        /\ startTime' \in {"unset", "running", "due"}
    BY <1>32 DEF PassageOfTime, DisputeClocksPass
  <2>5. arbiter' \in BOOLEAN /\ rentExpired' \in BOOLEAN
    BY <1>32 DEF PassageOfTime, DisputeClocksPass
  <2> QED
    BY <1>32, <2>1, <2>2, <2>3, <2>4, <2>5 DEF PassageOfTime
<1>33. ASSUME NEW x \in AmountChoices, NEW y \in AmountChoices, BatchAddMilestones(x, y)
      PROVE  TypeOK'
  <2>1. x \in Nat /\ y \in Nat /\ MaxMilestones \in Nat /\ TotalAmount \in Nat
    BY ConstantsAssumption
  <2>2. count' \in 0 .. MaxMilestones /\ allocated' \in 0 .. TotalAmount
    BY <1>33, <2>1 DEF BatchAddMilestones
  <2>3. ms' \in [Milestones -> MilestoneStatuses] /\ amount' \in [Milestones -> Nat]
    BY <1>33, <2>1 DEF BatchAddMilestones
  <2>4. history' \subseteq IrregularCalls
    BY <1>33 DEF BatchAddMilestones
  <2> QED
    BY <1>33, <2>2, <2>3, <2>4, SMTT(20) DEF BatchAddMilestones
<1>34. ASSUME NEW a \in Milestones, NEW b \in Milestones \cup {0}, BatchApproveMilestones(a, b)
      PROVE  TypeOK'
  <2>1. BatchAmount(a, b) \in Int /\ BatchSize(b) \in {1, 2}
    BY BatchArithmetic
  <2>2. remaining' \in Int /\ held' \in Int
    BY <1>34, <2>1, SMTT(20) DEF BatchApproveMilestones
  <2>3. approvedCount' \in Nat /\ releasedCount' \in Nat
    <3>1. /\ approvedCount' = approvedCount + BatchSize(b)
          /\ releasedCount' \in {releasedCount + BatchSize(b), releasedCount}
      BY <1>34 DEF BatchApproveMilestones
    <3> HIDE DEF MilestoneStatuses, OpenStatuses, TerminalStatuses, IrregularCalls
    <3> QED
      BY <2>1, <3>1
  <2>6. submittedCount' \in Nat
    <3>1. submittedCount' = IF submittedCount > BatchSize(b)
                              THEN submittedCount - BatchSize(b) ELSE 0
      BY <1>34 DEF BatchApproveMilestones
    <3> HIDE DEF MilestoneStatuses, OpenStatuses, TerminalStatuses, IrregularCalls
    <3> QED
      BY <2>1, <3>1
  <2>4. history' \subseteq IrregularCalls
    BY <1>34 DEF BatchApproveMilestones, Repeated
  <2>5. ms' \in [Milestones -> MilestoneStatuses]
    BY <1>34 DEF BatchApproveMilestones, MoveBatch
  <2> QED
    BY <1>34, <2>2, <2>3, <2>4, <2>5, <2>6 DEF BatchApproveMilestones
<1>35. ASSUME NEW a \in Milestones, NEW b \in Milestones \cup {0}, BatchReleaseFunds(a, b)
      PROVE  TypeOK'
  <2>1. BatchAmount(a, b) \in Int /\ BatchSize(b) \in {1, 2}
    BY BatchArithmetic
  <2>2. remaining' \in Int /\ held' \in Int
    BY <1>35, <2>1 DEF BatchReleaseFunds
  <2>3. releasedCount' \in Nat
    BY <1>35, <2>1, SMTT(20) DEF BatchReleaseFunds
  <2>4. history' \subseteq IrregularCalls
    BY <1>35 DEF BatchReleaseFunds, Repeated
  <2>5. ms' \in [Milestones -> MilestoneStatuses]
    BY <1>35 DEF BatchReleaseFunds, MoveBatch
  <2> QED
    BY <1>35, <2>2, <2>3, <2>4, <2>5 DEF BatchReleaseFunds
<1>36. CASE BatchStep
  BY <1>33, <1>34, <1>35, <1>36, BatchIds DEF BatchStep
<1>37. CASE UNCHANGED vars
  BY <1>37 DEF vars
<1> QED
  BY <1>1, <1>2, <1>3, <1>4, <1>5, <1>6, <1>7, <1>8, <1>9, <1>10, <1>11,
     <1>12, <1>13, <1>14, <1>15, <1>16, <1>17, <1>18, <1>19, <1>20, <1>21,
     <1>22, <1>23, <1>24, <1>25, <1>26, <1>27, <1>28, <1>29, <1>30, <1>31,
     <1>32, <1>36, <1>37
     DEF Next, MilestoneStep, TermsStep, SettlementStep, DisputeStep,
         CancellationStep, SlashStep

\* Every reachable state is well typed: in particular allocated_amount stays
\* within total_amount and milestone_count within the cap.
THEOREM TypeCorrect == Spec => []TypeOK
<1>1. ASSUME Init PROVE TypeOK
  <2>1. MaxMilestones \in Nat /\ TotalAmount \in Nat /\ HasArbiter \in BOOLEAN
    BY ConstantsAssumption
  <2>2. /\ status \in OpenStatuses \cup TerminalStatuses
        /\ ms \in [Milestones -> MilestoneStatuses]
        /\ priced \subseteq Milestones
        /\ amount \in [Milestones -> Nat]
    BY <1>1 DEF Init, OpenStatuses, MilestoneStatuses
  <2>3. /\ count \in 0 .. MaxMilestones /\ allocated \in 0 .. TotalAmount
        /\ approvedCount \in Nat /\ releasedCount \in Nat /\ submittedCount \in Nat
        /\ remaining \in Int /\ held \in Int /\ stranded \in Int
    BY <1>1, <2>1 DEF Init
  <2>4. /\ lock \in {"open", "locked"}
        /\ deadline \in {"none", "ahead", "passed"}
        /\ timelock \in {"none", "running", "expired"}
        /\ releaseAt \in [Milestones -> {"none", "waiting", "due"}]
    BY <1>1 DEF Init
  <2>5. /\ approvals \subseteq Approvers /\ arbiter \in BOOLEAN
        /\ startedLedger \in {"unset", "running", "due"}
        /\ startTime \in {"unset", "running", "due"}
        /\ request \in Requests \cup {None} /\ slash \in SlashRecords \cup {None}
        /\ rentExpired \in BOOLEAN /\ history \subseteq IrregularCalls
    BY <1>1, <2>1 DEF Init
  <2> QED
    BY <2>2, <2>3, <2>4, <2>5 DEF TypeOK
<1>2. TypeOK /\ [Next]_vars => TypeOK'
  BY TypeOKStep
<1> QED
  BY <1>1, <1>2, PTL DEF Spec

----------------------------------------------------------------------------
(* Status, cancellation request and slash record *)

\* What the steps do to the three pieces of state that the cancellation path
\* spreads its decisions over.
LEMMA MilestoneStepStatus ==
    ASSUME NEW m \in Milestones, MilestoneStep(m)
    PROVE  /\ UNCHANGED <<request, slash, startedLedger, startTime>>
           /\ status' \in {status, "Completed"}
  BY DEF MilestoneStep, SubmitMilestone, ApproveMilestone, RejectMilestone,
         ReleaseFunds, ProcessPendingRelease, TriggerOracleRelease, PayMilestone,
         disputeVars, cancelVars

LEMMA TermsStepStatus ==
    ASSUME TermsStep
    PROVE  UNCHANGED <<status, request, slash, startedLedger, startTime>>
  BY DEF TermsStep, AddMilestone, StartTimelock, ExtendLockTime, ExtendDeadline,
         disputeVars, cancelVars

LEMMA BatchStepStatus ==
    ASSUME BatchStep
    PROVE  /\ UNCHANGED <<request, slash, startedLedger, startTime>>
           /\ status' \in {status, "Completed"}
  BY DEF BatchStep, BatchAddMilestones, BatchApproveMilestones, BatchReleaseFunds,
         disputeVars, cancelVars

LEMMA SettlementStepStatus ==
    ASSUME SettlementStep
    PROVE  /\ UNCHANGED <<request, slash, startedLedger, startTime>>
           /\ \/ status' = status
              \/ status = "Active" /\ status' \in TerminalStatuses
  BY DEF SettlementStep, ApproveRelease, RevokeApproval, CancelEscrow,
         ExpireEscrow, PartialCancel, SettleRemaining, disputeVars, cancelVars,
         TerminalStatuses

LEMMA DisputeStepStatus ==
    ASSUME DisputeStep
    PROVE  /\ UNCHANGED <<request, slash>>
           /\ \/ /\ status = "Active" /\ status' = "Disputed"
                 /\ startedLedger' # "unset" /\ startTime' # "unset"
              \/ status = "Disputed" /\ status' = "Completed"
              \/ UNCHANGED <<status, startedLedger, startTime>>
  BY DEF DisputeStep, RaiseDispute, AssignDisputeArbiter, ResolveDispute,
         ClaimDisputeTimeout, SubmitRuling, OracleResolveDispute,
         SettleRemaining, cancelVars

LEMMA PassageOfTimeStatus ==
    ASSUME TypeOK, PassageOfTime
    PROVE  /\ UNCHANGED status
           /\ request' = None <=> request = None
           /\ request # None => request'.disputed = request.disputed
           /\ slash' = None <=> slash = None
           /\ startTime' = "unset" <=> startTime = "unset"
           /\ startedLedger' = "unset" <=> startedLedger = "unset"
<1> USE DEF PassageOfTime, disputeVars, cancelVars, None
<1>1. CASE RequestWindowPasses /\ UNCHANGED disputeVars
  BY <1>1 DEF RequestWindowPasses, TypeOK, Requests
<1>2. CASE SlashWindowPasses /\ UNCHANGED disputeVars
  BY <1>2 DEF SlashWindowPasses, TypeOK, SlashRecords
<1>3. CASE DisputeClocksPass /\ UNCHANGED cancelVars
  BY <1>3 DEF DisputeClocksPass
<1>4. CASE UNCHANGED <<disputeVars, cancelVars>>
  BY <1>4
<1> QED
  BY <1>1, <1>2, <1>3, <1>4

\* The cancellation path ignores meta.status, yet its three records stay
\* consistent with each other.
LEMMA CancellationDisciplineStep ==
    ASSUME TypeOK, CancellationDiscipline, [Next]_vars
    PROVE  CancellationDiscipline'
<1> USE DEF CancellationDiscipline, OpenStatuses
<1>1. ASSUME NEW m \in Milestones, MilestoneStep(m)
      PROVE  CancellationDiscipline'
  BY <1>1, MilestoneStepStatus
<1>2. CASE TermsStep
  BY <1>2, TermsStepStatus
<1>3. CASE SettlementStep
  BY <1>3, SettlementStepStatus DEF TerminalStatuses
<1>4. CASE DisputeStep
  BY <1>4, DisputeStepStatus
<1>5. CASE CancellationStep
  <2>1. ASSUME NEW p \in Parties, RequestCancellation(p)
        PROVE  CancellationDiscipline'
    BY <2>1 DEF RequestCancellation, None
  <2>2. CASE ApproveCancellation
    BY <2>2 DEF ApproveCancellation, TypeOK, Requests, None
  <2>3. CASE ExecuteCancellation
    BY <2>3 DEF ExecuteCancellation, None
  <2>4. CASE DisputeCancellation
    BY <2>4 DEF DisputeCancellation, TypeOK, Requests, None
  <2>5. CASE ConfirmCancellation
    BY <2>5 DEF ConfirmCancellation, SettleRemaining
  <2>6. CASE RejectCancellation
    BY <2>6 DEF RejectCancellation
  <2> QED
    BY <1>5, <2>1, <2>2, <2>3, <2>4, <2>5, <2>6 DEF CancellationStep
<1>6. CASE SlashStep
  BY <1>6 DEF SlashStep, FinalizeSlash, DisputeSlash, ResolveSlashDispute
<1>7. CASE CollectExpiredRent
  BY <1>7 DEF CollectExpiredRent
<1>8. CASE PassageOfTime
  BY <1>8, PassageOfTimeStatus
<1>9. CASE UNCHANGED vars
  BY <1>9 DEF vars, cancelVars
<1>10. CASE BatchStep
  BY <1>10, BatchStepStatus
<1> QED
  BY <1>1, <1>2, <1>3, <1>4, <1>5, <1>6, <1>7, <1>8, <1>9, <1>10 DEF Next

\* An Active escrow never carries a cancellation request, a pending request is
\* undisputed, and a slash record never meets a request: apply_slash's panic on
\* a second record is unreachable.
THEOREM CancellationSound == Spec => []CancellationDiscipline
<1>1. Init => CancellationDiscipline
  BY DEF Init, CancellationDiscipline
<1>2. TypeOK /\ CancellationDiscipline /\ [Next]_vars => CancellationDiscipline'
  BY CancellationDisciplineStep
<1> QED
  BY <1>1, <1>2, TypeCorrect, PTL DEF Spec

\* A dispute that did not come from a cancellation request has its clocks.
THEOREM DisputeClocksPresent == Spec => []DisputeHasClock
<1> USE DEF DisputeHasClock
<1>1. Init => DisputeHasClock
  BY DEF Init
<1>2. ASSUME TypeOK, DisputeHasClock, [Next]_vars
      PROVE  DisputeHasClock'
  <2>1. ASSUME NEW m \in Milestones, MilestoneStep(m)
        PROVE  DisputeHasClock'
    BY <1>2, <2>1, MilestoneStepStatus
  <2>2. CASE TermsStep
    BY <1>2, <2>2, TermsStepStatus
  <2>3. CASE SettlementStep
    BY <1>2, <2>3, SettlementStepStatus DEF TerminalStatuses
  <2>4. CASE DisputeStep
    BY <1>2, <2>4, DisputeStepStatus
  <2>5. CASE CancellationStep
    <3>1. CASE ApproveCancellation \/ DisputeCancellation
      BY <1>2, <3>1 DEF ApproveCancellation, DisputeCancellation, TypeOK, Requests, None
    <3>2. CASE status' # "Disputed"
      BY <3>2
    <3> QED
      BY <2>5, <3>1, <3>2
         DEF CancellationStep, RequestCancellation, ExecuteCancellation,
             ConfirmCancellation, RejectCancellation, SettleRemaining
  <2>6. CASE SlashStep
    BY <1>2, <2>6
       DEF SlashStep, FinalizeSlash, DisputeSlash, ResolveSlashDispute, disputeVars
  <2>7. CASE CollectExpiredRent
    BY <2>7 DEF CollectExpiredRent
  <2>8. CASE PassageOfTime
    BY <1>2, <2>8, PassageOfTimeStatus
  <2>9. CASE UNCHANGED vars
    BY <1>2, <2>9 DEF vars, cancelVars, disputeVars
  <2>10. CASE BatchStep
    BY <1>2, <2>10, BatchStepStatus
  <2> QED
    BY <1>2, <2>1, <2>2, <2>3, <2>4, <2>5, <2>6, <2>7, <2>8, <2>9, <2>10 DEF Next
<1> QED
  BY <1>1, <1>2, TypeCorrect, PTL DEF Spec

\* A settled escrow that has no request left stays settled, in every step.
LEMMA SettledStep ==
    ASSUME TypeOK, [Next]_vars, status \in TerminalStatuses, request = None
    PROVE  status' \in TerminalStatuses /\ request' = None
<1> USE DEF TerminalStatuses
<1>1. ASSUME NEW m \in Milestones, MilestoneStep(m)
      PROVE  status' \in TerminalStatuses /\ request' = None
  BY <1>1, MilestoneStepStatus
<1>2. CASE TermsStep
  BY <1>2, TermsStepStatus
<1>3. CASE SettlementStep
  BY <1>3, SettlementStepStatus
<1>4. CASE DisputeStep
  BY <1>4, DisputeStepStatus
<1>5. CASE CancellationStep
  BY <1>5
     DEF CancellationStep, RequestCancellation, ApproveCancellation,
         ExecuteCancellation, DisputeCancellation, ConfirmCancellation,
         RejectCancellation
<1>6. CASE SlashStep
  BY <1>6 DEF SlashStep, FinalizeSlash, DisputeSlash, ResolveSlashDispute
<1>7. CASE CollectExpiredRent
  BY <1>7 DEF CollectExpiredRent
<1>8. CASE PassageOfTime
  BY <1>8, PassageOfTimeStatus
<1>9. CASE UNCHANGED vars
  BY <1>9 DEF vars, cancelVars
<1>10. CASE BatchStep
  BY <1>10, BatchStepStatus
<1> QED
  BY <1>1, <1>2, <1>3, <1>4, <1>5, <1>6, <1>7, <1>8, <1>9, <1>10 DEF Next

\* No sequence of calls reopens a settled escrow that has no request left.
THEOREM SettlementIsFinal == Spec => SettledStaysSettled
<1>1. TypeOK /\ [Next]_vars =>
        ((status \in TerminalStatuses /\ request = None) =>
           (status' \in TerminalStatuses /\ request' = None))
  BY SettledStep
<1> QED
  BY <1>1, TypeCorrect, PTL DEF Spec, SettledStaysSettled

----------------------------------------------------------------------------
(* Money *)

\* Whatever is called, in any order, the contract never holds more for the
\* escrow than its balance, its held slash and its upheld slashes account for:
\* no payment is forgotten after the books have been reduced.
THEOREM NothingForgotten == Spec => []NoSurplus
<1> USE DEF NoSurplus, SlashHeld
<1>1. Init => NoSurplus
  BY ConstantsAssumption DEF Init
<1>2. ASSUME TypeOK, NoSurplus, [Next]_vars
      PROVE  NoSurplus'
  <2> USE DEF TypeOK, moneyVars, cancelVars
  <2> SlashHeld \in Int
    BY <1>2, SlashHeldType
  <2>1. ASSUME NEW m \in Milestones, MilestoneStep(m)
        PROVE  NoSurplus'
    <3>1. amount[m] \in Int
      BY <1>2
    <3>2. \/ held' = held - amount[m] /\ remaining' = remaining - amount[m]
          \/ held' = held /\ remaining' = remaining
      <4>1. CASE ApproveMilestone(m)
        BY <4>1 DEF ApproveMilestone
      <4>2. CASE SubmitMilestone(m) \/ RejectMilestone(m)
        BY <4>2 DEF SubmitMilestone, RejectMilestone
      <4>3. CASE PayMilestone(m)
        BY <4>3 DEF PayMilestone
      <4> QED
        BY <2>1, <4>1, <4>2, <4>3
           DEF MilestoneStep, ReleaseFunds, ProcessPendingRelease, TriggerOracleRelease
    <3>3. UNCHANGED <<slash, stranded>>
      BY <2>1
         DEF MilestoneStep, SubmitMilestone, ApproveMilestone, RejectMilestone,
             ReleaseFunds, ProcessPendingRelease, TriggerOracleRelease, PayMilestone
    <3> QED
      BY <1>2, <3>1, <3>2, <3>3
  <2>2. CASE TermsStep
    BY <1>2, <2>2
       DEF TermsStep, AddMilestone, StartTimelock, ExtendLockTime, ExtendDeadline
  <2>3. CASE SettlementStep
    BY <1>2, <2>3, PayableType
       DEF SettlementStep, ApproveRelease, RevokeApproval, CancelEscrow,
           ExpireEscrow, PartialCancel, SettleRemaining
  <2>4. CASE DisputeStep
    BY <1>2, <2>4, PayableType
       DEF DisputeStep, RaiseDispute, AssignDisputeArbiter, ResolveDispute,
           ClaimDisputeTimeout, SubmitRuling, OracleResolveDispute, SettleRemaining
  <2>5. CASE CancellationStep
    <3>1. CASE ExecuteCancellation
      <4>1. SlashAmount(remaining) \in Int
        BY <1>2, SlashAmountType
      <4>2. slash'.amount = SlashAmount(remaining) /\ slash' # None
        BY <3>1 DEF ExecuteCancellation, None
      <4>3. Payable(remaining - SlashAmount(remaining)) \in Int
            /\ Payable(remaining - SlashAmount(remaining)) >= remaining - SlashAmount(remaining)
        BY <1>2, <4>1, PayableType
      <4> QED
        BY <1>2, <3>1, <4>1, <4>2, <4>3 DEF ExecuteCancellation
    <3>2. CASE ConfirmCancellation
      BY <1>2, <3>2, PayableType DEF ConfirmCancellation, SettleRemaining
    <3>3. CASE UNCHANGED <<moneyVars, slash>>
      BY <1>2, <3>3
    <3> QED
      BY <2>5, <3>1, <3>2, <3>3
         DEF CancellationStep, RequestCancellation, ApproveCancellation,
             DisputeCancellation, RejectCancellation
  <2>6. CASE SlashStep
    BY <1>2, <2>6, SlashUpdates
       DEF SlashStep, FinalizeSlash, DisputeSlash, ResolveSlashDispute, SlashRecords, None
  <2>7. CASE CollectExpiredRent
    BY <1>2, <2>7, PayableType DEF CollectExpiredRent
  <2>8. CASE PassageOfTime
    BY <1>2, <2>8 DEF PassageOfTime, RequestWindowPasses, SlashWindowPasses, SlashRecords, None
  <2>9. CASE UNCHANGED vars
    BY <1>2, <2>9 DEF vars
  <2>10. CASE BatchStep
    <3>1. UNCHANGED <<slash, stranded>>
      BY <2>10 DEF BatchStep, BatchAddMilestones, BatchApproveMilestones, BatchReleaseFunds
    <3>2. \/ UNCHANGED <<held, remaining>>
          \/ \E x \in Int : held' = held - x /\ remaining' = remaining - x
      BY <1>2, <2>10, BatchIds, BatchArithmetic
         DEF BatchStep, BatchAddMilestones, BatchApproveMilestones, BatchReleaseFunds
    <3> QED
      BY <1>2, <3>1, <3>2
  <2> QED
    BY <1>2, <2>1, <2>2, <2>3, <2>4, <2>5, <2>6, <2>7, <2>8, <2>9, <2>10 DEF Next
<1> QED
  BY <1>1, <1>2, TypeCorrect, PTL DEF Spec

----------------------------------------------------------------------------
(* Milestones and their counters *)

\* No call forgets an irregular call.
LEMMA HistoryGrows ==
    ASSUME [Next]_vars
    PROVE  history \subseteq history'
<1> USE DEF otherVars
<1>1. ASSUME NEW m \in Milestones, MilestoneStep(m)
      PROVE  history \subseteq history'
  BY <1>1 DEF MilestoneStep, SubmitMilestone, ApproveMilestone, RejectMilestone,
              ReleaseFunds, ProcessPendingRelease, TriggerOracleRelease
<1>2. CASE TermsStep
  BY <1>2 DEF TermsStep, AddMilestone, StartTimelock, ExtendLockTime, ExtendDeadline
<1>3. CASE BatchStep
  BY <1>3 DEF BatchStep, BatchAddMilestones, BatchApproveMilestones, BatchReleaseFunds
<1>4. CASE SettlementStep
  BY <1>4 DEF SettlementStep, ApproveRelease, RevokeApproval, CancelEscrow,
              ExpireEscrow, PartialCancel
<1>5. CASE DisputeStep
  BY <1>5 DEF DisputeStep, RaiseDispute, AssignDisputeArbiter, ResolveDispute,
              ClaimDisputeTimeout, SubmitRuling, OracleResolveDispute
<1>6. CASE CancellationStep
  BY <1>6 DEF CancellationStep, RequestCancellation, ApproveCancellation,
              ExecuteCancellation, DisputeCancellation, ConfirmCancellation,
              RejectCancellation
<1>7. CASE SlashStep
  BY <1>7 DEF SlashStep, FinalizeSlash, DisputeSlash, ResolveSlashDispute
<1>8. CASE CollectExpiredRent \/ PassageOfTime \/ UNCHANGED vars
  BY <1>8 DEF CollectExpiredRent, PassageOfTime, vars
<1> QED
  BY <1>1, <1>2, <1>3, <1>4, <1>5, <1>6, <1>7, <1>8 DEF Next

\* Moving one milestone to another status moves one element between the sets
\* that the counters of EscrowMeta count.
LEMMA CardinalityAfterMove ==
    ASSUME NEW f \in [Milestones -> MilestoneStatuses],
           NEW m \in Milestones, NEW t \in MilestoneStatuses, NEW st
    PROVE  LET before == {x \in Milestones : f[x] \in st}
               after  == {x \in Milestones : [f EXCEPT ![m] = t][x] \in st}
           IN  /\ Cardinality(before) \in Nat
               /\ Cardinality(after) = IF f[m] \in st
                                         THEN IF t \in st THEN Cardinality(before)
                                                          ELSE Cardinality(before) - 1
                                         ELSE IF t \in st THEN Cardinality(before) + 1
                                                          ELSE Cardinality(before)
<1> DEFINE before == {x \in Milestones : f[x] \in st}
           after  == {x \in Milestones : [f EXCEPT ![m] = t][x] \in st}
<1>1. IsFiniteSet(Milestones)
  BY FS_Interval, ConstantsAssumption DEF Milestones
<1>2. IsFiniteSet(before) /\ Cardinality(before) \in Nat
  BY <1>1, FS_Subset, FS_CardinalityType
<1>3. CASE (f[m] \in st) <=> (t \in st)
  BY <1>2, <1>3, after = before
<1>4. CASE f[m] \in st /\ t \notin st
  <2>1. after = before \ {m} /\ m \in before
    BY <1>4
  <2>2. Cardinality(before \ {m}) = Cardinality(before) - 1
    <3> HIDE DEF before
    <3> QED
      BY <1>2, <2>1, FS_RemoveElement
  <2> QED
    BY <1>2, <1>4, <2>1, <2>2
<1>5. CASE f[m] \notin st /\ t \in st
  <2>1. after = before \cup {m} /\ m \notin before
    BY <1>5
  <2>2. Cardinality(before \cup {m}) = Cardinality(before) + 1
    <3> HIDE DEF before
    <3> QED
      BY <1>2, <2>1, FS_AddElement
  <2> QED
    BY <1>2, <1>5, <2>1, <2>2
<1> QED
  BY <1>2, <1>3, <1>4, <1>5

\* The four sets that the counters count, before any expansion of InStatus.
InUse     == MilestoneStatuses \ {"absent"}
Accepted  == {"Approved", "Released"}
Counted   == {InUse, {"Released"}, Accepted, {"Submitted"}}

Bit(b) == IF b THEN 1 ELSE 0

LEMMA CountsAfterMove ==
    ASSUME TypeOK, NEW m \in Milestones, NEW t \in MilestoneStatuses,
           ms' = [ms EXCEPT ![m] = t]
    PROVE  \A st \in Counted :
              /\ Cardinality(InStatus(st)) \in Nat
              /\ Cardinality(InStatus(st)') =
                    Cardinality(InStatus(st)) + Bit(t \in st) - Bit(ms[m] \in st)
<1>1. ms \in [Milestones -> MilestoneStatuses]
  BY DEF TypeOK
<1> TAKE st \in Counted
<1>2. InStatus(st)' = {x \in Milestones : [ms EXCEPT ![m] = t][x] \in st}
  BY DEF InStatus
<1>3. /\ Cardinality(InStatus(st)) \in Nat
      /\ Cardinality(InStatus(st)') =
            IF ms[m] \in st
              THEN IF t \in st THEN Cardinality(InStatus(st))
                               ELSE Cardinality(InStatus(st)) - 1
              ELSE IF t \in st THEN Cardinality(InStatus(st)) + 1
                               ELSE Cardinality(InStatus(st))
  BY <1>1, <1>2, CardinalityAfterMove DEF InStatus
<1> QED
  BY <1>3 DEF Bit

\* One milestone at a time is added, so those in use are the first ones.
FirstOnesInUse == \A m \in Milestones : ms[m] = "absent" <=> m > count

CountersInv == FirstOnesInUse /\ CountersAgree

\* A step that moves one milestone and adjusts the counters by the same amounts.
Moves(m, t) ==
    /\ ms' = [ms EXCEPT ![m] = t]
    /\ ms[m] = "absent" => m = count + 1
    /\ count' = count + Bit(ms[m] = "absent")
    /\ releasedCount' = releasedCount + Bit(t = "Released") - Bit(ms[m] = "Released")
    /\ approvedCount' = approvedCount + Bit(t \in Accepted) - Bit(ms[m] \in Accepted)
    /\ \/ submittedCount' >= submittedCount + Bit(t = "Submitted")
       \/ /\ ms[m] = "Submitted" /\ t # "Submitted"
          /\ submittedCount' >= submittedCount - 1

LEMMA MovePreservesCounters ==
    ASSUME TypeOK, TypeOK', CountersInv, history \subseteq history',
           NEW m \in Milestones, NEW t \in InUse, Moves(m, t)
    PROVE  CountersInv'
<1> USE DEF Moves
<1>1. t \in MilestoneStatuses /\ ms[m] \in MilestoneStatuses
  BY DEF InUse, TypeOK
<1>2. \A st \in Counted :
         /\ Cardinality(InStatus(st)) \in Nat
         /\ Cardinality(InStatus(st)') =
               Cardinality(InStatus(st)) + Bit(t \in st) - Bit(ms[m] \in st)
  BY <1>1, CountsAfterMove
<1>3. count' = Cardinality(InStatus(InUse)')
  <2>1. /\ Cardinality(InStatus(InUse)) \in Nat
        /\ Cardinality(InStatus(InUse)') =
              Cardinality(InStatus(InUse)) + Bit(t \in InUse) - Bit(ms[m] \in InUse)
    BY <1>2 DEF Counted
  <2>2. ms[m] \in InUse <=> ms[m] # "absent"
    BY <1>1 DEF InUse
  <2>3. count = Cardinality(InStatus(InUse))
    BY DEF CountersInv, CountersAgree, InUse
  <2> QED
    BY <2>1, <2>2, <2>3 DEF Bit
<1>4. "repeatedId" \notin history' => releasedCount' = Cardinality(InStatus({"Released"})')
  <2>1. /\ Cardinality(InStatus({"Released"})) \in Nat
        /\ Cardinality(InStatus({"Released"})') =
              Cardinality(InStatus({"Released"}))
                + Bit(t \in {"Released"}) - Bit(ms[m] \in {"Released"})
    BY <1>2 DEF Counted
  <2>2. "repeatedId" \notin history' => releasedCount = Cardinality(InStatus({"Released"}))
    BY DEF CountersInv, CountersAgree
  <2> QED
    BY <2>1, <2>2 DEF Bit
<1>5. "repeatedId" \notin history' => approvedCount' = Cardinality(InStatus(Accepted)')
  <2>1. /\ Cardinality(InStatus(Accepted)) \in Nat
        /\ Cardinality(InStatus(Accepted)') =
              Cardinality(InStatus(Accepted)) + Bit(t \in Accepted) - Bit(ms[m] \in Accepted)
    BY <1>2 DEF Counted
  <2>2. "repeatedId" \notin history' => approvedCount = Cardinality(InStatus(Accepted))
    BY DEF CountersInv, CountersAgree, Accepted
  <2> QED
    BY <2>1, <2>2 DEF Bit
<1>6. "repeatedId" \notin history' => Cardinality(InStatus({"Submitted"})') <= submittedCount'
  <2>1. /\ Cardinality(InStatus({"Submitted"})) \in Nat
        /\ Cardinality(InStatus({"Submitted"})') =
              Cardinality(InStatus({"Submitted"}))
                + Bit(t \in {"Submitted"}) - Bit(ms[m] \in {"Submitted"})
    BY <1>2 DEF Counted
  <2>2. "repeatedId" \notin history' => Cardinality(InStatus({"Submitted"})) <= submittedCount
    BY DEF CountersInv, CountersAgree
  <2>3. submittedCount \in Nat /\ submittedCount' \in Nat
    BY DEF TypeOK
  <2> QED
    BY <2>1, <2>2, <2>3 DEF Bit
<1>7. FirstOnesInUse'
  <2>1. count \in Nat /\ \A x \in Milestones : x \in Nat
    BY DEF TypeOK, Milestones
  <2>2. \A x \in Milestones : ms'[x] = IF x = m THEN t ELSE ms[x]
    BY DEF TypeOK
  <2> QED
    BY <2>1, <2>2 DEF FirstOnesInUse, CountersInv, InUse, Bit
<1> QED
  BY <1>3, <1>4, <1>5, <1>6, <1>7 DEF CountersInv, CountersAgree, InUse, Accepted

LEMMA StutterPreservesCounters ==
    ASSUME CountersInv, UNCHANGED <<ms, count, counterVars>>, history \subseteq history'
    PROVE  CountersInv'
  BY DEF CountersInv, CountersAgree, FirstOnesInUse, InStatus, counterVars

NoMilestones ==
    /\ ms = [m \in Milestones |-> "absent"]
    /\ count = 0 /\ approvedCount = 0 /\ releasedCount = 0 /\ submittedCount = 0

LEMMA NoMilestonesNoCounts == NoMilestones => CountersInv
<1> SUFFICES ASSUME NoMilestones
             PROVE  CountersInv
  OBVIOUS
<1> USE DEF NoMilestones
<1>1. \A st : "absent" \notin st => InStatus(st) = {}
  BY DEF InStatus
<1>2. Cardinality({}) = 0
  BY FS_EmptySet
<1>3. FirstOnesInUse
  BY DEF FirstOnesInUse, Milestones
<1>4. /\ InStatus(InUse) = {} /\ InStatus({"Released"}) = {}
      /\ InStatus(Accepted) = {} /\ InStatus({"Submitted"}) = {}
  BY <1>1 DEF InUse, Accepted
<1> QED
  BY <1>2, <1>3, <1>4 DEF CountersInv, CountersAgree, InUse, Accepted

\* The milestone calls, each as one move of one milestone.
LEMMA MilestoneStepCounters ==
    ASSUME TypeOK, TypeOK', CountersInv, history \subseteq history',
           NEW m \in Milestones, MilestoneStep(m)
    PROVE  CountersInv'
<1>1. /\ count \in Nat /\ approvedCount \in Nat
      /\ releasedCount \in Nat /\ submittedCount \in Nat
  BY DEF TypeOK
<1>2. {"Submitted", "Approved", "Released", "Rejected"} \subseteq InUse
  BY DEF InUse, MilestoneStatuses
<1>3. CASE SubmitMilestone(m)
  <2>1. Moves(m, "Submitted")
    BY <1>1, <1>3 DEF SubmitMilestone, Moves, Bit, Accepted
  <2> QED
    BY <1>2, <2>1, MovePreservesCounters
<1>4. CASE ApproveMilestone(m)
  <2>1. /\ ms[m] = "Submitted" /\ approvedCount' = approvedCount + 1
        /\ count' = count /\ submittedCount' = submittedCount
        /\ \/ ms' = [ms EXCEPT ![m] = "Approved"] /\ releasedCount' = releasedCount
           \/ ms' = [ms EXCEPT ![m] = "Released"] /\ releasedCount' = releasedCount + 1
    BY <1>4 DEF ApproveMilestone
  <2>2. Moves(m, "Approved") \/ Moves(m, "Released")
    BY <1>1, <2>1 DEF Moves, Bit, Accepted
  <2> QED
    BY <1>2, <2>2, MovePreservesCounters
<1>5. CASE RejectMilestone(m)
  <2>1. Moves(m, "Rejected")
    BY <1>1, <1>5 DEF RejectMilestone, Moves, Bit, Accepted
  <2> QED
    BY <1>2, <2>1, MovePreservesCounters
<1>6. CASE ms[m] = "Approved" /\ PayMilestone(m) /\ approvedCount' = approvedCount
  <2>1. Moves(m, "Released")
    BY <1>1, <1>6 DEF PayMilestone, Moves, Bit, Accepted
  <2> QED
    BY <1>2, <2>1, MovePreservesCounters
<1>7. CASE TriggerOracleRelease(m)
  <2>1. /\ ms[m] = "Pending" /\ approvedCount' = approvedCount + 1
        /\ ms' = [ms EXCEPT ![m] = "Released"] /\ releasedCount' = releasedCount + 1
        /\ count' = count /\ submittedCount' = submittedCount
    BY <1>7 DEF TriggerOracleRelease, PayMilestone
  <2>2. Moves(m, "Released")
    BY <1>1, <2>1 DEF Moves, Bit, Accepted
  <2> QED
    BY <1>2, <2>2, MovePreservesCounters
<1> QED
  BY <1>3, <1>4, <1>5, <1>6, <1>7
     DEF MilestoneStep, ReleaseFunds, ProcessPendingRelease

LEMMA RaiseDisputeCounters ==
    ASSUME TypeOK, TypeOK', CountersInv, history \subseteq history',
           NEW m \in Milestones \cup {0}, RaiseDispute(m)
    PROVE  CountersInv'
<1>1. /\ count \in Nat /\ approvedCount \in Nat
      /\ releasedCount \in Nat /\ submittedCount \in Nat
  BY DEF TypeOK
<1>2. CASE m \in InStatus({"Pending", "Submitted"})
  <2>1. m \in Milestones
    BY <1>2 DEF InStatus
  <2>2. Moves(m, "Disputed")
    BY <1>1, <1>2 DEF RaiseDispute, InStatus, Moves, Bit, Accepted
  <2>3. "Disputed" \in InUse
    BY DEF InUse, MilestoneStatuses
  <2> QED
    BY <2>1, <2>2, <2>3, MovePreservesCounters
<1>3. CASE m \notin InStatus({"Pending", "Submitted"})
  <2>1. m \notin InStatus({"Submitted"})
    BY <1>3 DEF InStatus
  <2> QED
    BY <1>3, <2>1, StutterPreservesCounters DEF RaiseDispute, counterVars
<1> QED
  BY <1>2, <1>3

\* Two milestones of one status move together.
LEMMA CountsAfterTwoMoves ==
    ASSUME TypeOK, NEW a \in Milestones, NEW b \in Milestones, a # b,
           NEW t \in MilestoneStatuses, ms[a] = ms[b],
           ms' = [ms EXCEPT ![a] = t, ![b] = t]
    PROVE  \A st \in Counted :
              /\ Cardinality(InStatus(st)) \in Nat
              /\ Cardinality(InStatus(st)') =
                    Cardinality(InStatus(st)) + 2 * Bit(t \in st) - 2 * Bit(ms[a] \in st)
<1> DEFINE g == [ms EXCEPT ![a] = t]
<1>1. /\ ms \in [Milestones -> MilestoneStatuses]
      /\ g \in [Milestones -> MilestoneStatuses]
      /\ g[b] = ms[a] /\ ms' = [g EXCEPT ![b] = t]
  BY DEF TypeOK
<1> HIDE DEF g
<1> TAKE st \in Counted
<1> DEFINE before == {x \in Milestones : ms[x] \in st}
           middle == {x \in Milestones : g[x] \in st}
           after  == {x \in Milestones : [g EXCEPT ![b] = t][x] \in st}
<1>2. before = InStatus(st) /\ after = InStatus(st)'
  BY <1>1 DEF InStatus
<1>3. /\ Cardinality(before) \in Nat
      /\ Cardinality(middle) = IF ms[a] \in st
                                 THEN IF t \in st THEN Cardinality(before)
                                                  ELSE Cardinality(before) - 1
                                 ELSE IF t \in st THEN Cardinality(before) + 1
                                                  ELSE Cardinality(before)
  BY <1>1, CardinalityAfterMove DEF g
<1>4. /\ Cardinality(middle) \in Nat
      /\ Cardinality(after) = IF g[b] \in st
                                 THEN IF t \in st THEN Cardinality(middle)
                                                  ELSE Cardinality(middle) - 1
                                 ELSE IF t \in st THEN Cardinality(middle) + 1
                                                  ELSE Cardinality(middle)
  BY <1>1, CardinalityAfterMove
<1> HIDE DEF before, middle, after
<1>5. Cardinality(after) = Cardinality(before) + 2 * Bit(t \in st) - 2 * Bit(ms[a] \in st)
  BY <1>1, <1>3, <1>4 DEF Bit
<1> QED
  BY <1>2, <1>3, <1>5

\* A batch that names one milestone moves it; one that names two moves both;
\* one that names a milestone twice only leaves `count` right.
LEMMA BatchMovePreservesCounters ==
    ASSUME TypeOK, TypeOK', CountersInv, history \subseteq history',
           NEW a \in Milestones, NEW b \in Milestones \cup {0},
           NEW from \in {"Submitted", "Approved"}, NEW t \in {"Approved", "Released"},
           from # t, {a, b} \ {0} \subseteq InStatus({from}), MoveBatch(a, b, t),
           count' = count,
           releasedCount' = releasedCount + (IF t = "Released" THEN BatchSize(b) ELSE 0),
           approvedCount' = approvedCount + (IF from = "Submitted" THEN BatchSize(b) ELSE 0),
           submittedCount' >= submittedCount - (IF from = "Submitted" THEN BatchSize(b) ELSE 0),
           Repeated(a, b) \subseteq history'
    PROVE  CountersInv'
<1>1. /\ 0 \notin Milestones
      /\ ms \in [Milestones -> MilestoneStatuses]
      /\ count \in Nat /\ approvedCount \in Nat
      /\ releasedCount \in Nat /\ submittedCount \in Nat /\ submittedCount' \in Nat
  BY DEF TypeOK, Milestones
<1>2. ms[a] = from /\ t \in InUse /\ t \in MilestoneStatuses
  BY <1>1 DEF InStatus, InUse, MilestoneStatuses
<1>3. CASE b = 0
  <2>1. ms' = [ms EXCEPT ![a] = t]
    BY <1>1, <1>3 DEF MoveBatch
  <2>2. Moves(a, t)
    BY <1>1, <1>2, <1>3, <2>1 DEF Moves, BatchSize, Bit, Accepted
  <2> QED
    BY <1>2, <2>2, MovePreservesCounters
<1>4. CASE b = a
  <2>1. ms' = [ms EXCEPT ![a] = t]
    BY <1>1, <1>4 DEF MoveBatch
  <2>2. /\ Cardinality(InStatus(InUse)) \in Nat
        /\ Cardinality(InStatus(InUse)') =
              Cardinality(InStatus(InUse)) + Bit(t \in InUse) - Bit(ms[a] \in InUse)
    BY <1>2, <2>1, CountsAfterMove DEF Counted
  <2>3. count' = Cardinality(InStatus(InUse)')
    BY <1>2, <2>2 DEF CountersInv, CountersAgree, InUse, Bit, MilestoneStatuses
  <2>4. FirstOnesInUse'
    BY <1>1, <1>2, <2>1 DEF FirstOnesInUse, CountersInv
  <2>5. "repeatedId" \in history'
    BY <1>4 DEF Repeated
  <2> QED
    BY <2>3, <2>4, <2>5 DEF CountersInv, CountersAgree, InUse
<1>5. CASE b # 0 /\ b # a
  <2>1. /\ b \in Milestones /\ ms[b] = from /\ BatchSize(b) = 2
        /\ ms' = [ms EXCEPT ![a] = t, ![b] = t]
    BY <1>1, <1>5 DEF MoveBatch, InStatus, BatchSize
  <2>2. \A st \in Counted :
           /\ Cardinality(InStatus(st)) \in Nat
           /\ Cardinality(InStatus(st)') =
                 Cardinality(InStatus(st)) + 2 * Bit(t \in st) - 2 * Bit(from \in st)
    <3>1. \A st \in Counted :
             /\ Cardinality(InStatus(st)) \in Nat
             /\ Cardinality(InStatus(st)') =
                   Cardinality(InStatus(st)) + 2 * Bit(t \in st) - 2 * Bit(ms[a] \in st)
      <4>1. t \in MilestoneStatuses /\ ms[a] = ms[b] /\ a # b
        BY <1>2, <1>5, <2>1
      <4> QED
        BY <2>1, <4>1, CountsAfterTwoMoves
    <3> QED
      BY <1>2, <3>1
  <2>3. count' = Cardinality(InStatus(InUse)')
    <3>1. /\ Cardinality(InStatus(InUse)) \in Nat
          /\ Cardinality(InStatus(InUse)') =
                Cardinality(InStatus(InUse)) + 2 * Bit(t \in InUse) - 2 * Bit(from \in InUse)
      BY <2>2 DEF Counted
    <3>2. from \in InUse
      BY DEF InUse, MilestoneStatuses
    <3> QED
      BY <1>2, <3>1, <3>2 DEF CountersInv, CountersAgree, InUse, Bit
  <2>4. "repeatedId" \notin history' => releasedCount' = Cardinality(InStatus({"Released"})')
    <3>1. /\ Cardinality(InStatus({"Released"})) \in Nat
          /\ Cardinality(InStatus({"Released"})') =
                Cardinality(InStatus({"Released"}))
                  + 2 * Bit(t \in {"Released"}) - 2 * Bit(from \in {"Released"})
      BY <2>2 DEF Counted
    <3>2. "repeatedId" \notin history' => releasedCount = Cardinality(InStatus({"Released"}))
      BY DEF CountersInv, CountersAgree
    <3> QED
      BY <1>1, <2>1, <3>1, <3>2 DEF Bit
  <2>5. "repeatedId" \notin history' => approvedCount' = Cardinality(InStatus(Accepted)')
    <3>1. /\ Cardinality(InStatus(Accepted)) \in Nat
          /\ Cardinality(InStatus(Accepted)') =
                Cardinality(InStatus(Accepted))
                  + 2 * Bit(t \in Accepted) - 2 * Bit(from \in Accepted)
      BY <2>2 DEF Counted
    <3>2. "repeatedId" \notin history' => approvedCount = Cardinality(InStatus(Accepted))
      BY DEF CountersInv, CountersAgree, Accepted
    <3>3. t \in Accepted /\ (from \in Accepted <=> from = "Approved")
      BY DEF Accepted
    <3> QED
      BY <1>1, <2>1, <3>1, <3>2, <3>3 DEF Bit
  <2>6. "repeatedId" \notin history' => Cardinality(InStatus({"Submitted"})') <= submittedCount'
    <3>1. /\ Cardinality(InStatus({"Submitted"})) \in Nat
          /\ Cardinality(InStatus({"Submitted"})') =
                Cardinality(InStatus({"Submitted"}))
                  + 2 * Bit(t \in {"Submitted"}) - 2 * Bit(from \in {"Submitted"})
      BY <2>2 DEF Counted
    <3>2. "repeatedId" \notin history' => Cardinality(InStatus({"Submitted"})) <= submittedCount
      BY DEF CountersInv, CountersAgree
    <3> QED
      BY <1>1, <2>1, <3>1, <3>2 DEF Bit
  <2>7. FirstOnesInUse'
    BY <1>1, <1>2, <2>1 DEF FirstOnesInUse, CountersInv
  <2> QED
    BY <2>3, <2>4, <2>5, <2>6, <2>7 DEF CountersInv, CountersAgree, InUse, Accepted
<1> QED
  BY <1>3, <1>4, <1>5

LEMMA BatchStepCounters ==
    ASSUME TypeOK, TypeOK', CountersInv, history \subseteq history', BatchStep
    PROVE  CountersInv'
<1>1. ASSUME NEW x \in AmountChoices, NEW y \in AmountChoices, BatchAddMilestones(x, y)
      PROVE  CountersInv'
  <2>1. /\ count \in Nat /\ submittedCount \in Nat
        /\ count + 1 \in Milestones /\ count + 2 \in Milestones
    <3>1. count \in Nat /\ submittedCount \in Nat /\ MaxMilestones \in Nat
      BY ConstantsAssumption DEF TypeOK
    <3>2. count + 2 <= MaxMilestones
      BY <1>1 DEF BatchAddMilestones
    <3> QED
      BY <3>1, <3>2 DEF Milestones
  <2>2. ms[count + 1] = "absent" /\ ms[count + 2] = "absent"
    BY <2>1 DEF CountersInv, FirstOnesInUse
  <2>3. \A st \in Counted :
           /\ Cardinality(InStatus(st)) \in Nat
           /\ Cardinality(InStatus(st)') =
                 Cardinality(InStatus(st)) + 2 * Bit("Pending" \in st) - 2 * Bit("absent" \in st)
    <3>1. \A a, b \in Milestones :
             /\ a # b /\ ms[a] = ms[b]
             /\ ms' = [ms EXCEPT ![a] = "Pending", ![b] = "Pending"]
             => \A st \in Counted :
                   /\ Cardinality(InStatus(st)) \in Nat
                   /\ Cardinality(InStatus(st)') =
                         Cardinality(InStatus(st)) + 2 * Bit("Pending" \in st)
                                                   - 2 * Bit(ms[a] \in st)
      BY CountsAfterTwoMoves DEF MilestoneStatuses
    <3>2. /\ count + 1 # count + 2
          /\ ms' = [ms EXCEPT ![count + 1] = "Pending", ![count + 2] = "Pending"]
      BY <1>1, <2>1 DEF BatchAddMilestones
    <3> QED
      BY <2>1, <2>2, <3>1, <3>2
  <2>4. /\ InUse \in Counted /\ {"Released"} \in Counted
        /\ Accepted \in Counted /\ {"Submitted"} \in Counted
        /\ "Pending" \in InUse /\ "absent" \notin InUse
        /\ {"Pending", "absent"} \cap (Accepted \cup {"Released", "Submitted"}) = {}
    BY DEF Counted, InUse, Accepted, MilestoneStatuses
  <2>5. /\ Cardinality(InStatus(InUse)') = Cardinality(InStatus(InUse)) + 2
        /\ Cardinality(InStatus({"Released"})') = Cardinality(InStatus({"Released"}))
        /\ Cardinality(InStatus(Accepted)') = Cardinality(InStatus(Accepted))
        /\ Cardinality(InStatus({"Submitted"})') = Cardinality(InStatus({"Submitted"}))
    BY <2>3, <2>4 DEF Bit
  <2>6. count' = count + 2 /\ UNCHANGED counterVars
    BY <1>1 DEF BatchAddMilestones
  <2>7. FirstOnesInUse'
    <3>1. \A m \in Milestones : ms'[m] = IF m \in {count + 1, count + 2} THEN "Pending" ELSE ms[m]
      BY <1>1 DEF BatchAddMilestones, TypeOK
    <3>2. \A m \in Milestones : m \in Nat
      BY DEF Milestones
    <3> QED
      BY <2>1, <2>6, <3>1, <3>2 DEF FirstOnesInUse, CountersInv
  <2> QED
    BY <2>5, <2>6, <2>7 DEF CountersInv, CountersAgree, InUse, Accepted, counterVars
<1>2. ASSUME NEW a \in Milestones, NEW b \in Milestones \cup {0}, BatchApproveMilestones(a, b)
      PROVE  CountersInv'
  <2>1. /\ approvedCount \in Nat /\ releasedCount \in Nat /\ submittedCount \in Nat
        /\ BatchSize(b) \in {1, 2}
    BY BatchArithmetic DEF TypeOK
  <2> DEFINE t == IF timelock # "running" THEN "Released" ELSE "Approved"
  <2>2. /\ t \in {"Approved", "Released"} /\ "Submitted" # t
        /\ {a, b} \ {0} \subseteq InStatus({"Submitted"}) /\ MoveBatch(a, b, t)
        /\ count' = count
        /\ releasedCount' = releasedCount + (IF t = "Released" THEN BatchSize(b) ELSE 0)
        /\ approvedCount' = approvedCount + BatchSize(b)
        /\ submittedCount' >= submittedCount - BatchSize(b)
        /\ Repeated(a, b) \subseteq history'
    BY <1>2, <2>1 DEF BatchApproveMilestones
  <2> HIDE DEF t
  <2> QED
    BY <2>2, BatchMovePreservesCounters
<1>3. ASSUME NEW a \in Milestones, NEW b \in Milestones \cup {0}, BatchReleaseFunds(a, b)
      PROVE  CountersInv'
  <2>1. /\ approvedCount \in Nat /\ submittedCount \in Nat
    BY DEF TypeOK
  <2>2. /\ {a, b} \ {0} \subseteq InStatus({"Approved"}) /\ MoveBatch(a, b, "Released")
        /\ count' = count /\ releasedCount' = releasedCount + BatchSize(b)
        /\ approvedCount' = approvedCount + 0 /\ submittedCount' >= submittedCount - 0
        /\ Repeated(a, b) \subseteq history'
    BY <1>3, <2>1 DEF BatchReleaseFunds
  <2> QED
    BY <2>2, BatchMovePreservesCounters
<1> QED
  BY <1>1, <1>2, <1>3, BatchIds DEF BatchStep

LEMMA CountersInvariant == Spec => []CountersInv
<1>1. Init => CountersInv
  BY NoMilestonesNoCounts DEF Init, NoMilestones
<1>2. ASSUME TypeOK, CountersInv, [Next]_vars
      PROVE  CountersInv'
  <2>0. TypeOK' /\ history \subseteq history'
    BY <1>2, TypeOKStep, HistoryGrows
  <2>1. ASSUME NEW m \in Milestones, MilestoneStep(m)
        PROVE  CountersInv'
    BY <1>2, <2>0, <2>1, MilestoneStepCounters
  <2>2. CASE TermsStep
    <3>1. ASSUME NEW a \in AmountChoices, NEW hasPrice \in {FALSE, HasOracle},
                 AddMilestone(a, hasPrice)
          PROVE  CountersInv'
      <4>1. count + 1 \in Milestones /\ count \in Nat
        BY <1>2, <3>1, ConstantsAssumption DEF AddMilestone, TypeOK, Milestones
      <4>2. ms[count + 1] = "absent"
        BY <1>2, <4>1 DEF CountersInv, FirstOnesInUse
      <4>3. approvedCount \in Nat /\ releasedCount \in Nat /\ submittedCount \in Nat
        BY <1>2 DEF TypeOK
      <4>4. Moves(count + 1, "Pending")
        BY <3>1, <4>1, <4>2, <4>3 DEF AddMilestone, counterVars, Moves, Bit, Accepted
      <4>5. "Pending" \in InUse
        BY DEF InUse, MilestoneStatuses
      <4> QED
        BY <1>2, <2>0, <4>1, <4>4, <4>5, MovePreservesCounters
    <3>2. CASE StartTimelock \/ ExtendLockTime \/ ExtendDeadline
      BY <1>2, <2>0, <3>2, StutterPreservesCounters
         DEF StartTimelock, ExtendLockTime, ExtendDeadline, msVars
    <3> QED
      BY <2>2, <3>1, <3>2 DEF TermsStep
  <2>3. CASE SettlementStep
    BY <1>2, <2>0, <2>3, StutterPreservesCounters
       DEF SettlementStep, ApproveRelease, RevokeApproval, CancelEscrow,
           ExpireEscrow, PartialCancel, SettleRemaining, msVars
  <2>4. CASE DisputeStep
    <3>1. ASSUME NEW m \in Milestones \cup {0}, RaiseDispute(m)
          PROVE  CountersInv'
      BY <1>2, <2>0, <3>1, RaiseDisputeCounters
    <3>2. CASE AssignDisputeArbiter \/ ResolveDispute \/ ClaimDisputeTimeout
               \/ SubmitRuling \/ OracleResolveDispute
      BY <1>2, <2>0, <3>2, StutterPreservesCounters
         DEF AssignDisputeArbiter, ResolveDispute, ClaimDisputeTimeout,
             SubmitRuling, OracleResolveDispute, SettleRemaining, msVars
    <3> QED
      BY <2>4, <3>1, <3>2 DEF DisputeStep
  <2>5. CASE CancellationStep
    BY <1>2, <2>0, <2>5, StutterPreservesCounters
       DEF CancellationStep, RequestCancellation, ApproveCancellation,
           ExecuteCancellation, DisputeCancellation, ConfirmCancellation,
           RejectCancellation, SettleRemaining, msVars
  <2>6. CASE SlashStep
    BY <1>2, <2>0, <2>6, StutterPreservesCounters
       DEF SlashStep, FinalizeSlash, DisputeSlash, ResolveSlashDispute, msVars
  <2>7. CASE CollectExpiredRent
    <3>1. (NoMilestones => CountersInv)'
      BY NoMilestonesNoCounts, PTL
    <3> QED
      BY <2>7, <3>1 DEF CollectExpiredRent, NoMilestones
  <2>8. CASE PassageOfTime
    BY <1>2, <2>0, <2>8, StutterPreservesCounters DEF PassageOfTime, msVars
  <2>9. CASE UNCHANGED vars
    BY <1>2, <2>0, <2>9, StutterPreservesCounters DEF vars, msVars
  <2>10. CASE BatchStep
    BY <1>2, <2>0, <2>10, BatchStepCounters
  <2> QED
    BY <1>2, <2>1, <2>2, <2>3, <2>4, <2>5, <2>6, <2>7, <2>8, <2>9, <2>10 DEF Next
<1> QED
  BY <1>1, <1>2, TypeCorrect, PTL DEF Spec

\* The O(1) counters on which completion is decided agree with the milestones,
\* whatever order of calls produced them.
THEOREM CountersCorrect == Spec => []CountersAgree
<1>1. CountersInv => CountersAgree
  BY DEF CountersInv
<1> QED
  BY <1>1, CountersInvariant, PTL

\* A released or disputed milestone is never paid again nor moved: every call
\* finds its milestone in another status, and add_milestone takes a fresh id.
THEOREM TerminalMilestonesKept == Spec => TerminalMilestonesStay
<1>1. ASSUME TypeOK, CountersInv, [Next]_vars,
             NEW m \in InStatus({"Released", "Disputed"})
      PROVE  ms'[m] = ms[m] \/ status' = "Removed"
  <2>1. /\ m \in Milestones /\ ms[m] \in {"Released", "Disputed"}
        /\ ms \in [Milestones -> MilestoneStatuses]
    BY <1>1 DEF InStatus, TypeOK
  <2>2. ASSUME NEW x \in Milestones, MilestoneStep(x)
        PROVE  ms'[m] = ms[m]
    BY <2>1, <2>2
       DEF MilestoneStep, SubmitMilestone, ApproveMilestone, RejectMilestone,
           ReleaseFunds, ProcessPendingRelease, TriggerOracleRelease, PayMilestone
  <2>3. ASSUME NEW a \in AmountChoices, NEW hasPrice \in {FALSE, HasOracle},
               AddMilestone(a, hasPrice)
        PROVE  ms'[m] = ms[m]
    <3>1. m # count + 1
      BY <1>1, <2>1 DEF CountersInv, FirstOnesInUse, TypeOK, Milestones
    <3> QED
      BY <2>1, <2>3, <3>1 DEF AddMilestone
  <2>4. ASSUME NEW x \in Milestones \cup {0}, RaiseDispute(x)
        PROVE  ms'[m] = ms[m]
    BY <2>1, <2>4 DEF RaiseDispute, InStatus
  <2>7. CASE BatchStep
    <3>1. ASSUME NEW x \in AmountChoices, NEW y \in AmountChoices, BatchAddMilestones(x, y)
          PROVE  ms'[m] = ms[m]
      <4>1. m # count + 1 /\ m # count + 2
        BY <1>1, <2>1 DEF CountersInv, FirstOnesInUse, TypeOK, Milestones
      <4> QED
        BY <2>1, <3>1, <4>1 DEF BatchAddMilestones
    <3>2. ASSUME NEW a \in Milestones, NEW b \in Milestones \cup {0},
                 BatchApproveMilestones(a, b) \/ BatchReleaseFunds(a, b)
          PROVE  ms'[m] = ms[m]
      <4>1. 0 \notin Milestones
        BY DEF Milestones
      <4>2. m \notin {a, b}
        BY <2>1, <3>2, <4>1 DEF BatchApproveMilestones, BatchReleaseFunds, InStatus
      <4> QED
        BY <2>1, <3>2, <4>2 DEF BatchApproveMilestones, BatchReleaseFunds, MoveBatch
    <3> QED
      BY <2>7, <3>1, <3>2, BatchIds DEF BatchStep
  <2>5. CASE UNCHANGED ms
    BY <2>5
  <2>6. CASE CollectExpiredRent
    BY <2>6 DEF CollectExpiredRent
  <2> QED
    BY <1>1, <2>2, <2>3, <2>4, <2>5, <2>6, <2>7
       DEF Next, vars, msVars, TermsStep, StartTimelock, ExtendLockTime, ExtendDeadline,
           SettlementStep, ApproveRelease, RevokeApproval, CancelEscrow, ExpireEscrow,
           PartialCancel, SettleRemaining, DisputeStep, AssignDisputeArbiter,
           ResolveDispute, ClaimDisputeTimeout, SubmitRuling, OracleResolveDispute,
           CancellationStep, RequestCancellation, ApproveCancellation,
           ExecuteCancellation, DisputeCancellation, ConfirmCancellation,
           RejectCancellation, SlashStep, FinalizeSlash, DisputeSlash,
           ResolveSlashDispute, PassageOfTime
<1>2. TypeOK /\ CountersInv /\ [Next]_vars =>
        \A m \in InStatus({"Released", "Disputed"}) :
           ms'[m] = ms[m] \/ status' = "Removed"
  BY <1>1
<1> QED
  BY <1>2, TypeCorrect, CountersInvariant, PTL DEF Spec, TerminalMilestonesStay

----------------------------------------------------------------------------
(* What can still be paid *)

Unpaid == MilestoneStatuses \ {"absent", "Released"}

\* What each milestone may still cost the escrow, and all of them together.
Owed == [m \in Milestones |-> IF ms[m] \in Unpaid THEN amount[m] ELSE 0]
Due  == Sum(Owed, Milestones)

LEMMA MilestonesFinite == IsFiniteSet(Milestones)
  BY FS_Interval, ConstantsAssumption DEF Milestones

OwedTyped ==
    /\ \A m \in Milestones : Owed[m] \in Nat /\ Owed[m] <= Due
    /\ Due \in Nat

LEMMA OwedTypes == TypeOK => OwedTyped
<1> SUFFICES ASSUME TypeOK
             PROVE  OwedTyped
  OBVIOUS
<1>1. \A m \in Milestones : Owed[m] \in Nat
  BY DEF Owed, TypeOK
<1>2. Due \in Nat
  BY <1>1, MilestonesFinite, SumType DEF Due
<1>3. \A m \in Milestones : Owed[m] <= Due
  BY <1>1, MilestonesFinite, SumOfMember DEF Due
<1> QED
  BY <1>1, <1>2, <1>3 DEF OwedTyped

LEMMA OwedTypesNext == TypeOK' => OwedTyped'
  BY OwedTypes, PTL

\* Due is the sum that Solvent speaks of.
LEMMA DueIsSum ==
    ASSUME TypeOK
    PROVE  SumOf(InStatus(MilestoneStatuses \ {"absent", "Released"})) = Due
<1> DEFINE U == InStatus(Unpaid)
<1>1. /\ U \subseteq Milestones
      /\ \A m \in U : Owed[m] = amount[m]
      /\ \A m \in Milestones \ U : Owed[m] = 0
      /\ \A m \in Milestones : Owed[m] \in Int
  BY OwedTypes DEF InStatus, Owed, OwedTyped
<1> HIDE DEF U
<1>2. IsFiniteSet(U) /\ IsFiniteSet(Milestones \ U)
  BY <1>1, MilestonesFinite, FS_Subset
<1>3. Sum(Owed, U) = Sum(amount, U)
  BY <1>1, <1>2, SumSame
<1>4. Sum(Owed, Milestones \ U) = 0
  <2>1. Sum(Owed, Milestones \ U) = 0 * Cardinality(Milestones \ U)
    BY <1>1, <1>2, SumConstant
  <2> QED
    BY <2>1, <1>2, FS_CardinalityType
<1>5. Due = Sum(Owed, U) + Sum(Owed, Milestones \ U)
  BY <1>1, MilestonesFinite, SumParts DEF Due
<1>6. Sum(Owed, U) \in Int
  BY <1>1, <1>2, SumType
<1>7. Due = Sum(amount, U)
  BY <1>3, <1>4, <1>5, <1>6
<1> QED
  BY <1>7 DEF SumOf, Sum, U, Unpaid

\* How Due follows the milestones.
LEMMA DueSame ==
    ASSUME TypeOK, TypeOK', \A m \in Milestones : Owed'[m] = Owed[m]
    PROVE  Due' = Due
<1>1. \A m \in Milestones : Owed[m] \in Int /\ Owed[m] = Owed'[m]
  BY OwedTypes DEF OwedTyped
<1>2. Sum(Owed, Milestones) = Sum(Owed', Milestones)
  BY <1>1, MilestonesFinite, SumSame
<1> QED
  BY <1>2 DEF Due

LEMMA DueChanged ==
    ASSUME TypeOK, TypeOK', NEW m \in Milestones,
           \A x \in Milestones : x # m => Owed'[x] = Owed[x]
    PROVE  Due' = Due - Owed[m] + Owed'[m]
<1> DEFINE f == Owed
           g == Owed'
<1>1. \A x \in Milestones : f[x] \in Int /\ g[x] \in Int
  BY OwedTypes, OwedTypesNext DEF OwedTyped
<1>2. \A x \in Milestones : x # m => g[x] = f[x]
  OBVIOUS
<1>3. Due = Sum(f, Milestones) /\ Due' = Sum(g, Milestones)
  BY DEF Due
<1>4. Owed[m] = f[m] /\ Owed'[m] = g[m]
  OBVIOUS
<1> HIDE DEF f, g
<1>5. Sum(g, Milestones) = Sum(f, Milestones) - f[m] + g[m]
  BY <1>1, <1>2, MilestonesFinite, SumChange
<1> QED
  BY <1>3, <1>4, <1>5

LEMMA DueChangedTwice ==
    ASSUME TypeOK, TypeOK', NEW a \in Milestones, NEW b \in Milestones, a # b,
           \A x \in Milestones : x \notin {a, b} => Owed'[x] = Owed[x]
    PROVE  Due' = Due - Owed[a] - Owed[b] + Owed'[a] + Owed'[b]
<1> DEFINE f == Owed
           g == Owed'
<1>1. \A x \in Milestones : f[x] \in Int /\ g[x] \in Int
  BY OwedTypes, OwedTypesNext DEF OwedTyped
<1>2. \A x \in Milestones : x \notin {a, b} => g[x] = f[x]
  OBVIOUS
<1>3. Due = Sum(f, Milestones) /\ Due' = Sum(g, Milestones)
  BY DEF Due
<1>4. Owed[a] = f[a] /\ Owed'[a] = g[a] /\ Owed[b] = f[b] /\ Owed'[b] = g[b]
  OBVIOUS
<1> HIDE DEF f, g
<1>5. Sum(g, Milestones) = Sum(f, Milestones) - f[a] - f[b] + g[a] + g[b]
  BY <1>1, <1>2, MilestonesFinite, SumChangeTwo
<1> QED
  BY <1>3, <1>4, <1>5

\* A milestone that is paid is no longer due; one that moves without being paid
\* stays due; one that is added becomes due.
LEMMA DuePaid ==
    ASSUME TypeOK, TypeOK', NEW m \in Milestones, ms[m] \in Unpaid,
           ms' = [ms EXCEPT ![m] = "Released"], UNCHANGED amount
    PROVE  Due' = Due - amount[m] /\ amount[m] \in Nat
<1>1. ms \in [Milestones -> MilestoneStatuses] /\ amount[m] \in Nat
  BY DEF TypeOK
<1>2. \A x \in Milestones : x # m => Owed'[x] = Owed[x]
  BY <1>1 DEF Owed
<1>3. Owed[m] = amount[m] /\ Owed'[m] = 0
  BY <1>1 DEF Owed, Unpaid
<1>4. Due' = Due - Owed[m] + Owed'[m] /\ Due \in Nat
  BY <1>2, DueChanged, OwedTypes DEF OwedTyped
<1> QED
  BY <1>1, <1>3, <1>4

LEMMA DueMoved ==
    ASSUME TypeOK, TypeOK', NEW m \in Milestones, ms[m] \in Unpaid, NEW t \in Unpaid,
           ms' = [ms EXCEPT ![m] = t], UNCHANGED amount
    PROVE  Due' = Due
<1>1. ms \in [Milestones -> MilestoneStatuses]
  BY DEF TypeOK
<1>2. \A x \in Milestones : Owed'[x] = Owed[x]
  BY <1>1 DEF Owed
<1> QED
  BY <1>2, DueSame

LEMMA DueAdded ==
    ASSUME TypeOK, TypeOK', NEW m \in Milestones, ms[m] = "absent", NEW x \in Nat,
           ms' = [ms EXCEPT ![m] = "Pending"], amount' = [amount EXCEPT ![m] = x]
    PROVE  Due' = Due + x
<1>1. ms \in [Milestones -> MilestoneStatuses] /\ amount \in [Milestones -> Nat]
  BY DEF TypeOK
<1>2. \A y \in Milestones : y # m => Owed'[y] = Owed[y]
  BY <1>1 DEF Owed
<1>3. Owed[m] = 0 /\ Owed'[m] = x
  BY <1>1 DEF Owed, Unpaid, MilestoneStatuses
<1>4. Due' = Due - Owed[m] + Owed'[m] /\ Due \in Nat
  BY <1>2, DueChanged, OwedTypes DEF OwedTyped
<1> QED
  BY <1>3, <1>4

LEMMA DueAddedTwice ==
    ASSUME TypeOK, TypeOK', NEW m \in Milestones, NEW n \in Milestones, m # n,
           ms[m] = "absent", ms[n] = "absent", NEW x \in Nat, NEW y \in Nat,
           ms' = [ms EXCEPT ![m] = "Pending", ![n] = "Pending"],
           amount' = [amount EXCEPT ![m] = x, ![n] = y]
    PROVE  Due' = Due + x + y
<1>1. ms \in [Milestones -> MilestoneStatuses] /\ amount \in [Milestones -> Nat]
  BY DEF TypeOK
<1>2. \A z \in Milestones : z \notin {m, n} => Owed'[z] = Owed[z]
  BY <1>1 DEF Owed
<1>3. Owed[m] = 0 /\ Owed'[m] = x /\ Owed[n] = 0 /\ Owed'[n] = y
  BY <1>1 DEF Owed, Unpaid, MilestoneStatuses
<1>4. Due' = Due - Owed[m] - Owed[n] + Owed'[m] + Owed'[n] /\ Due \in Nat
  BY <1>2, DueChangedTwice, OwedTypes DEF OwedTyped
<1> QED
  BY <1>3, <1>4

\* A batch pays each milestone it names, once if it names it once.
LEMMA DuePaidBatch ==
    ASSUME TypeOK, TypeOK', NEW a \in Milestones, NEW b \in Milestones \cup {0},
           {a, b} \ {0} \subseteq InStatus(Unpaid), MoveBatch(a, b, "Released"),
           UNCHANGED amount
    PROVE  /\ Due' <= Due /\ BatchAmount(a, b) \in Nat
           /\ a # b => Due' = Due - BatchAmount(a, b)
<1>1. /\ ms \in [Milestones -> MilestoneStatuses] /\ amount \in [Milestones -> Nat]
      /\ 0 \notin Milestones /\ Due \in Nat
  <2>1. ms \in [Milestones -> MilestoneStatuses] /\ amount \in [Milestones -> Nat]
    BY DEF TypeOK
  <2>2. 0 \notin Milestones
    BY DEF Milestones
  <2> QED
    BY <2>1, <2>2, OwedTypes DEF OwedTyped
<1>2. /\ Owed[a] = amount[a] /\ Owed'[a] = 0
      /\ b # 0 => (b \in Milestones /\ Owed[b] = amount[b] /\ Owed'[b] = 0)
      /\ \A x \in Milestones : x \notin {a, b} => Owed'[x] = Owed[x]
      /\ amount[a] \in Nat /\ (b # 0 => amount[b] \in Nat)
  BY <1>1 DEF Owed, MoveBatch, InStatus, Unpaid
<1>3. CASE b = 0 \/ a = b
  <2>1. \A x \in Milestones : x # a => Owed'[x] = Owed[x]
    BY <1>1, <1>2, <1>3
  <2>2. Due' = Due - Owed[a] + Owed'[a]
    BY <2>1, DueChanged
  <2> QED
    BY <1>1, <1>2, <1>3, <2>2 DEF BatchAmount
<1>4. CASE b # 0 /\ a # b
  <2>1. Due' = Due - Owed[a] - Owed[b] + Owed'[a] + Owed'[b]
    BY <1>2, <1>4, DueChangedTwice
  <2> QED
    BY <1>1, <1>2, <1>4, <2>1 DEF BatchAmount
<1> QED
  BY <1>3, <1>4

LEMMA DueMovedBatch ==
    ASSUME TypeOK, TypeOK', NEW a \in Milestones, NEW b \in Milestones \cup {0},
           {a, b} \ {0} \subseteq InStatus(Unpaid), NEW t \in Unpaid, MoveBatch(a, b, t),
           UNCHANGED amount
    PROVE  Due' = Due
<1>1. ms \in [Milestones -> MilestoneStatuses] /\ 0 \notin Milestones
  BY DEF TypeOK, Milestones
<1>2. \A x \in Milestones : Owed'[x] = Owed[x]
  BY <1>1 DEF Owed, MoveBatch, InStatus
<1> QED
  BY <1>2, DueSame

----------------------------------------------------------------------------
(* What each call does to the money *)

Final == status \in TerminalStatuses /\ request = None

\* The statuses and requests from which an open escrow can still be reached.
MayPay == status \in OpenStatuses \/ (request # None /\ ~request.disputed)

\* A request that was disputed is settled with its dispute and cannot be disputed
\* again, so dispute_cancellation reopens no escrow whose balance is spent.
DisputedRequests == (status = "Disputed" /\ request # None) => request.disputed

LEMMA FinalCannotPay == MayPay => ~Final
  BY DEF MayPay, Final, OpenStatuses, TerminalStatuses

LEMMA FinalCannotPayNext == MayPay' => ~Final'
  BY FinalCannotPay, PTL

SlashKept == SlashHeld' = SlashHeld

\* No amount moves, and no escrow is reopened but by an irregular call.
Idles ==
    /\ UNCHANGED <<remaining, held, stranded, allocated>> /\ SlashKept
    /\ Due' = Due
    /\ (Regular' /\ MayPay') => MayPay

\* Milestones are added; after a partial refund, irregularly.
AddsDue ==
    /\ MayPay
    /\ UNCHANGED <<remaining, held, stranded>> /\ SlashKept
    /\ Due' - Due = allocated' - allocated
    /\ Regular' => "partialCancel" \notin history

\* Milestones are paid: each once and in an open escrow, or irregularly.
PaysDue ==
    /\ \E x \in Nat : /\ remaining' = remaining - x /\ held' = held - x
                      /\ Regular' => Due' = Due - x
    /\ Due' <= Due
    /\ UNCHANGED <<stranded, allocated>> /\ SlashKept
    /\ Regular' => status \in OpenStatuses

\* What is not allocated is refunded.
Refunds ==
    /\ status = "Active" /\ remaining > allocated
    /\ remaining' = allocated /\ held' = held - (remaining - allocated)
    /\ UNCHANGED <<stranded, allocated>> /\ SlashKept
    /\ Due' = Due
    /\ "partialCancel" \in history'

\* All that remains is paid out.
Settles ==
    /\ ~Final /\ ~MayPay'
    /\ remaining' = 0 /\ held' = held - Payable(remaining)
    /\ UNCHANGED <<stranded, allocated>> /\ SlashKept
    /\ Due' = Due

\* All that remains is paid out but for a slash.
Executes ==
    /\ ~Final /\ ~MayPay'
    /\ SlashHeld = 0 /\ SlashHeld' = SlashAmount(remaining)
    /\ remaining' = 0 /\ held' = held - Payable(remaining - SlashAmount(remaining))
    /\ UNCHANGED <<stranded, allocated>>
    /\ Due' = Due

\* The slash is paid to one of the parties, or upheld and left behind.
EndsSlash ==
    /\ Final /\ Final'
    /\ SlashHeld' = 0
    /\ \/ held' = held - SlashHeld /\ stranded' = stranded
       \/ held' = held /\ stranded' = stranded + SlashHeld
    /\ UNCHANGED <<remaining, allocated>>
    /\ Due' = Due

\* Rent expiry refunds what remains and deletes the records.
Removes ==
    /\ Final'
    /\ remaining' = 0 /\ held' = held - Payable(remaining)
    /\ stranded' = stranded + SlashHeld /\ SlashHeld' = 0
    /\ Due' = 0 /\ allocated' = 0

MovesMoney ==
    Idles \/ AddsDue \/ PaysDue \/ Refunds \/ Settles \/ Executes \/ EndsSlash \/ Removes

LEMMA DueUnchanged == UNCHANGED <<ms, amount>> => Due' = Due
  BY DEF Due, Owed

\* Every call of an open escrow that moves no amount.
LEMMA OpenIdles ==
    ASSUME status \in OpenStatuses, UNCHANGED <<moneyVars, allocated, slash>>, Due' = Due
    PROVE  MovesMoney
  BY DEF MovesMoney, Idles, MayPay, SlashKept, SlashHeld, moneyVars

\* release_funds and its kin, one milestone.
LEMMA PayMilestoneMoney ==
    ASSUME TypeOK, TypeOK', NEW m \in Milestones, ms[m] \in Unpaid, PayMilestone(m),
           Regular' => status \in OpenStatuses
    PROVE  MovesMoney
<1>1. /\ remaining' = remaining - amount[m] /\ held' = held - amount[m]
      /\ ms' = [ms EXCEPT ![m] = "Released"]
      /\ UNCHANGED <<amount, stranded, allocated, slash>>
  BY DEF PayMilestone, cancelVars
<1>2. Due' = Due - amount[m] /\ amount[m] \in Nat
  BY <1>1, DuePaid
<1>3. Due' <= Due
  BY <1>2, OwedTypes DEF OwedTyped
<1> QED
  BY <1>1, <1>2, <1>3 DEF MovesMoney, PaysDue, SlashKept, SlashHeld

LEMMA MilestoneStepMoney ==
    ASSUME TypeOK, TypeOK', NEW m \in Milestones, MilestoneStep(m)
    PROVE  MovesMoney
<1>1. "Active" \in OpenStatuses /\ {"Pending", "Submitted", "Approved", "Rejected"} \subseteq Unpaid
  BY DEF OpenStatuses, Unpaid, MilestoneStatuses
<1>2. CASE SubmitMilestone(m) \/ RejectMilestone(m)
  <2>1. /\ status \in OpenStatuses /\ UNCHANGED <<moneyVars, allocated, slash, amount>>
        /\ ms[m] \in Unpaid
        /\ \E t \in Unpaid : ms' = [ms EXCEPT ![m] = t]
    BY <1>1, <1>2 DEF SubmitMilestone, RejectMilestone, cancelVars
  <2>2. Due' = Due
    BY <2>1, DueMoved
  <2> QED
    BY <2>1, <2>2, OpenIdles
<1>3. CASE ApproveMilestone(m)
  <2>1. /\ status \in OpenStatuses /\ ms[m] \in Unpaid
        /\ UNCHANGED <<stranded, allocated, slash, amount>>
    BY <1>1, <1>3 DEF ApproveMilestone, cancelVars
  <2>2. CASE ms' = [ms EXCEPT ![m] = "Approved"] /\ UNCHANGED <<remaining, held>>
    <3>1. Due' = Due
      BY <1>1, <2>1, <2>2, DueMoved
    <3> QED
      BY <2>1, <2>2, <3>1, OpenIdles DEF moneyVars
  <2>3. CASE /\ ms' = [ms EXCEPT ![m] = "Released"]
             /\ remaining' = remaining - amount[m] /\ held' = held - amount[m]
    <3>1. Due' = Due - amount[m] /\ amount[m] \in Nat
      BY <2>1, <2>3, DuePaid
    <3>2. Due' <= Due
      BY <3>1, OwedTypes DEF OwedTyped
    <3> QED
      BY <2>1, <2>3, <3>1, <3>2 DEF MovesMoney, PaysDue, SlashKept, SlashHeld
  <2> QED
    BY <1>3, <2>2, <2>3 DEF ApproveMilestone
<1>4. CASE PayMilestone(m) /\ ms[m] \in Unpaid /\ (Regular' => status \in OpenStatuses)
  BY <1>4, PayMilestoneMoney
<1>5. ASSUME NEW isAdmin \in BOOLEAN, ReleaseFunds(m, isAdmin)
      PROVE  PayMilestone(m) /\ ms[m] \in Unpaid /\ (Regular' => status \in OpenStatuses)
  <2>1. status \in OpenStatuses \/ "releaseAfterSettlement" \in history'
    BY <1>5 DEF ReleaseFunds, TypeOK
  <2> QED
    BY <1>1, <1>5, <2>1 DEF ReleaseFunds, Regular
<1>6. ASSUME ProcessPendingRelease(m) \/ TriggerOracleRelease(m)
      PROVE  PayMilestone(m) /\ ms[m] \in Unpaid /\ (Regular' => status \in OpenStatuses)
  BY <1>1, <1>6 DEF ProcessPendingRelease, TriggerOracleRelease
<1> QED
  BY <1>2, <1>3, <1>4, <1>5, <1>6 DEF MilestoneStep

\* Adding milestones after a partial refund is irregular.
LEMMA AddsAreDue ==
    ASSUME status = "Active", UNCHANGED <<moneyVars, slash>>,
           Due' - Due = allocated' - allocated,
           history' = IF "partialCancel" \in history
                        THEN history \cup {"addAfterPartialCancel"} ELSE history
    PROVE  MovesMoney
<1>1. MayPay
  BY DEF MayPay, OpenStatuses
<1>2. Regular' => "partialCancel" \notin history
  BY DEF Regular
<1> QED
  BY <1>1, <1>2 DEF MovesMoney, AddsDue, SlashKept, SlashHeld, moneyVars

LEMMA TermsStepMoney ==
    ASSUME TypeOK, TypeOK', CountersInv, TermsStep
    PROVE  MovesMoney
<1>1. ASSUME NEW a \in AmountChoices, NEW hasPrice \in {FALSE, HasOracle},
             AddMilestone(a, hasPrice)
      PROVE  MovesMoney
  <2>1. a \in Nat /\ count + 1 \in Milestones /\ allocated \in Nat /\ count \in Nat
    BY <1>1, ConstantsAssumption DEF AddMilestone, TypeOK, Milestones
  <2>2. ms[count + 1] = "absent"
    BY <2>1 DEF CountersInv, FirstOnesInUse
  <2>3. /\ ms' = [ms EXCEPT ![count + 1] = "Pending"]
        /\ amount' = [amount EXCEPT ![count + 1] = a]
        /\ allocated' = allocated + a
        /\ status = "Active" /\ UNCHANGED <<moneyVars, slash>>
        /\ history' = IF "partialCancel" \in history
                        THEN history \cup {"addAfterPartialCancel"} ELSE history
    BY <1>1 DEF AddMilestone, cancelVars
  <2>4. Due' = Due + a /\ Due \in Nat
    BY <2>1, <2>2, <2>3, DueAdded, OwedTypes DEF OwedTyped
  <2>5. Due' - Due = allocated' - allocated
    BY <2>1, <2>3, <2>4
  <2> QED
    BY <2>3, <2>5, AddsAreDue
<1>2. CASE StartTimelock \/ ExtendLockTime
  <2>1. status \in OpenStatuses /\ UNCHANGED <<moneyVars, msVars, slash>>
    BY <1>2 DEF StartTimelock, ExtendLockTime, cancelVars, OpenStatuses
  <2> QED
    BY <2>1, DueUnchanged, OpenIdles DEF msVars
<1>3. CASE ExtendDeadline
  <2>1. UNCHANGED <<moneyVars, msVars, status, request, slash>>
    BY <1>3 DEF ExtendDeadline, cancelVars
  <2> QED
    BY <2>1, DueUnchanged DEF MovesMoney, Idles, MayPay, SlashKept, SlashHeld, moneyVars, msVars
<1> QED
  BY <1>1, <1>2, <1>3 DEF TermsStep

LEMMA BatchStepMoney ==
    ASSUME TypeOK, TypeOK', CountersInv, BatchStep
    PROVE  MovesMoney
<1>1. ASSUME NEW x \in AmountChoices, NEW y \in AmountChoices, BatchAddMilestones(x, y)
      PROVE  MovesMoney
  <2>1. /\ x \in Nat /\ y \in Nat /\ allocated \in Nat /\ count \in Nat
        /\ count + 1 \in Milestones /\ count + 2 \in Milestones /\ count + 1 # count + 2
    BY <1>1, ConstantsAssumption DEF BatchAddMilestones, TypeOK, Milestones
  <2>2. ms[count + 1] = "absent" /\ ms[count + 2] = "absent"
    BY <2>1 DEF CountersInv, FirstOnesInUse
  <2>3. /\ ms' = [ms EXCEPT ![count + 1] = "Pending", ![count + 2] = "Pending"]
        /\ amount' = [amount EXCEPT ![count + 1] = x, ![count + 2] = y]
        /\ allocated' = allocated + x + y
        /\ status = "Active" /\ UNCHANGED <<moneyVars, slash>>
        /\ history' = IF "partialCancel" \in history
                        THEN history \cup {"addAfterPartialCancel"} ELSE history
    BY <1>1 DEF BatchAddMilestones, cancelVars
  <2>4. Due' = Due + x + y /\ Due \in Nat
    <3> DEFINE m == count + 1
               n == count + 2
    <3>1. /\ m \in Milestones /\ n \in Milestones /\ m # n
          /\ ms[m] = "absent" /\ ms[n] = "absent" /\ x \in Nat /\ y \in Nat
          /\ ms' = [ms EXCEPT ![m] = "Pending", ![n] = "Pending"]
          /\ amount' = [amount EXCEPT ![m] = x, ![n] = y]
      BY <2>1, <2>2, <2>3
    <3> HIDE DEF m, n
    <3>2. Due' = Due + x + y
      BY <3>1, DueAddedTwice
    <3> QED
      BY <3>2, OwedTypes DEF OwedTyped
  <2>5. Due' - Due = allocated' - allocated
    BY <2>1, <2>3, <2>4
  <2> QED
    BY <2>3, <2>5, AddsAreDue
<1>2. ASSUME NEW a \in Milestones, NEW b \in Milestones \cup {0},
             {a, b} \ {0} \subseteq InStatus(Unpaid), MoveBatch(a, b, "Released"),
             UNCHANGED <<amount, stranded, allocated, slash>>,
             remaining' = remaining - BatchAmount(a, b), held' = held - BatchAmount(a, b),
             Repeated(a, b) \subseteq history', Regular' => status \in OpenStatuses
      PROVE  MovesMoney
  <2>1. /\ Due' <= Due /\ BatchAmount(a, b) \in Nat
        /\ a # b => Due' = Due - BatchAmount(a, b)
    BY <1>2, DuePaidBatch
  <2>2. Regular' => a # b
    BY <1>2 DEF Repeated, Regular
  <2> QED
    BY <1>2, <2>1, <2>2 DEF MovesMoney, PaysDue, SlashKept, SlashHeld
<1>3. ASSUME NEW a \in Milestones, NEW b \in Milestones \cup {0}, BatchApproveMilestones(a, b)
      PROVE  MovesMoney
  <2>1. /\ status \in OpenStatuses /\ {a, b} \ {0} \subseteq InStatus(Unpaid)
        /\ UNCHANGED <<amount, stranded, allocated, slash>>
        /\ Repeated(a, b) \subseteq history'
    BY <1>3 DEF BatchApproveMilestones, cancelVars, OpenStatuses, InStatus, Unpaid,
                MilestoneStatuses
  <2>2. CASE timelock = "running"
    <3>1. MoveBatch(a, b, "Approved") /\ UNCHANGED <<remaining, held>>
      BY <1>3, <2>2 DEF BatchApproveMilestones
    <3>2. "Approved" \in Unpaid
      BY DEF Unpaid, MilestoneStatuses
    <3>3. Due' = Due
      BY <2>1, <3>1, <3>2, DueMovedBatch
    <3> QED
      BY <2>1, <3>1, <3>3, OpenIdles DEF moneyVars
  <2>3. CASE timelock # "running"
    <3>1. /\ MoveBatch(a, b, "Released")
          /\ remaining' = remaining - BatchAmount(a, b) /\ held' = held - BatchAmount(a, b)
      BY <1>3, <2>3 DEF BatchApproveMilestones
    <3> QED
      BY <1>2, <2>1, <3>1
  <2> QED
    BY <2>2, <2>3
<1>4. ASSUME NEW a \in Milestones, NEW b \in Milestones \cup {0}, BatchReleaseFunds(a, b)
      PROVE  MovesMoney
  <2>1. /\ {a, b} \ {0} \subseteq InStatus(Unpaid)
        /\ UNCHANGED <<amount, stranded, allocated, slash>>
        /\ Repeated(a, b) \subseteq history' /\ MoveBatch(a, b, "Released")
        /\ remaining' = remaining - BatchAmount(a, b) /\ held' = held - BatchAmount(a, b)
    BY <1>4 DEF BatchReleaseFunds, cancelVars, InStatus, Unpaid, MilestoneStatuses
  <2>2. status \in OpenStatuses \/ "releaseAfterSettlement" \in history'
    BY <1>4 DEF BatchReleaseFunds, TypeOK
  <2>3. Regular' => status \in OpenStatuses
    BY <2>2 DEF Regular
  <2> QED
    BY <1>2, <2>1, <2>3
<1> QED
  BY <1>1, <1>3, <1>4, BatchIds DEF BatchStep

\* The calls that pay out whatever remains.
LEMMA SettleRemainingMoney ==
    ASSUME NEW st \in TerminalStatuses, SettleRemaining(st), ~Final,
           UNCHANGED <<stranded, slash>>, request' = None \/ request'.disputed
    PROVE  MovesMoney
<1>1. ~MayPay'
  BY DEF SettleRemaining, MayPay, TerminalStatuses, OpenStatuses
<1>2. /\ remaining' = 0 /\ held' = held - Payable(remaining) /\ UNCHANGED allocated
      /\ Due' = Due
  BY DueUnchanged DEF SettleRemaining, msVars
<1> QED
  BY <1>1, <1>2 DEF MovesMoney, Settles, SlashKept, SlashHeld

LEMMA SettlementStepMoney ==
    ASSUME TypeOK, TypeOK', CancellationDiscipline, SettlementStep
    PROVE  MovesMoney
<1>1. /\ status = "Active" /\ request = None /\ UNCHANGED <<request, slash>> /\ ~Final
      /\ status \in OpenStatuses
  BY DEF SettlementStep, ApproveRelease, RevokeApproval, CancelEscrow, ExpireEscrow,
         PartialCancel, cancelVars, CancellationDiscipline, Final, TerminalStatuses, OpenStatuses
<1>2. ASSUME NEW st \in TerminalStatuses, SettleRemaining(st), UNCHANGED stranded
      PROVE  MovesMoney
  BY <1>1, <1>2, SettleRemainingMoney
<1>3. {"Completed", "Cancelled", "Expired"} \subseteq TerminalStatuses
  BY DEF TerminalStatuses
<1>4. CASE UNCHANGED <<moneyVars, msVars>>
  BY <1>1, <1>4, DueUnchanged, OpenIdles DEF msVars
<1>5. CASE PartialCancel
  <2>1. /\ remaining - allocated > 0
        /\ remaining' = remaining - (remaining - allocated)
        /\ held' = held - (remaining - allocated)
        /\ UNCHANGED <<stranded, msVars>> /\ "partialCancel" \in history'
    BY <1>5 DEF PartialCancel
  <2>2. remaining \in Int /\ allocated \in Int
    BY DEF TypeOK
  <2>3. remaining > allocated /\ remaining' = allocated
    BY <2>1, <2>2
  <2> QED
    BY <1>1, <2>1, <2>3, DueUnchanged DEF MovesMoney, Refunds, SlashKept, SlashHeld, msVars
<1>6. ASSUME NEW a \in Approvers, ApproveRelease(a)
      PROVE  MovesMoney
  <2>1. \/ SettleRemaining("Completed") /\ UNCHANGED stranded
        \/ UNCHANGED <<moneyVars, msVars>>
    BY <1>6 DEF ApproveRelease, moneyVars
  <2> QED
    BY <1>2, <1>3, <1>4, <2>1
<1>7. ASSUME NEW a \in Approvers, RevokeApproval(a)
      PROVE  MovesMoney
  BY <1>4, <1>7 DEF RevokeApproval
<1>8. CASE CancelEscrow \/ ExpireEscrow
  BY <1>2, <1>3, <1>8 DEF CancelEscrow, ExpireEscrow
<1> QED
  BY <1>5, <1>6, <1>7, <1>8 DEF SettlementStep

LEMMA DisputeStepMoney ==
    ASSUME TypeOK, TypeOK', DisputedRequests, DisputeStep
    PROVE  MovesMoney
<1>1. /\ status \in {"Active", "Disputed"} /\ UNCHANGED <<request, slash>> /\ ~Final
      /\ status \in OpenStatuses
  BY DEF DisputeStep, RaiseDispute, AssignDisputeArbiter, ResolveDispute,
         ClaimDisputeTimeout, SubmitRuling, OracleResolveDispute, cancelVars, Final,
         TerminalStatuses, OpenStatuses
<1>2. ASSUME NEW m \in Milestones \cup {0}, RaiseDispute(m)
      PROVE  MovesMoney
  <2>1. UNCHANGED <<moneyVars, allocated, amount, slash>>
    BY <1>2 DEF RaiseDispute, cancelVars
  <2>2. Due' = Due
    <3>1. CASE m \in InStatus({"Pending", "Submitted"})
      <4>1. /\ m \in Milestones /\ ms[m] \in Unpaid /\ "Disputed" \in Unpaid
            /\ ms' = [ms EXCEPT ![m] = "Disputed"]
        BY <1>2, <3>1 DEF RaiseDispute, InStatus, Unpaid, MilestoneStatuses
      <4> QED
        BY <2>1, <4>1, DueMoved
    <3>2. CASE m \notin InStatus({"Pending", "Submitted"})
      BY <1>2, <2>1, <3>2, DueUnchanged DEF RaiseDispute
    <3> QED
      BY <3>1, <3>2
  <2> QED
    BY <1>1, <2>1, <2>2, OpenIdles
<1>3. CASE AssignDisputeArbiter
  <2>1. UNCHANGED <<moneyVars, msVars>>
    BY <1>3 DEF AssignDisputeArbiter
  <2> QED
    BY <1>1, <2>1, DueUnchanged, OpenIdles DEF msVars
<1>4. CASE ResolveDispute \/ ClaimDisputeTimeout \/ SubmitRuling \/ OracleResolveDispute
  <2>1. SettleRemaining("Completed") /\ UNCHANGED stranded /\ status = "Disputed"
    BY <1>4 DEF ResolveDispute, ClaimDisputeTimeout, SubmitRuling, OracleResolveDispute
  <2>2. request' = None \/ request'.disputed
    BY <1>1, <2>1 DEF DisputedRequests
  <2>3. "Completed" \in TerminalStatuses
    BY DEF TerminalStatuses
  <2> QED
    BY <1>1, <2>1, <2>2, <2>3, SettleRemainingMoney
<1> QED
  BY <1>2, <1>3, <1>4 DEF DisputeStep

LEMMA CancellationStepMoney ==
    ASSUME TypeOK, TypeOK', CancellationStep
    PROVE  MovesMoney
<1>1. ASSUME UNCHANGED <<moneyVars, msVars, slash>>, (Regular' /\ MayPay') => MayPay
      PROVE  MovesMoney
  BY <1>1, DueUnchanged DEF MovesMoney, Idles, SlashKept, SlashHeld, moneyVars, msVars
<1>2. ASSUME NEW p \in Parties, RequestCancellation(p)
      PROVE  MovesMoney
  <2>1. MayPay /\ UNCHANGED <<moneyVars, msVars, slash>>
    BY <1>2 DEF RequestCancellation, MayPay, OpenStatuses
  <2> QED
    BY <1>1, <2>1
<1>3. CASE ApproveCancellation
  <2>1. /\ UNCHANGED <<moneyVars, msVars, slash, status>> /\ request # None
        /\ request'.disputed = request.disputed
    BY <1>3 DEF ApproveCancellation, TypeOK, Requests, None
  <2> QED
    BY <1>1, <2>1 DEF MayPay
<1>4. CASE DisputeCancellation
  <2>1. UNCHANGED <<moneyVars, msVars, slash>> /\ MayPay
    BY <1>4 DEF DisputeCancellation, MayPay
  <2> QED
    BY <1>1, <2>1
<1>5. CASE RejectCancellation
  <2>1. /\ UNCHANGED <<moneyVars, msVars, slash>>
        /\ status \in OpenStatuses \/ "revived" \in history'
    BY <1>5 DEF RejectCancellation, TypeOK
  <2>2. Regular' => MayPay
    BY <2>1 DEF Regular, MayPay
  <2> QED
    BY <1>1, <2>1, <2>2
<1>6. CASE ConfirmCancellation
  <2>1. /\ ~Final /\ SettleRemaining("Cancelled") /\ UNCHANGED <<stranded, slash>>
        /\ request' = None /\ "Cancelled" \in TerminalStatuses
    BY <1>6 DEF ConfirmCancellation, Final, TerminalStatuses
  <2> QED
    BY <2>1, SettleRemainingMoney
<1>7. CASE ExecuteCancellation
  <2>1. /\ ~Final /\ ~MayPay'
        /\ remaining' = 0 /\ held' = held - Payable(remaining - SlashAmount(remaining))
        /\ UNCHANGED <<stranded, msVars>>
    BY <1>7 DEF ExecuteCancellation, Final, MayPay, OpenStatuses
  <2>2. SlashHeld = 0 /\ SlashHeld' = SlashAmount(remaining)
    BY <1>7 DEF ExecuteCancellation, SlashHeld, None
  <2> QED
    BY <2>1, <2>2, DueUnchanged DEF MovesMoney, Executes, msVars
<1> QED
  BY <1>2, <1>3, <1>4, <1>5, <1>6, <1>7 DEF CancellationStep

LEMMA SlashStepMoney ==
    ASSUME TypeOK, TypeOK', CancellationDiscipline, SlashStep
    PROVE  MovesMoney
<1>1. UNCHANGED <<msVars, status, request, remaining>> /\ Due' = Due /\ slash # None
  BY DueUnchanged DEF SlashStep, FinalizeSlash, DisputeSlash, ResolveSlashDispute, moneyVars,
         msVars
<1>2. Final /\ Final' /\ (MayPay' => MayPay)
  BY <1>1 DEF CancellationDiscipline, Final, MayPay, TypeOK
<1>3. SlashHeld = slash.amount /\ slash \in SlashRecords /\ SlashHeld \in Int
  BY <1>1, SlashUpdates DEF SlashHeld, TypeOK
<1>4. CASE DisputeSlash
  <2>1. UNCHANGED moneyVars /\ slash' # None /\ slash'.amount = slash.amount
    BY <1>3, <1>4 DEF DisputeSlash, SlashRecords, None
  <2>2. SlashKept
    BY <1>3, <2>1 DEF SlashKept, SlashHeld
  <2> QED
    BY <1>1, <1>2, <2>1, <2>2 DEF MovesMoney, Idles, moneyVars, msVars
<1>5. CASE FinalizeSlash
  <2>1. SlashHeld' = 0 /\ held' = held - SlashHeld /\ stranded' = stranded
    BY <1>3, <1>5 DEF FinalizeSlash, SlashHeld
  <2> QED
    BY <1>1, <1>2, <2>1 DEF MovesMoney, EndsSlash, msVars
<1>6. ASSUME NEW upheld \in BOOLEAN, ResolveSlashDispute(upheld)
      PROVE  MovesMoney
  <2>1. /\ SlashHeld' = 0
        /\ \/ held' = held - SlashHeld /\ stranded' = stranded
           \/ held' = held /\ stranded' = stranded + SlashHeld
    BY <1>3, <1>6 DEF ResolveSlashDispute, SlashHeld
  <2> QED
    BY <1>1, <1>2, <2>1 DEF MovesMoney, EndsSlash, msVars
<1> QED
  BY <1>4, <1>5, <1>6 DEF SlashStep

LEMMA RentStepMoney ==
    ASSUME TypeOK, TypeOK', CollectExpiredRent
    PROVE  MovesMoney
<1>1. \A m \in Milestones : Owed'[m] = 0
  BY DEF CollectExpiredRent, Owed, Unpaid
<1>2. Due' = 0
  <2> DEFINE g == Owed'
  <2>1. \A m \in Milestones : g[m] = 0
    BY <1>1
  <2>2. Due' = Sum(g, Milestones)
    BY DEF Due
  <2> HIDE DEF g
  <2>3. Sum(g, Milestones) = 0 * Cardinality(Milestones)
    BY <2>1, MilestonesFinite, SumConstant
  <2>4. Cardinality(Milestones) \in Nat
    BY MilestonesFinite, FS_CardinalityType
  <2> QED
    BY <2>2, <2>3, <2>4
<1>3. /\ Final' /\ remaining' = 0 /\ held' = held - Payable(remaining)
      /\ stranded' = stranded + SlashHeld /\ SlashHeld' = 0 /\ allocated' = 0
  BY DEF CollectExpiredRent, Final, TerminalStatuses, SlashHeld
<1> QED
  BY <1>2, <1>3 DEF MovesMoney, Removes

LEMMA TimeStepMoney ==
    ASSUME TypeOK, TypeOK', PassageOfTime
    PROVE  MovesMoney
<1>1. UNCHANGED <<status, msVars, moneyVars>> /\ Due' = Due
  BY DueUnchanged DEF PassageOfTime, msVars
<1>2. MayPay' => MayPay
  BY <1>1, PassageOfTimeStatus DEF MayPay
<1>3. SlashKept
  BY DEF PassageOfTime, RequestWindowPasses, SlashWindowPasses, SlashRecords, None, TypeOK,
         SlashKept, SlashHeld, cancelVars
<1> QED
  BY <1>1, <1>2, <1>3 DEF MovesMoney, Idles, moneyVars, msVars

\* Every step of the escrow moves its money in one of these ways.
LEMMA StepMovesMoney ==
    ASSUME TypeOK, CountersInv, CancellationDiscipline, DisputedRequests, [Next]_vars
    PROVE  MovesMoney
<1> TypeOK'
  BY TypeOKStep
<1>1. CASE UNCHANGED vars
  <2>1. UNCHANGED <<moneyVars, msVars, status, request, slash>>
    BY <1>1 DEF vars, cancelVars
  <2> QED
    BY <2>1, DueUnchanged DEF MovesMoney, Idles, MayPay, SlashKept, SlashHeld, moneyVars, msVars
<1> QED
  BY <1>1, MilestoneStepMoney, TermsStepMoney, BatchStepMoney, SettlementStepMoney,
     DisputeStepMoney, CancellationStepMoney, SlashStepMoney, RentStepMoney, TimeStepMoney
     DEF Next

----------------------------------------------------------------------------
(* The books balance and cover what can still be paid *)

\* The inductive invariant.  What is due never exceeds what was allocated; while
\* the books are regular they balance, nothing in them is negative, and as long
\* as the escrow is open or can be again the balance covers what is due, and
\* also what is not allocated unless that was refunded.
DueAllocated == Due <= allocated
Books ==
    Regular => /\ held = remaining + SlashHeld + stranded
               /\ remaining >= 0 /\ SlashHeld >= 0 /\ stranded >= 0
DueCovered ==
    (Regular /\ MayPay) =>
        /\ Due <= remaining
        /\ "partialCancel" \notin history => Due + (TotalAmount - allocated) <= remaining

MoneyInv == DueAllocated /\ Books /\ DueCovered

\* A slash takes no more than the balance it is taken from.
LEMMA SlashWithinBalance ==
    ASSUME NEW b \in Nat
    PROVE  SlashAmount(b) \in Nat /\ SlashAmount(b) <= b
<1>1. SlashPercentage \in Nat /\ SlashPercentage <= 100
  BY ConstantsAssumption
<1> DEFINE x == b * SlashPercentage
<1>2. x \in Nat
  BY <1>1
<1>3. x <= 100 * b
  <2>1. ASSUME NEW p \in Nat, p <= 100
        PROVE  b * p <= 100 * b
    BY <2>1, Z3
  <2> QED
    BY <1>1, <2>1
<1>4. SlashAmount(b) = x \div 100
  BY DEF SlashAmount
<1> HIDE DEF x
<1>5. x \div 100 \in Nat /\ x \div 100 <= b
  BY <1>2, <1>3
<1> QED
  BY <1>4, <1>5

MoneyTyped ==
    /\ remaining \in Int /\ held \in Int /\ stranded \in Int /\ SlashHeld \in Int
    /\ allocated \in Nat /\ allocated <= TotalAmount /\ TotalAmount \in Nat /\ Due \in Nat

LEMMA MoneyTypes == TypeOK => MoneyTyped
<1> SUFFICES ASSUME TypeOK
             PROVE  MoneyTyped
  OBVIOUS
<1>1. SlashHeld \in Int
  BY SlashHeldType DEF TypeOK
<1>2. Due \in Nat
  BY OwedTypes DEF OwedTyped
<1>3. /\ remaining \in Int /\ held \in Int /\ stranded \in Int
      /\ allocated \in 0 .. TotalAmount /\ TotalAmount \in Nat
  BY ConstantsAssumption DEF TypeOK
<1> QED
  BY <1>1, <1>2, <1>3 DEF MoneyTyped

LEMMA MoneyTypesNext == TypeOK' => MoneyTyped'
  BY MoneyTypes, PTL

LEMMA MoneyInvInit == Init => MoneyInv
<1> SUFFICES ASSUME Init
             PROVE  MoneyInv
  OBVIOUS
<1>1. \A m \in Milestones : Owed[m] = 0
  BY DEF Init, Owed, Unpaid
<1>2. Due = 0
  <2>1. Due = 0 * Cardinality(Milestones)
    BY <1>1, MilestonesFinite, SumConstant DEF Due
  <2> QED
    BY <2>1, MilestonesFinite, FS_CardinalityType
<1>3. /\ allocated = 0 /\ remaining = TotalAmount /\ held = TotalAmount /\ stranded = 0
      /\ SlashHeld = 0 /\ TotalAmount \in Nat
  BY ConstantsAssumption DEF Init, SlashHeld
<1> QED
  BY <1>2, <1>3 DEF MoneyInv, DueAllocated, Books, DueCovered

LEMMA MoneyInvStep ==
    ASSUME TypeOK, TypeOK', MoneyInv, MovesMoney, history \subseteq history'
    PROVE  MoneyInv'
<1>1. /\ remaining \in Int /\ held \in Int /\ stranded \in Int /\ SlashHeld \in Int
      /\ allocated \in Nat /\ TotalAmount \in Nat /\ Due \in Nat
      /\ remaining' \in Int /\ held' \in Int /\ stranded' \in Int /\ SlashHeld' \in Int
      /\ allocated' \in Nat /\ Due' \in Nat
  BY MoneyTypes, MoneyTypesNext DEF MoneyTyped
<1>2. Regular' => Regular
  BY DEF Regular
<1>3. "partialCancel" \notin history' => "partialCancel" \notin history
  OBVIOUS
<1>4. DueAllocated /\ Books /\ DueCovered
  BY DEF MoneyInv
<1>5. ~MayPay' => DueCovered'
  BY DEF DueCovered
<1>6. CASE Idles
  BY <1>1, <1>2, <1>3, <1>4, <1>6
     DEF Idles, SlashKept, MoneyInv, DueAllocated, Books, DueCovered
<1>7. CASE AddsDue
  <2>1. /\ UNCHANGED <<remaining, held, stranded>> /\ SlashHeld' = SlashHeld /\ MayPay
        /\ Due' - Due = allocated' - allocated /\ allocated' <= TotalAmount
        /\ Regular' => "partialCancel" \notin history
    BY <1>7, MoneyTypesNext DEF AddsDue, SlashKept, MoneyTyped
  <2>2. DueAllocated' /\ Books'
    BY <1>1, <1>2, <1>4, <2>1 DEF DueAllocated, Books
  <2>3. ASSUME Regular'
        PROVE  Due' <= remaining' /\ Due' + (TotalAmount - allocated') <= remaining'
    <3>1. Due + (TotalAmount - allocated) <= remaining
      BY <1>2, <1>3, <1>4, <2>1, <2>3 DEF DueCovered
    <3> DEFINE due == Due'
               booked == allocated'
    <3>2. /\ due \in Int /\ booked \in Int /\ due - Due = booked - allocated
          /\ booked <= TotalAmount
      BY <1>1, <2>1
    <3>3. remaining' = remaining
      BY <2>1
    <3> HIDE DEF due, booked
    <3>4. due <= remaining /\ due + (TotalAmount - booked) <= remaining
      BY <1>1, <3>1, <3>2
    <3> QED
      BY <3>3, <3>4 DEF due, booked
  <2> QED
    BY <2>2, <2>3 DEF MoneyInv, DueCovered
<1>8. CASE PaysDue
  <2>1. PICK x \in Nat : /\ remaining' = remaining - x /\ held' = held - x
                         /\ Regular' => Due' = Due - x
    BY <1>8 DEF PaysDue
  <2>2. /\ Due' <= Due /\ UNCHANGED <<stranded, allocated>> /\ SlashHeld' = SlashHeld
        /\ Regular' => MayPay
    BY <1>8 DEF PaysDue, SlashKept, MayPay
  <2>3. DueAllocated'
    BY <1>1, <1>4, <2>2 DEF DueAllocated
  <2>4. ASSUME Regular'
        PROVE  /\ held' = remaining' + SlashHeld' + stranded'
               /\ remaining' >= 0 /\ SlashHeld' >= 0 /\ stranded' >= 0
               /\ Due' <= remaining'
               /\ "partialCancel" \notin history' =>
                     Due' + (TotalAmount - allocated') <= remaining'
    <3>1. /\ held = remaining + SlashHeld + stranded
          /\ SlashHeld >= 0 /\ stranded >= 0 /\ Due <= remaining
          /\ "partialCancel" \notin history => Due + (TotalAmount - allocated) <= remaining
      BY <1>2, <1>4, <2>2, <2>4 DEF Books, DueCovered
    <3> QED
      BY <1>1, <1>3, <2>1, <2>2, <2>4, <3>1
  <2> QED
    BY <2>3, <2>4 DEF MoneyInv, Books, DueCovered
<1>9. CASE Refunds
  <2>1. /\ MayPay /\ remaining' = allocated /\ held' = held - (remaining - allocated)
        /\ UNCHANGED <<stranded, allocated>> /\ SlashHeld' = SlashHeld /\ Due' = Due
        /\ "partialCancel" \in history'
    BY <1>9 DEF Refunds, SlashKept, MayPay, OpenStatuses
  <2>2. DueAllocated'
    BY <1>4, <2>1 DEF DueAllocated
  <2>3. Books'
    BY <1>1, <1>2, <1>4, <2>1 DEF Books
  <2>4. DueCovered'
    BY <1>4, <2>1 DEF DueAllocated, DueCovered
  <2> QED
    BY <2>2, <2>3, <2>4 DEF MoneyInv
<1>10. CASE Settles
  <2>1. /\ remaining' = 0 /\ held' = held - Payable(remaining)
        /\ UNCHANGED <<stranded, allocated>> /\ SlashHeld' = SlashHeld /\ Due' = Due
    BY <1>10 DEF Settles, SlashKept
  <2>2. Books'
    BY <1>1, <1>2, <1>4, <2>1 DEF Books, Payable
  <2> QED
    BY <1>4, <1>5, <1>10, <2>1, <2>2 DEF Settles, MoneyInv, DueAllocated
<1>11. CASE Executes
  <2>1. /\ SlashHeld = 0 /\ SlashHeld' = SlashAmount(remaining) /\ remaining' = 0
        /\ held' = held - Payable(remaining - SlashAmount(remaining))
        /\ UNCHANGED <<stranded, allocated>> /\ Due' = Due
    BY <1>11 DEF Executes
  <2>2. remaining >= 0 => SlashAmount(remaining) \in Nat /\ SlashAmount(remaining) <= remaining
    BY <1>1, SlashWithinBalance
  <2>3. ASSUME Regular'
        PROVE  /\ held' = remaining' + SlashHeld' + stranded'
               /\ remaining' >= 0 /\ SlashHeld' >= 0 /\ stranded' >= 0
    <3>1. held = remaining + stranded /\ remaining >= 0 /\ stranded >= 0
      BY <1>1, <1>2, <1>4, <2>1, <2>3 DEF Books
    <3>2. Payable(remaining - SlashAmount(remaining)) = remaining - SlashAmount(remaining)
      BY <1>1, <2>2, <3>1 DEF Payable
    <3> QED
      BY <1>1, <2>1, <2>2, <3>1, <3>2
  <2> QED
    BY <1>4, <1>5, <1>11, <2>1, <2>3 DEF Books, Executes, MoneyInv, DueAllocated
<1>12. CASE EndsSlash
  <2>1. /\ SlashHeld' = 0 /\ ~MayPay'
        /\ \/ held' = held - SlashHeld /\ stranded' = stranded
           \/ held' = held /\ stranded' = stranded + SlashHeld
        /\ UNCHANGED <<remaining, allocated>> /\ Due' = Due
    BY <1>12, FinalCannotPayNext DEF EndsSlash
  <2>2. ASSUME Regular'
        PROVE  /\ held' = remaining' + SlashHeld' + stranded'
               /\ remaining' >= 0 /\ SlashHeld' >= 0 /\ stranded' >= 0
    <3>1. /\ held = remaining + SlashHeld + stranded
          /\ remaining >= 0 /\ SlashHeld >= 0 /\ stranded >= 0
      BY <1>2, <1>4, <2>2 DEF Books
    <3>2. CASE held' = held - SlashHeld /\ stranded' = stranded
      BY <1>1, <2>1, <3>1, <3>2
    <3>3. CASE held' = held /\ stranded' = stranded + SlashHeld
      BY <1>1, <2>1, <3>1, <3>3
    <3> QED
      BY <2>1, <3>2, <3>3
  <2> QED
    BY <1>4, <1>5, <2>1, <2>2 DEF Books, MoneyInv, DueAllocated
<1>13. CASE Removes
  <2>1. /\ remaining' = 0 /\ held' = held - Payable(remaining) /\ ~MayPay'
        /\ stranded' = stranded + SlashHeld /\ SlashHeld' = 0
        /\ Due' = 0 /\ allocated' = 0
    BY <1>13, FinalCannotPayNext DEF Removes
  <2>2. Books'
    BY <1>1, <1>2, <1>4, <2>1 DEF Books, Payable
  <2> QED
    BY <1>5, <2>1, <2>2 DEF MoneyInv, DueAllocated
<1> QED
  BY <1>6, <1>7, <1>8, <1>9, <1>10, <1>11, <1>12, <1>13 DEF MovesMoney

\* A dispute beside a request is always the request's own.
LEMMA DisputedRequestsStep ==
    ASSUME TypeOK, CancellationDiscipline, DisputedRequests, [Next]_vars
    PROVE  DisputedRequests'
<1> USE DEF DisputedRequests
<1>1. ASSUME NEW m \in Milestones, MilestoneStep(m)
      PROVE  DisputedRequests'
  BY <1>1, MilestoneStepStatus
<1>2. CASE TermsStep
  BY <1>2, TermsStepStatus
<1>3. CASE BatchStep
  BY <1>3, BatchStepStatus
<1>4. CASE SettlementStep
  BY <1>4, SettlementStepStatus DEF TerminalStatuses
<1>5. CASE DisputeStep
  BY <1>5, DisputeStepStatus DEF CancellationDiscipline
<1>6. CASE CancellationStep
  <2>1. CASE ApproveCancellation \/ DisputeCancellation
    BY <2>1 DEF ApproveCancellation, DisputeCancellation, TypeOK, Requests, None
  <2>2. CASE status' # "Disputed"
    BY <2>2
  <2> QED
    BY <1>6, <2>1, <2>2
       DEF CancellationStep, RequestCancellation, ExecuteCancellation,
           ConfirmCancellation, RejectCancellation, SettleRemaining
<1>7. CASE SlashStep
  BY <1>7 DEF SlashStep, FinalizeSlash, DisputeSlash, ResolveSlashDispute
<1>8. CASE CollectExpiredRent
  BY <1>8 DEF CollectExpiredRent
<1>9. CASE PassageOfTime
  BY <1>9, PassageOfTimeStatus
<1>10. CASE UNCHANGED vars
  BY <1>10 DEF vars, cancelVars
<1> QED
  BY <1>1, <1>2, <1>3, <1>4, <1>5, <1>6, <1>7, <1>8, <1>9, <1>10 DEF Next

LEMMA MoneyInvariant == Spec => [](MoneyInv /\ DisputedRequests)
<1>1. Init => MoneyInv /\ DisputedRequests
  BY MoneyInvInit DEF Init, DisputedRequests
<1>2. ASSUME TypeOK, CountersInv, CancellationDiscipline, DisputedRequests, MoneyInv, [Next]_vars
      PROVE  MoneyInv' /\ DisputedRequests'
  <2>1. TypeOK' /\ MovesMoney /\ history \subseteq history' /\ DisputedRequests'
    BY <1>2, TypeOKStep, StepMovesMoney, HistoryGrows, DisputedRequestsStep
  <2> QED
    BY <1>2, <2>1, MoneyInvStep
<1> QED
  BY <1>1, <1>2, TypeCorrect, CountersInvariant, CancellationSound, PTL DEF Spec

\* As long as no call broke the books, the contract holds exactly the balance,
\* the held slash and the upheld slashes, for every order of payments, partial
\* refunds, disputes, cancellations, slashes and rent expiry.
THEOREM BooksBalance == Spec => []FundsAccounted
<1>1. NoSurplus /\ MoneyInv => FundsAccounted
  BY DEF MoneyInv, Books, FundsAccounted
<1> QED
  BY <1>1, NothingForgotten, MoneyInvariant, PTL

\* And as long as the escrow is open its balance covers every milestone that can
\* still be paid.
THEOREM OpenEscrowSolvent == Spec => []Solvent
<1>1. ASSUME TypeOK, MoneyInv
      PROVE  Solvent
  <2>1. /\ Regular => /\ held = remaining + SlashHeld + stranded
                      /\ remaining >= 0 /\ SlashHeld >= 0 /\ stranded >= 0
        /\ (Regular /\ status \in OpenStatuses) => Due <= remaining
    BY <1>1 DEF MoneyInv, Books, DueCovered, MayPay
  <2>2. remaining \in Int /\ held \in Int /\ stranded \in Int /\ SlashHeld \in Int
    BY <1>1, MoneyTypes DEF MoneyTyped
  <2>3. Regular => held >= 0
    BY <2>1, <2>2
  <2>4. SumOf(InStatus(MilestoneStatuses \ {"absent", "Released"})) = Due
    BY <1>1, DueIsSum
  <2> QED
    BY <2>1, <2>3, <2>4 DEF Solvent
<1>2. TypeOK /\ MoneyInv => Solvent
  BY <1>1
<1> QED
  BY <1>2, TypeCorrect, MoneyInvariant, PTL

----------------------------------------------------------------------------
(* The escrow implements the account *)

LEMMA AccountInit == Init => Account!Init
<1> SUFFICES ASSUME Init
             PROVE  Account!Init
  OBVIOUS
<1>1. /\ remaining = TotalAmount /\ TotalAmount - held = 0 /\ SlashHeld = 0 /\ stranded = 0
  BY ConstantsAssumption DEF Init, SlashHeld
<1>2. (status \in TerminalStatuses /\ request = None) = FALSE /\ Regular = TRUE
  BY DEF Init, TerminalStatuses, Regular
<1> QED
  BY <1>1, <1>2 DEF Account!Init

LEMMA AccountStep ==
    ASSUME TypeOK, TypeOK', MoneyInv, MoneyInv', NoSurplus', MovesMoney,
           history \subseteq history', Final => Final'
    PROVE  [Account!Next]_(Account!account)
<1>1. /\ remaining \in Int /\ held \in Int /\ stranded \in Int /\ SlashHeld \in Int
      /\ allocated \in Nat /\ TotalAmount \in Nat /\ Due \in Nat
      /\ remaining' \in Int /\ held' \in Int /\ stranded' \in Int /\ SlashHeld' \in Int
  BY MoneyTypes, MoneyTypesNext DEF MoneyTyped
<1>2. CASE ~Regular'
  <2>1. held' <= remaining' + SlashHeld' + stranded'
    BY DEF NoSurplus
  <2>2. TotalAmount - (TotalAmount - held') = held'
    <3> DEFINE left == held'
    <3>1. TotalAmount \in Int /\ left \in Int
      BY <1>1
    <3> HIDE DEF left
    <3>2. TotalAmount - (TotalAmount - left) = left
      BY <3>1
    <3> QED
      BY <3>2 DEF left
  <2>3. Account!Break
    BY <1>2, <2>1, <2>2 DEF Account!Break
  <2> QED
    BY <2>3 DEF Account!Next
<1>3. CASE Regular'
  <2>1. Regular /\ Regular' = Regular /\ (MayPay => ~Final)
    BY <1>3, FinalCannotPay DEF Regular
  <2>2. /\ held = remaining + SlashHeld + stranded
        /\ remaining >= 0 /\ SlashHeld >= 0 /\ stranded >= 0
        /\ remaining' >= 0
    BY <1>3, <2>1 DEF MoneyInv, Books
  <2>3. ASSUME UNCHANGED <<remaining, held, stranded>>, SlashKept
        PROVE  [Account!Next]_(Account!account)
    <3>1. CASE Final
      <4>1. Final' = Final
        BY <3>1 DEF Final
      <4>2. UNCHANGED Account!account
        BY <2>1, <2>3, <4>1 DEF Account!account, Final, SlashKept
      <4> QED
        BY <4>2
    <3>2. CASE ~Final
      <4>1. Account!Conclude
        BY <2>1, <2>3, <3>2 DEF Account!Conclude, Final, SlashKept
      <4> QED
        BY <4>1 DEF Account!Next
    <3> QED
      BY <3>1, <3>2
  <2>4. CASE Idles
    BY <2>3, <2>4 DEF Idles
  <2>5. CASE AddsDue
    BY <2>3, <2>5 DEF AddsDue
  <2>6. ASSUME NEW x \in Nat, remaining' = remaining - x, held' = held - x,
               UNCHANGED stranded, SlashKept, ~Final
        PROVE  [Account!Next]_(Account!account)
    <3>1. CASE x = 0
      <4>1. UNCHANGED <<remaining, held, stranded>>
        BY <1>1, <2>6, <3>1
      <4> QED
        BY <2>3, <2>6, <4>1
    <3>2. CASE x # 0
      <4>1. /\ remaining' < remaining /\ remaining' >= 0
            /\ TotalAmount - held' = (TotalAmount - held) + (remaining - remaining')
        BY <1>1, <2>2, <2>6, <3>2
      <4>2. Account!PayOut
        BY <2>1, <2>6, <4>1 DEF Account!PayOut, Final, SlashKept
      <4> QED
        BY <4>2 DEF Account!Next
    <3> QED
      BY <3>1, <3>2
  <2>7. CASE PaysDue
    <3>1. /\ \E x \in Nat : remaining' = remaining - x /\ held' = held - x
          /\ UNCHANGED stranded /\ SlashKept /\ ~Final
      BY <1>3, <2>1, <2>7 DEF PaysDue, MayPay
    <3> QED
      BY <2>6, <3>1
  <2>8. CASE Refunds
    <3>1. /\ UNCHANGED stranded /\ SlashKept /\ ~Final /\ remaining > allocated
          /\ remaining' = allocated /\ held' = held - (remaining - allocated)
      BY <2>1, <2>8 DEF Refunds, MayPay, OpenStatuses
    <3>2. /\ remaining - allocated \in Nat
          /\ remaining' = remaining - (remaining - allocated)
      BY <1>1, <3>1
    <3> QED
      BY <2>6, <3>1, <3>2
  <2>9. CASE Settles
    <3>1. /\ ~Final /\ remaining' = 0 /\ held' = held - remaining
          /\ UNCHANGED stranded /\ SlashHeld' = SlashHeld
      BY <1>1, <2>2, <2>9 DEF Settles, SlashKept, Payable
    <3>2. /\ SlashHeld' >= SlashHeld /\ SlashHeld' - SlashHeld <= remaining
          /\ TotalAmount - held' =
               (TotalAmount - held) + remaining - (SlashHeld' - SlashHeld)
      BY <1>1, <2>2, <3>1
    <3>3. Account!Settle
      BY <2>1, <3>1, <3>2 DEF Account!Settle, Final
    <3> QED
      BY <3>3 DEF Account!Next
  <2>10. CASE Executes
    <3>1. SlashAmount(remaining) \in Nat /\ SlashAmount(remaining) <= remaining
      BY <1>1, <2>2, SlashWithinBalance
    <3>2. /\ ~Final /\ remaining' = 0 /\ SlashHeld = 0 /\ SlashHeld' = SlashAmount(remaining)
          /\ held' = held - (remaining - SlashAmount(remaining)) /\ UNCHANGED stranded
      BY <1>1, <2>10, <3>1 DEF Executes, Payable
    <3>3. /\ SlashHeld' >= SlashHeld /\ SlashHeld' - SlashHeld <= remaining
          /\ TotalAmount - held' =
               (TotalAmount - held) + remaining - (SlashHeld' - SlashHeld)
      BY <1>1, <3>1, <3>2
    <3>4. Account!Settle
      BY <2>1, <3>2, <3>3 DEF Account!Settle, Final
    <3> QED
      BY <3>4 DEF Account!Next
  <2>11. CASE EndsSlash
    <3>1. /\ Final' = Final /\ Final /\ SlashHeld' = 0 /\ UNCHANGED remaining
          /\ \/ held' = held - SlashHeld /\ stranded' = stranded
             \/ held' = held /\ stranded' = stranded + SlashHeld
      BY <2>11 DEF EndsSlash, Final
    <3>2. /\ held' = held - SlashHeld =>
                TotalAmount - held' = (TotalAmount - held) + SlashHeld
          /\ held' = held => TotalAmount - held' = TotalAmount - held
      <4> DEFINE left == held'
      <4>1. left \in Int
        BY <1>1
      <4> HIDE DEF left
      <4>2. /\ left = held - SlashHeld =>
                  TotalAmount - left = (TotalAmount - held) + SlashHeld
            /\ left = held => TotalAmount - left = TotalAmount - held
        BY <1>1, <4>1
      <4> QED
        BY <4>2 DEF left
    <3>3. Account!EndPenalty
      BY <2>1, <3>1, <3>2 DEF Account!EndPenalty, Final
    <3> QED
      BY <3>3 DEF Account!Next
  <2>12. CASE Removes
    <3>1. /\ Final' = TRUE /\ remaining' = 0 /\ held' = held - remaining
          /\ stranded' = stranded + SlashHeld /\ SlashHeld' = 0
      BY <1>1, <2>2, <2>12 DEF Removes, Payable, Final
    <3>2. TotalAmount - held' = (TotalAmount - held) + remaining
      BY <1>1, <3>1
    <3>3. Account!Remove
      BY <2>1, <3>1, <3>2 DEF Account!Remove, Final
    <3> QED
      BY <3>3 DEF Account!Next
  <2> QED
    BY <2>4, <2>5, <2>7, <2>8, <2>9, <2>10, <2>11, <2>12 DEF MovesMoney
<1> QED
  BY <1>2, <1>3

\* Every call moves the deposit in one of the ways EscrowAccount allows, and a
\* settled escrow without a request moves nothing but its slash.
THEOREM EscrowImplementsAccount == Spec => ImplementsAccount
<1>1. ASSUME TypeOK, CountersInv, CancellationDiscipline, DisputedRequests, MoneyInv, MoneyInv',
             NoSurplus', [Next]_vars
      PROVE  [Account!Next]_(Account!account)
  <2>1. TypeOK' /\ MovesMoney /\ history \subseteq history'
    BY <1>1, TypeOKStep, StepMovesMoney, HistoryGrows
  <2>2. Final => Final'
    BY <1>1, SettledStep DEF Final
  <2> QED
    BY <1>1, <2>1, <2>2, AccountStep
<1>2. TypeOK /\ CountersInv /\ CancellationDiscipline /\ DisputedRequests /\ MoneyInv /\ MoneyInv'
        /\ NoSurplus' /\ [Next]_vars => [Account!Next]_(Account!account)
  BY <1>1
<1> QED
  BY <1>2, AccountInit, TypeCorrect, CountersInvariant, CancellationSound, MoneyInvariant,
     NothingForgotten, PTL DEF Spec, ImplementsAccount, Account!AccountSpec

=============================================================================
