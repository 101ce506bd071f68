--------------------------- MODULE EscrowLifecycle ---------------------------
(***************************************************************************)
(* One escrow of contracts/escrow_contract/src/lib.rs, from the moment      *)
(* create_escrow has stored it: milestones, release timelocks, disputes,    *)
(* the two cancellation paths, slashing, expiry and the rent bucket.        *)
(*                                                                         *)
(* A Soroban call is atomic: an Err reverts every write and transfer, so a  *)
(* call that fails is no step and a call that succeeds is one action.       *)
(*                                                                         *)
(* Time is abstracted.  The code only compares the ledger clock with stored *)
(* instants, so each instant is represented by which side of it "now" is    *)
(* on, and PassageOfTime moves any of them forward.  Timers are unrelated   *)
(* in the model, which adds interleavings and removes none.                 *)
(*                                                                         *)
(* Not here: who may call what (each caller exists); the contract pause,    *)
(* the freeze switch and milestone dependencies (they only forbid calls);   *)
(* recurring schedules; and the size of the rent bucket, of which only      *)
(* "exhausted or not" matters to the escrow.  A batch names one or two      *)
(* milestones: that is enough to name one twice.                            *)
(***************************************************************************)
EXTENDS Integers, FiniteSets, Functions

CONSTANTS
    MaxMilestones,      \* MaxMilestones of instance storage: cap on milestones
    AmountChoices,      \* amounts a client may give a milestone
    TotalAmount,        \* tokens deposited by create_escrow
    PlatformFee,        \* calculate_platform_fee(total_amount)
    SlashPercentage,    \* SLASH_PERCENTAGE
    ReleaseTimelock,    \* created by create_escrow_timelock (EscrowTimelockSecs)
    HasDeadline,        \* a deadline was given at creation
    HasLockTime,        \* a lock_time was given at creation
    HasDisputeTimeout,  \* created by create_escrow_dispute_timeout
    HasArbiter,         \* an arbiter was given at creation
    HasOracle,          \* price and resolution oracles are configured
    RepeatedIds,        \* batches may name an id twice
    Approvers,          \* approvers of the MultisigConfig, {} when unset
    Weight,             \* their weights
    Threshold           \* weight that releases everything

ASSUME ConstantsAssumption ==
    /\ MaxMilestones \in Nat
    /\ AmountChoices \subseteq Nat \ {0}
    /\ TotalAmount \in Nat \ {0}
    /\ PlatformFee \in 0 .. TotalAmount
    /\ SlashPercentage \in 0 .. 100
    /\ {ReleaseTimelock, HasDeadline, HasLockTime, HasDisputeTimeout,
        HasArbiter, HasOracle, RepeatedIds} \subseteq BOOLEAN
    /\ Weight \in [Approvers -> Nat]
    /\ Threshold \in Nat

VARIABLES
    status,          \* meta.status, or "Removed" once rent expiry deleted the records
    ms,              \* status of each milestone, "absent" until it is added
    priced,          \* milestones created with a price condition
    amount,          \* milestone.amount
    count,           \* meta.milestone_count
    allocated,       \* meta.allocated_amount
    approvedCount,   \* meta.approved_count
    releasedCount,   \* meta.released_count
    submittedCount,  \* meta.submitted_count
    remaining,       \* meta.remaining_balance
    held,            \* tokens in the contract's account deposited for this escrow
    stranded,        \* history: tokens no record accounts for any more
    lock,            \* meta.lock_time against now
    deadline,        \* meta.deadline against now
    timelock,        \* meta.timelock (start_timelock)
    releaseAt,       \* MilestoneReleaseAt of each milestone
    approvals,       \* MultisigApprovals
    arbiter,         \* meta.arbiter is set
    startedLedger,   \* meta.dispute_started_ledger against its timeout
    startTime,       \* meta.dispute_start_ledger against the ruling cooldown
    request,         \* the CancellationRequest, or None
    slash,           \* the SlashRecord, or None
    rentExpired,     \* rent_has_expired
    history          \* history: the irregular calls made so far

msVars      == <<ms, priced, amount, count, allocated>>
counterVars == <<approvedCount, releasedCount, submittedCount>>
moneyVars   == <<remaining, held, stranded>>
timerVars   == <<lock, deadline, timelock, releaseAt>>
disputeVars == <<arbiter, startedLedger, startTime>>
cancelVars  == <<request, slash>>
otherVars   == <<approvals, rentExpired, history>>
vars == <<status, msVars, counterVars, moneyVars, timerVars, disputeVars,
          cancelVars, otherVars>>

----------------------------------------------------------------------------
Milestones == 1 .. MaxMilestones
Parties    == {"client", "freelancer"}

OpenStatuses     == {"Active", "Disputed", "CancellationPending"}
TerminalStatuses == {"Completed", "Cancelled", "Expired", "Removed"}
MilestoneStatuses ==
    {"absent", "Pending", "Submitted", "Approved", "Released", "Rejected", "Disputed"}
IrregularCalls == {"partialCancel", "addAfterPartialCancel",
                   "releaseAfterSettlement", "revived", "repeatedId"}

None == [kind |-> "none"]
Requests ==
    [kind : {"request"}, requester : Parties, disputed : BOOLEAN,
     counterpartyApproved : BOOLEAN, window : {"before", "at", "after"}]
SlashRecords ==
    [kind : {"slash"}, slashedUser : Parties, amount : Int,
     disputed : BOOLEAN, window : {"open", "closed"}]

InStatus(st)  == {m \in Milestones : ms[m] \in st}
SumOf(S)      == FoldFunctionOnSet(+, 0, amount, S)
Payable(x)    == IF x > 0 THEN x ELSE 0
SlashHeld     == IF slash = None THEN 0 ELSE slash.amount
ApprovalWeight(S) == FoldFunctionOnSet(+, 0, Weight, S)

\* load_escrow_meta_with_rent succeeds: the record exists and its rent is paid.
Live == status # "Removed" /\ ~rentExpired

\* calculate_slash_amount; Rust division truncates towards zero.
SlashAmount(balance) ==
    IF balance >= 0 THEN (balance * SlashPercentage) \div 100
                    ELSE -(((-balance) * SlashPercentage) \div 100)

----------------------------------------------------------------------------
\* The escrow as create_escrow_internal stores it.
Init ==
    /\ status = "Active"
    /\ ms = [m \in Milestones |-> "absent"]
    /\ priced = {}
    /\ amount = [m \in Milestones |-> 0]
    /\ count = 0 /\ allocated = 0
    /\ approvedCount = 0 /\ releasedCount = 0 /\ submittedCount = 0
    /\ remaining = TotalAmount /\ held = TotalAmount /\ stranded = 0
    /\ lock = IF HasLockTime THEN "locked" ELSE "open"
    /\ deadline = IF HasDeadline THEN "ahead" ELSE "none"
    /\ timelock = "none"
    /\ releaseAt = [m \in Milestones |-> "none"]
    /\ approvals = {}
    /\ arbiter = HasArbiter
    /\ startedLedger = "unset" /\ startTime = "unset"
    /\ request = None /\ slash = None
    /\ rentExpired = FALSE
    /\ history = {}

----------------------------------------------------------------------------
(* Milestones *)

\* Mutation of AddMilestone: each amount is compared with total_amount alone.
AddMilestoneOverAllocates(a, hasPrice) ==
    /\ Live /\ status = "Active"
    /\ a <= TotalAmount
    /\ count < MaxMilestones
    /\ count' = count + 1
    /\ allocated' = allocated + a
    /\ ms' = [ms EXCEPT ![count + 1] = "Pending"]
    /\ amount' = [amount EXCEPT ![count + 1] = a]
    /\ UNCHANGED <<status, priced, counterVars, moneyVars, timerVars,
                   disputeVars, cancelVars, approvals, rentExpired, history>>

\* add_milestone, and create_price_indexed_milestone when hasPrice.  The cap is
\* total_amount, whatever partial_cancel has refunded meanwhile.
AddMilestone(a, hasPrice) ==
    /\ Live /\ status = "Active"
    /\ allocated + a <= TotalAmount
    /\ count < MaxMilestones
    /\ count' = count + 1
    /\ allocated' = allocated + a
    /\ ms' = [ms EXCEPT ![count + 1] = "Pending"]
    /\ amount' = [amount EXCEPT ![count + 1] = a]
    /\ priced' = IF hasPrice THEN priced \cup {count + 1} ELSE priced
    /\ history' = IF "partialCancel" \in history
                    THEN history \cup {"addAfterPartialCancel"} ELSE history
    /\ UNCHANGED <<status, counterVars, moneyVars, timerVars, disputeVars,
                   cancelVars, approvals, rentExpired>>

\* submit_milestone.  The automatic extension moves a deadline that is still
\* ahead to a later instant that is still ahead.
SubmitMilestone(m) ==
    /\ Live /\ status = "Active"
    /\ ms[m] \in {"Pending", "Rejected"}
    /\ ms' = [ms EXCEPT ![m] = "Submitted"]
    /\ submittedCount' = submittedCount + 1
    /\ UNCHANGED <<status, priced, amount, count, allocated, approvedCount,
                   releasedCount, moneyVars, timerVars, disputeVars,
                   cancelVars, otherVars>>

\* Mutation of ApproveMilestone: released_count grows although the release
\* timelock still holds the money back.
ApproveMilestoneCountsEarly(m) ==
    /\ Live /\ status = "Active" /\ lock = "open"
    /\ ms[m] = "Submitted"
    /\ ms' = [ms EXCEPT ![m] = "Approved"]
    /\ approvedCount' = approvedCount + 1
    /\ releasedCount' = releasedCount + 1
    /\ UNCHANGED <<status, priced, amount, count, allocated, submittedCount,
                   moneyVars, timerVars, disputeVars, cancelVars, otherVars>>

\* approve_milestone pays at once unless a release timelock or a running
\* start_timelock window holds the money back.  submitted_count stays.
ApproveMilestone(m) ==
    LET pays == ~ReleaseTimelock /\ timelock # "running" IN
    /\ Live /\ status = "Active" /\ lock = "open"
    /\ ms[m] = "Submitted"
    /\ ms' = [ms EXCEPT ![m] = IF pays THEN "Released" ELSE "Approved"]
    /\ approvedCount' = approvedCount + 1
    /\ releasedCount' = IF pays THEN releasedCount + 1 ELSE releasedCount
    /\ remaining' = IF pays THEN remaining - amount[m] ELSE remaining
    /\ held' = IF pays THEN held - amount[m] ELSE held
    /\ releaseAt' = IF ReleaseTimelock
                      THEN [releaseAt EXCEPT ![m] = "waiting"] ELSE releaseAt
    /\ status' = IF approvedCount' = count /\ releasedCount' = count
                   THEN "Completed" ELSE status
    /\ UNCHANGED <<priced, amount, count, allocated, submittedCount, stranded,
                   lock, deadline, timelock, disputeVars,
                   cancelVars, otherVars>>

\* reject_milestone and reject_milestone_with_reason.
RejectMilestone(m) ==
    /\ Live /\ status = "Active"
    /\ ms[m] = "Submitted"
    /\ ms' = [ms EXCEPT ![m] = "Rejected"]
    /\ submittedCount' = IF submittedCount > 0 THEN submittedCount - 1 ELSE 0
    /\ UNCHANGED <<status, priced, amount, count, allocated, approvedCount,
                   releasedCount, moneyVars, timerVars, disputeVars,
                   cancelVars, otherVars>>

\* Mutation of PayMilestone: remaining_balance is not reduced.
PayMilestoneUnbooked(m) ==
    /\ ms' = [ms EXCEPT ![m] = "Released"]
    /\ held' = held - amount[m]
    /\ releasedCount' = releasedCount + 1
    /\ status' = IF releasedCount + 1 = count THEN "Completed" ELSE status
    /\ UNCHANGED <<priced, amount, count, allocated, submittedCount, remaining,
                   stranded, lock, deadline, timelock, disputeVars,
                   cancelVars, approvals, rentExpired>>

\* Common effect of the calls that pay out one approved milestone.
PayMilestone(m) ==
    /\ ms' = [ms EXCEPT ![m] = "Released"]
    /\ remaining' = remaining - amount[m]
    /\ held' = held - amount[m]
    /\ releasedCount' = releasedCount + 1
    /\ status' = IF releasedCount + 1 = count THEN "Completed" ELSE status
    /\ UNCHANGED <<priced, amount, count, allocated, submittedCount, stranded,
                   lock, deadline, timelock, disputeVars,
                   cancelVars, approvals, rentExpired>>

\* release_funds: no test of meta.status nor of MilestoneReleaseAt, which it
\* leaves in place.
ReleaseFunds(m, isAdmin) ==
    /\ Live
    /\ ms[m] = "Approved"
    /\ isAdmin \/ timelock # "running"
    /\ lock = "open"
    /\ PayMilestone(m)
    /\ history' = IF status \in TerminalStatuses
                    THEN history \cup {"releaseAfterSettlement"} ELSE history
    /\ UNCHANGED <<approvedCount, releaseAt>>

\* process_pending_release.
ProcessPendingRelease(m) ==
    /\ Live /\ status = "Active"
    /\ releaseAt[m] = "due"
    /\ ms[m] = "Approved"
    /\ PayMilestone(m)
    /\ releaseAt' = [releaseAt EXCEPT ![m] = "none"]
    /\ UNCHANGED <<approvedCount, history>>

\* Mutation of TriggerOracleRelease: the release is not counted as an approval.
TriggerOracleReleaseUnapproved(m) ==
    /\ HasOracle
    /\ Live /\ status = "Active"
    /\ ms[m] = "Pending" /\ m \in priced
    /\ PayMilestone(m)
    /\ UNCHANGED <<approvedCount, releaseAt, history>>

\* trigger_oracle_release once the oracle's price meets the condition.
TriggerOracleRelease(m) ==
    /\ HasOracle
    /\ Live /\ status = "Active"
    /\ ms[m] = "Pending" /\ m \in priced
    /\ PayMilestone(m)
    /\ approvedCount' = approvedCount + 1
    /\ UNCHANGED <<releaseAt, history>>

\* start_timelock.
StartTimelock ==
    /\ Live /\ status = "Active"
    /\ timelock = "none"
    /\ timelock' = "running"
    /\ UNCHANGED <<status, msVars, counterVars, moneyVars, lock, deadline,
                   releaseAt, disputeVars, cancelVars, otherVars>>

\* extend_lock_time.
ExtendLockTime ==
    /\ Live /\ status = "Active"
    /\ lock' = "locked"
    /\ UNCHANGED <<status, msVars, counterVars, moneyVars, deadline, timelock,
                   releaseAt, disputeVars, cancelVars, otherVars>>

\* request_extension and confirm_extension: the parties agree on a deadline,
\* which may have passed by the time it is confirmed.  Only the request needs
\* an Active escrow.  The pending request itself is abstracted.
ExtendDeadline ==
    /\ Live
    /\ deadline' \in {"ahead", "passed"}
    /\ UNCHANGED <<status, msVars, counterVars, moneyVars, lock, timelock,
                   releaseAt, disputeVars, cancelVars, otherVars>>

----------------------------------------------------------------------------
(* Batches: milestone a, and b unless b is 0.  The ids are checked in a first
   loop and moved in a second, so an id that is named twice passes the check
   twice and is counted and paid twice. *)

BatchSize(b)      == IF b = 0 THEN 1 ELSE 2
BatchAmount(a, b) == amount[a] + (IF b = 0 THEN 0 ELSE amount[b])
MoveBatch(a, b, t) ==
    ms' = [m \in Milestones |-> IF m \in {a, b} THEN t ELSE ms[m]]
Repeated(a, b)    == IF a = b THEN {"repeatedId"} ELSE {}

\* batch_add_milestones with two amounts.
BatchAddMilestones(x, y) ==
    /\ Live /\ status = "Active"
    /\ count + 2 <= MaxMilestones
    /\ allocated + x + y <= TotalAmount
    /\ count' = count + 2
    /\ allocated' = allocated + x + y
    /\ ms' = [ms EXCEPT ![count + 1] = "Pending", ![count + 2] = "Pending"]
    /\ amount' = [amount EXCEPT ![count + 1] = x, ![count + 2] = y]
    /\ history' = IF "partialCancel" \in history
                    THEN history \cup {"addAfterPartialCancel"} ELSE history
    /\ UNCHANGED <<status, priced, counterVars, moneyVars, timerVars, disputeVars,
                   cancelVars, approvals, rentExpired>>

\* batch_approve_milestones.  It pays in spite of a release timelock: only a
\* window opened by start_timelock holds the money back.
BatchApproveMilestones(a, b) ==
    LET pays == timelock # "running" IN
    /\ Live /\ status = "Active" /\ lock = "open"
    /\ {a, b} \ {0} \subseteq InStatus({"Submitted"})
    /\ MoveBatch(a, b, IF pays THEN "Released" ELSE "Approved")
    /\ approvedCount' = approvedCount + BatchSize(b)
    /\ submittedCount' = IF submittedCount > BatchSize(b)
                           THEN submittedCount - BatchSize(b) ELSE 0
    /\ releasedCount' = IF pays THEN releasedCount + BatchSize(b) ELSE releasedCount
    /\ remaining' = IF pays THEN remaining - BatchAmount(a, b) ELSE remaining
    /\ held' = IF pays THEN held - BatchAmount(a, b) ELSE held
    /\ status' = IF releasedCount' = count THEN "Completed" ELSE status
    /\ history' = history \cup Repeated(a, b)
    /\ UNCHANGED <<priced, amount, count, allocated, stranded, timerVars, disputeVars,
                   cancelVars, approvals, rentExpired>>

\* batch_release_funds by the admin, in any status and timelock.
BatchReleaseFunds(a, b) ==
    /\ Live /\ lock = "open"
    /\ {a, b} \ {0} \subseteq InStatus({"Approved"})
    /\ MoveBatch(a, b, "Released")
    /\ releasedCount' = releasedCount + BatchSize(b)
    /\ remaining' = remaining - BatchAmount(a, b)
    /\ held' = held - BatchAmount(a, b)
    /\ status' = IF releasedCount' = count THEN "Completed" ELSE status
    /\ history' = history \cup Repeated(a, b)
                     \cup (IF status \in TerminalStatuses
                             THEN {"releaseAfterSettlement"} ELSE {})
    /\ UNCHANGED <<priced, amount, count, allocated, approvedCount, submittedCount,
                   stranded, timerVars, disputeVars, cancelVars, approvals,
                   rentExpired>>

----------------------------------------------------------------------------
(* Settlements: the calls that pay out whatever remains *)

\* Mutation of SettleRemaining: remaining_balance is not reset.
SettleRemainingUnbooked(newStatus) ==
    /\ status' = newStatus
    /\ held' = held - Payable(remaining)
    /\ UNCHANGED <<remaining, msVars, counterVars, timerVars, arbiter, startTime>>

\* Pays the remaining balance to somebody and closes the books of the escrow.
\* A balance that is not positive moves no token and is written off.
SettleRemaining(newStatus) ==
    /\ status' = newStatus
    /\ held' = held - Payable(remaining)
    /\ remaining' = 0
    /\ UNCHANGED <<msVars, counterVars, timerVars, arbiter, startTime>>

\* approve_release: the approver that reaches the threshold releases everything.
ApproveRelease(a) ==
    /\ Live /\ status = "Active"
    /\ a \notin approvals
    /\ approvals' = approvals \cup {a}
    /\ IF ApprovalWeight(approvals') >= Threshold
         THEN SettleRemaining("Completed")
         ELSE UNCHANGED <<status, held, remaining, msVars, counterVars,
                          timerVars, arbiter, startTime>>
    /\ UNCHANGED <<stranded, startedLedger, cancelVars, rentExpired, history>>

\* revoke_approval.
RevokeApproval(a) ==
    /\ Live /\ status = "Active"
    /\ a \in approvals
    /\ approvals' = approvals \ {a}
    /\ UNCHANGED <<status, msVars, counterVars, moneyVars, timerVars,
                   disputeVars, cancelVars, rentExpired, history>>

\* cancel_escrow: the fee, then the approved milestones, then the client.
CancelEscrow ==
    LET fee == IF PlatformFee > remaining THEN remaining ELSE PlatformFee IN
    /\ Live /\ status = "Active"
    /\ SumOf(InStatus({"Approved"})) <= remaining - fee
    /\ SettleRemaining("Cancelled")
    /\ UNCHANGED <<stranded, startedLedger, cancelVars, otherVars>>

\* expire_escrow (idempotent once Expired, so only the first call is a step).
ExpireEscrow ==
    /\ Live /\ status = "Active"
    /\ deadline = "passed"
    /\ SettleRemaining("Expired")
    /\ UNCHANGED <<stranded, startedLedger, cancelVars, otherVars>>

\* Mutation of PartialCancel: everything but the approved milestones is refunded.
PartialCancelKeepsApproved ==
    LET unallocated == remaining - SumOf(InStatus({"Approved"})) IN
    /\ Live /\ status = "Active"
    /\ unallocated > 0
    /\ remaining' = remaining - unallocated
    /\ held' = held - unallocated
    /\ history' = history \cup {"partialCancel"}
    /\ UNCHANGED <<status, msVars, counterVars, stranded, timerVars,
                   disputeVars, cancelVars, approvals, rentExpired>>

\* partial_cancel refunds what exceeds allocated_amount, which never shrinks.
PartialCancel ==
    LET unallocated == remaining - allocated IN
    /\ Live /\ status = "Active"
    /\ unallocated > 0
    /\ remaining' = remaining - unallocated
    /\ held' = held - unallocated
    /\ history' = history \cup {"partialCancel"}
    /\ UNCHANGED <<status, msVars, counterVars, stranded, timerVars,
                   disputeVars, cancelVars, approvals, rentExpired>>

----------------------------------------------------------------------------
(* Disputes *)

\* Mutation of RaiseDispute: any milestone is frozen, a paid one included.
RaiseDisputeFreezesPaid(m) ==
    /\ Live /\ status = "Active"
    /\ m \in Milestones => ms[m] # "absent"
    /\ status' = "Disputed"
    /\ startedLedger' = "running" /\ startTime' = "running"
    /\ ms' = IF m \in Milestones THEN [ms EXCEPT ![m] = "Disputed"] ELSE ms
    /\ UNCHANGED <<priced, amount, count, allocated, counterVars, moneyVars,
                   timerVars, arbiter, cancelVars, otherVars>>

\* raise_dispute and raise_dispute_with_evidence; m names a milestone or nobody.
RaiseDispute(m) ==
    /\ Live /\ status = "Active"
    /\ m \in Milestones => ms[m] # "absent"
    /\ status' = "Disputed"
    /\ startedLedger' = "running" /\ startTime' = "running"
    /\ ms' = IF m \in InStatus({"Pending", "Submitted"})
               THEN [ms EXCEPT ![m] = "Disputed"] ELSE ms
    /\ submittedCount' = IF m \in InStatus({"Submitted"}) /\ submittedCount > 0
                           THEN submittedCount - 1 ELSE submittedCount
    /\ UNCHANGED <<priced, amount, count, allocated, approvedCount,
                   releasedCount, moneyVars, timerVars, arbiter, cancelVars,
                   otherVars>>

\* assign_dispute_arbiter.
AssignDisputeArbiter ==
    /\ Live /\ status = "Disputed"
    /\ ~arbiter
    /\ arbiter' = TRUE
    /\ UNCHANGED <<status, msVars, counterVars, moneyVars, timerVars,
                   startedLedger, startTime, cancelVars, otherVars>>

\* resolve_dispute by the arbiter or the admin: two amounts that must add up.
ResolveDispute ==
    /\ Live /\ status = "Disputed"
    /\ remaining >= 0        \* or no two non-negative amounts add up to it
    /\ SettleRemaining("Completed")
    /\ startedLedger' = "unset"
    /\ UNCHANGED <<stranded, cancelVars, otherVars>>

\* claim_dispute_timeout halves the balance between the parties.
ClaimDisputeTimeout ==
    /\ HasDisputeTimeout
    /\ Live /\ status = "Disputed"
    /\ startedLedger = "due"
    /\ SettleRemaining("Completed")
    /\ startedLedger' = "unset"
    /\ UNCHANGED <<stranded, cancelVars, otherVars>>

\* submit_ruling by the arbiter once the cooldown has elapsed.
SubmitRuling ==
    /\ Live /\ status = "Disputed"
    /\ arbiter
    /\ startTime = "due"
    /\ SettleRemaining("Completed")
    /\ startedLedger' = "unset"
    /\ UNCHANGED <<stranded, cancelVars, otherVars>>

\* oracle_resolve_dispute: the caller chooses the grace period.
OracleResolveDispute ==
    /\ HasOracle
    /\ Live /\ status = "Disputed"
    /\ startTime # "unset"
    /\ SettleRemaining("Completed")
    /\ UNCHANGED <<startedLedger, stranded, cancelVars, otherVars>>

----------------------------------------------------------------------------
(* Cancellation by request, and slashing *)

\* Mutation of RequestCancellation: the escrow need not be Active.
RequestCancellationAnyStatus(p) ==
    /\ Live
    /\ request = None
    /\ request' = [kind |-> "request", requester |-> p, disputed |-> FALSE,
                   counterpartyApproved |-> FALSE, window |-> "before"]
    /\ status' = "CancellationPending"
    /\ UNCHANGED <<msVars, counterVars, moneyVars, timerVars, disputeVars,
                   slash, otherVars>>

\* request_cancellation.
RequestCancellation(p) ==
    /\ Live /\ status = "Active"
    /\ request = None
    /\ request' = [kind |-> "request", requester |-> p, disputed |-> FALSE,
                   counterpartyApproved |-> FALSE, window |-> "before"]
    /\ status' = "CancellationPending"
    /\ UNCHANGED <<msVars, counterVars, moneyVars, timerVars, disputeVars,
                   slash, otherVars>>

\* client_approve_cancellation, in any status.
ApproveCancellation ==
    /\ Live
    /\ request # None
    /\ request' = [request EXCEPT !.counterpartyApproved = TRUE]
    /\ UNCHANGED <<status, msVars, counterVars, moneyVars, timerVars,
                   disputeVars, slash, otherVars>>

\* execute_cancellation: a share is slashed and held, the rest is paid to the
\* requester.  No test of meta.status.  apply_slash panics on a second record.
ExecuteCancellation ==
    LET slashed == SlashAmount(remaining) IN
    /\ Live
    /\ request # None
    /\ request.counterpartyApproved \/ request.window # "before"
    /\ ~request.disputed
    /\ slash = None
    /\ slash' = [kind |-> "slash", slashedUser |-> request.requester,
                 amount |-> slashed, disputed |-> FALSE, window |-> "open"]
    /\ held' = held - Payable(remaining - slashed)
    /\ status' = "Cancelled"
    /\ remaining' = 0
    /\ request' = None
    /\ UNCHANGED <<msVars, counterVars, stranded, timerVars, disputeVars,
                   otherVars>>

\* Mutation of DisputeCancellation: the dispute consumes the request.
DisputeCancellationConsumes ==
    /\ Live
    /\ request # None
    /\ request.window = "before"
    /\ request' = None
    /\ status' = "Disputed"
    /\ UNCHANGED <<msVars, counterVars, moneyVars, timerVars, disputeVars,
                   slash, otherVars>>

\* dispute_cancellation by anyone but the requester; sets no dispute clock.
DisputeCancellation ==
    /\ Live
    /\ request # None
    /\ ~request.disputed
    /\ request.window = "before"
    /\ request' = [request EXCEPT !.disputed = TRUE]
    /\ status' = "Disputed"
    /\ UNCHANGED <<msVars, counterVars, moneyVars, timerVars, disputeVars,
                   slash, otherVars>>

\* confirm_cancellation by the counterparty, in any status.
ConfirmCancellation ==
    /\ Live
    /\ request # None
    /\ request.window # "after"
    /\ SettleRemaining("Cancelled")
    /\ request' = None
    /\ UNCHANGED <<stranded, startedLedger, slash, otherVars>>

\* Mutation of RejectCancellation: the request is not removed.
RejectCancellationKeepsRequest ==
    /\ Live
    /\ request # None
    /\ request.window # "after"
    /\ status' = "Active"
    /\ UNCHANGED <<msVars, counterVars, moneyVars, timerVars, disputeVars,
                   cancelVars, otherVars>>

\* reject_cancellation by the counterparty, in any status.
RejectCancellation ==
    /\ Live
    /\ request # None
    /\ request.window # "after"
    /\ status' = "Active"
    /\ request' = None
    /\ history' = IF status \in TerminalStatuses
                    THEN history \cup {"revived"} ELSE history
    /\ UNCHANGED <<msVars, counterVars, moneyVars, timerVars, disputeVars,
                   slash, approvals, rentExpired>>

\* finalize_slash; it reads the meta without settling rent.  A transfer of a
\* negative amount panics.
FinalizeSlash ==
    /\ status # "Removed"
    /\ slash # None
    /\ ~slash.disputed
    /\ slash.window = "closed"
    /\ slash.amount >= 0
    /\ held' = held - slash.amount
    /\ slash' = None
    /\ UNCHANGED <<status, msVars, counterVars, remaining, stranded, timerVars,
                   disputeVars, request, otherVars>>

\* dispute_slash by the slashed party.
DisputeSlash ==
    /\ Live
    /\ slash # None
    /\ ~slash.disputed
    /\ slash.window = "open"
    /\ slash' = [slash EXCEPT !.disputed = TRUE]
    /\ UNCHANGED <<status, msVars, counterVars, moneyVars, timerVars,
                   disputeVars, request, otherVars>>

\* resolve_slash_dispute: a reversed slash is paid back, an upheld one is
\* deleted without any transfer.
ResolveSlashDispute(upheld) ==
    /\ Live
    /\ slash # None
    /\ slash.disputed
    /\ upheld \/ slash.amount >= 0
    /\ slash' = None
    /\ held' = IF upheld THEN held ELSE held - slash.amount
    /\ stranded' = IF upheld THEN stranded + slash.amount ELSE stranded
    /\ UNCHANGED <<status, msVars, counterVars, remaining, timerVars,
                   disputeVars, request, otherVars>>

----------------------------------------------------------------------------
(* Rent and time *)

\* collect_rent, callable by anyone, once the rent is exhausted: the remaining
\* balance is refunded and the meta, milestones, request and slash are deleted.
CollectExpiredRent ==
    /\ status # "Removed" /\ rentExpired
    /\ status' = "Removed"
    /\ held' = held - Payable(remaining)
    /\ remaining' = 0
    /\ stranded' = stranded + SlashHeld
    /\ ms' = [m \in Milestones |-> "absent"]
    /\ amount' = [m \in Milestones |-> 0]
    /\ priced' = {} /\ count' = 0 /\ allocated' = 0
    /\ approvedCount' = 0 /\ releasedCount' = 0 /\ submittedCount' = 0
    /\ lock' = "open" /\ deadline' = "none" /\ timelock' = "none"
    /\ arbiter' = FALSE /\ startedLedger' = "unset" /\ startTime' = "unset"
    /\ request' = None /\ slash' = None
    /\ UNCHANGED <<releaseAt, otherVars>>

\* An instant is moved no earlier than in a status that compares it with now.
TimersPass ==
    \/ /\ lock = "locked" /\ lock' = "open"
       /\ UNCHANGED <<deadline, timelock, releaseAt>>
    \/ /\ timelock = "running" /\ timelock' = "expired"
       /\ UNCHANGED <<lock, deadline, releaseAt>>
    \/ /\ status = "Active" /\ deadline = "ahead" /\ deadline' = "passed"
       /\ UNCHANGED <<lock, timelock, releaseAt>>
    \/ /\ status = "Active"
       /\ \E m \in Milestones :
             releaseAt[m] = "waiting" /\ releaseAt' = [releaseAt EXCEPT ![m] = "due"]
       /\ UNCHANGED <<lock, deadline, timelock>>

DisputeClocksPass ==
    /\ status = "Disputed"
    /\ \/ /\ HasDisputeTimeout
          /\ startedLedger = "running" /\ startedLedger' = "due" /\ UNCHANGED startTime
       \/ startTime = "running" /\ startTime' = "due" /\ UNCHANGED startedLedger

RequestWindowPasses ==
    /\ request # None /\ request.window # "after"
    /\ request' = [request EXCEPT !.window =
                     IF request.window = "before" THEN "at" ELSE "after"]
    /\ UNCHANGED slash

SlashWindowPasses ==
    /\ slash # None /\ slash.window = "open"
    /\ slash' = [slash EXCEPT !.window = "closed"]
    /\ UNCHANGED request

\* The ledger clock moves past one of the stored instants.  Once the rent is
\* exhausted only finalize_slash still reads one.
PassageOfTime ==
    /\ status # "Removed"
    /\ \/ ~rentExpired /\ TimersPass /\ UNCHANGED <<disputeVars, cancelVars, rentExpired>>
       \/ ~rentExpired /\ DisputeClocksPass
          /\ UNCHANGED <<timerVars, arbiter, cancelVars, rentExpired>>
       \/ ~rentExpired /\ RequestWindowPasses /\ UNCHANGED <<timerVars, disputeVars, rentExpired>>
       \/ SlashWindowPasses /\ UNCHANGED <<timerVars, disputeVars, rentExpired>>
       \/ /\ ~rentExpired /\ rentExpired' = TRUE
          /\ UNCHANGED <<timerVars, disputeVars, cancelVars>>
    /\ UNCHANGED <<status, msVars, counterVars, moneyVars, approvals, history>>

----------------------------------------------------------------------------
MilestoneStep(m) ==
    \/ SubmitMilestone(m) \/ ApproveMilestone(m) \/ RejectMilestone(m)
    \/ \E isAdmin \in BOOLEAN : ReleaseFunds(m, isAdmin)
    \/ ProcessPendingRelease(m) \/ TriggerOracleRelease(m)

TermsStep ==
    \/ \E a \in AmountChoices, hasPrice \in {FALSE, HasOracle} : AddMilestone(a, hasPrice)
    \/ StartTimelock \/ ExtendLockTime \/ ExtendDeadline

BatchStep ==
    \/ \E x, y \in AmountChoices : BatchAddMilestones(x, y)
    \/ \E a \in Milestones : \E b \in {0} \cup a .. MaxMilestones :  \* in any order
          /\ RepeatedIds \/ a # b
          /\ BatchApproveMilestones(a, b) \/ BatchReleaseFunds(a, b)

SettlementStep ==
    \/ \E a \in Approvers : ApproveRelease(a) \/ RevokeApproval(a)
    \/ CancelEscrow \/ ExpireEscrow \/ PartialCancel

DisputeStep ==
    \/ \E m \in Milestones \cup {0} : RaiseDispute(m)
    \/ AssignDisputeArbiter \/ ResolveDispute \/ ClaimDisputeTimeout
    \/ SubmitRuling \/ OracleResolveDispute

CancellationStep ==
    \/ \E p \in Parties : RequestCancellation(p)
    \/ ApproveCancellation \/ ExecuteCancellation \/ DisputeCancellation
    \/ ConfirmCancellation \/ RejectCancellation

SlashStep ==
    \/ FinalizeSlash \/ DisputeSlash
    \/ \E upheld \in BOOLEAN : ResolveSlashDispute(upheld)

Next ==
    \/ \E m \in Milestones : MilestoneStep(m)
    \/ TermsStep \/ BatchStep \/ SettlementStep \/ DisputeStep \/ CancellationStep
    \/ SlashStep \/ CollectExpiredRent \/ PassageOfTime

Spec == Init /\ [][Next]_vars

----------------------------------------------------------------------------
(* Properties *)

\* Type invariant: every field keeps the shape its Rust type gives it.
TypeOK ==
    /\ status \in OpenStatuses \cup TerminalStatuses
    /\ ms \in [Milestones -> MilestoneStatuses]
    /\ priced \subseteq Milestones
    /\ amount \in [Milestones -> Nat]
    /\ count \in 0 .. MaxMilestones
    /\ allocated \in 0 .. TotalAmount
    /\ approvedCount \in Nat /\ releasedCount \in Nat /\ submittedCount \in Nat
    /\ remaining \in Int /\ held \in Int /\ stranded \in Int
    /\ lock \in {"open", "locked"}
    /\ deadline \in {"none", "ahead", "passed"}
    /\ timelock \in {"none", "running", "expired"}
    /\ releaseAt \in [Milestones -> {"none", "waiting", "due"}]
    /\ approvals \subseteq Approvers
    /\ arbiter \in BOOLEAN
    /\ startedLedger \in {"unset", "running", "due"}
    /\ startTime \in {"unset", "running", "due"}
    /\ request \in Requests \cup {None}
    /\ slash \in SlashRecords \cup {None}
    /\ rentExpired \in BOOLEAN
    /\ history \subseteq IrregularCalls

\* None of the calls that the contract accepts but that break its books was
\* made: a milestone added after partial_cancel, a release on a settled escrow,
\* reject_cancellation on a settled escrow, a batch that names an id twice.
Regular == history \subseteq {"partialCancel"}

\* The contract holds for the escrow exactly what its records say it owes: the
\* remaining balance, the held slash, and what upheld slashes left behind.
\* Irregular calls can only make it hold less, never more.
NoSurplus      == held <= remaining + SlashHeld + stranded
FundsAccounted ==
    /\ NoSurplus
    /\ Regular => held = remaining + SlashHeld + stranded

\* While the escrow is open, its balance covers every milestone that can still
\* be paid, through disputes, refused cancellations and partial refunds.
Solvent ==
    Regular =>
        /\ remaining >= 0 /\ held >= 0
        /\ status \in OpenStatuses =>
             SumOf(InStatus(MilestoneStatuses \ {"absent", "Released"})) <= remaining

\* The O(1) counters of EscrowMeta, on which completion is decided, agree with
\* the milestones they summarise, whatever order of calls produced them, short
\* of a batch that names an id twice; no call adds a milestone uncounted.
CountersAgree ==
    /\ count = Cardinality(InStatus(MilestoneStatuses \ {"absent"}))
    /\ "repeatedId" \notin history =>
         /\ releasedCount = Cardinality(InStatus({"Released"}))
         /\ approvedCount = Cardinality(InStatus({"Approved", "Released"}))
         /\ Cardinality(InStatus({"Submitted"})) <= submittedCount

\* A cancellation request lives only where the code that ignores meta.status
\* can cope with it: never beside an Active escrow, never beside a slash
\* record (apply_slash would panic), and undisputed while it is pending.
CancellationDiscipline ==
    /\ status = "Active" => request = None
    /\ status = "CancellationPending" => request # None /\ ~request.disputed
    /\ slash # None => request = None /\ status \notin OpenStatuses

\* A dispute that did not come from a cancellation request always has its two
\* clocks, so the ruling, the oracle and the timeout can all reach it.
DisputeHasClock ==
    status = "Disputed" /\ request = None =>
        startTime # "unset" /\ startedLedger # "unset"

\* Once an escrow is settled and no cancellation request survives, no sequence
\* of calls reopens it or lets a new request in.
SettledStaysSettled ==
    [][(status \in TerminalStatuses /\ request = None) =>
         (status' \in TerminalStatuses /\ request' = None)]_vars

\* A milestone in MS_TERMINAL (types.rs) never leaves it: no call resubmits,
\* freezes or overwrites a milestone that was paid or disputed, short of rent
\* expiry deleting the escrow.
TerminalMilestonesStay ==
    [][\A m \in InStatus({"Released", "Disputed"}) :
         ms'[m] = ms[m] \/ status' = "Removed"]_vars

----------------------------------------------------------------------------
(* What the documentation says and the code does not do *)

\* property_tests.rs, INVARIANT 2: when an escrow is cancelled "no funds may be
\* destroyed or created".  Here: it never pays out more than was deposited for it,
\* leaving aside the batches that pay an id twice.
NeverOverdrawn == "repeatedId" \notin history => held >= 0

----------------------------------------------------------------------------
\* The escrow as an account of its deposit.
Account == INSTANCE EscrowAccount WITH
    balance <- remaining,
    paid    <- TotalAmount - held,
    penalty <- SlashHeld,
    lost    <- stranded,
    final   <- status \in TerminalStatuses /\ request = None,
    sound   <- Regular

\* Every call moves the deposit in one of the ways EscrowAccount allows: part
\* of the balance to a payee, all of it at once, a penalty paid or lost; and a
\* settled escrow without a request moves nothing but its penalty.
ImplementsAccount == Account!AccountSpec
=============================================================================
