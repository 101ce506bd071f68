---------------------------- MODULE WebhookDelivery ----------------------------
(***************************************************************************)
(* backend/services/webhookService.js, queues/webhookQueue.js and           *)
(* workers/webhookWorker.js: from the announcement of an event to the       *)
(* answer of each subscriber.                                               *)
(*                                                                         *)
(* queueEventWebhooks runs in the API process, nobody awaits it, and it     *)
(* takes three calls per subscription.  The workers are processes of their  *)
(* own that share the BullMQ queue.  BullMQ is not part of the repository:  *)
(* a job that fails is tried again until its attempts are used up; a job    *)
(* whose worker dies or is too slow to renew its lock is given back to the  *)
(* queue, and failed without a call of the processor the second time.       *)
(***************************************************************************)
EXTENDS Integers, FiniteSets

CONSTANTS
    Events,      \* events that may be announced
    Subs,        \* subscriptions
    Workers,     \* webhook workers
    Attempts,    \* DEFAULT_RETRY_ATTEMPTS
    MaxStalls,   \* maxStalledCount of BullMQ
    MaxTroubles  \* failing database or Redis calls and deaths of workers

ASSUME DeliveryAssumption ==
    /\ Attempts \in Nat \ {0} /\ MaxStalls \in Nat /\ MaxTroubles \in Nat

VARIABLES
    active,     \* rows of webhook_subscriptions
    call,       \* queueEventWebhooks for each event
    status,     \* webhookDelivery.status for each event and subscription
    job,        \* the BullMQ job of each delivery
    worker,     \* the job each worker processes
    dropped,    \* history: events whose call was cut short
    unrecorded, \* history: deliveries with a failing update by a worker
    doubled,    \* history: deliveries whose job was taken from a running worker
    troubles

deliveryVars == <<active, call, status, job, worker, dropped, unrecorded, doubled,
                  troubles>>

Deliveries == Events \X Subs
Nobody == "nobody"
NoJob  == [state |-> "none", attemptsMade |-> 0, stalls |-> 0, owner |-> Nobody]
NoCall == [at |-> "none", sub |-> Nobody, todo |-> {}]
Idle   == [at |-> "idle", delivery |-> <<>>, attempt |-> 0]
Of(e)  == <<e, call[e].sub>>

DeliveryInit ==
    /\ active = Subs
    /\ call = [e \in Events |-> NoCall]
    /\ status = [d \in Deliveries |-> "none"]
    /\ job = [d \in Deliveries |-> NoJob]
    /\ worker = [w \in Workers |-> Idle]
    /\ dropped = {} /\ unrecorded = {} /\ doubled = {}
    /\ troubles = 0

Trouble == troubles < MaxTroubles /\ troubles' = troubles + 1

----------------------------------------------------------------------------
(* queueEventWebhooks *)

\* interested are the subscriptions whose eventTypes has the type of the event.
QueueEventWebhooks(e, interested) ==
    /\ call[e].at = "none"
    /\ call' = [call EXCEPT ![e] = [NoCall EXCEPT !.at = "findMany", !.todo = interested]]
    /\ UNCHANGED <<active, status, job, worker, dropped, unrecorded, doubled, troubles>>

FindSubscriptions(e) ==
    /\ call[e].at = "findMany"
    /\ LET found == active \cap call[e].todo IN
       call' = [call EXCEPT ![e] =
         IF found = {} THEN NoCall ELSE [NoCall EXCEPT !.at = "create", !.todo = found]]
    /\ UNCHANGED <<active, status, job, worker, dropped, unrecorded, doubled, troubles>>

\* The row is created as pending, connected to its subscription.
CreateDelivery(e, s) ==
    /\ call[e].at = "create" /\ s \in call[e].todo /\ s \in active
    /\ status' = [status EXCEPT ![<<e, s>>] = "pending"]
    /\ call' = [call EXCEPT ![e].at = "update", ![e].sub = s]
    /\ UNCHANGED <<active, job, worker, dropped, unrecorded, doubled, troubles>>

\* The signed payload is written into the row.
UpdatePayload(e) ==
    /\ call[e].at = "update" /\ status[Of(e)] # "deleted"
    /\ call' = [call EXCEPT ![e].at = "enqueue"]
    /\ UNCHANGED <<active, status, job, worker, dropped, unrecorded, doubled, troubles>>

\* enqueueWebhookDelivery, then the next subscription.
EnqueueWebhookDelivery(e) ==
    /\ call[e].at = "enqueue"
    /\ job' = [job EXCEPT ![Of(e)].state = "waiting"]
    /\ LET rest == call[e].todo \ {call[e].sub} IN
       call' = [call EXCEPT ![e] =
         IF rest = {} THEN NoCall ELSE [NoCall EXCEPT !.at = "create", !.todo = rest]]
    /\ UNCHANGED <<active, status, worker, dropped, unrecorded, doubled, troubles>>

CutShort(e) ==
    /\ dropped' = dropped \cup {e}
    /\ call' = [call EXCEPT ![e] = NoCall]
    /\ UNCHANGED <<active, status, job, worker, unrecorded, doubled>>

\* A call rejects: the rest of the subscriptions get nothing.
CallRejects(e) == call[e].at # "none" /\ Trouble /\ CutShort(e)

\* The row it writes to, or the subscription it connects to, was deleted.
CallFindsDeleted(e) ==
    /\ \/ call[e].at = "create" /\ call[e].todo \ active # {}
       \/ call[e].at = "update" /\ status[Of(e)] = "deleted"
    /\ CutShort(e)
    /\ UNCHANGED troubles

\* The API process dies.
CallsDie ==
    /\ dropped' = dropped \cup {e \in Events : call[e].at # "none"}
    /\ call' = [e \in Events |-> NoCall]
    /\ UNCHANGED <<active, status, job, worker, unrecorded, doubled, troubles>>

CallStep(e) ==
    \/ FindSubscriptions(e) \/ UpdatePayload(e) \/ EnqueueWebhookDelivery(e)
    \/ \E s \in Subs : CreateDelivery(e, s)
    \/ CallFindsDeleted(e)

\* deleteSubscription; the deliveries go with it, their jobs stay.
DeleteSubscription(s) ==
    /\ s \in active
    /\ active' = active \ {s}
    /\ status' = [d \in Deliveries |->
         IF d[2] = s /\ status[d] # "none" THEN "deleted" ELSE status[d]]
    /\ UNCHANGED <<call, job, worker, dropped, unrecorded, doubled, troubles>>

----------------------------------------------------------------------------
(* processWebhookJob *)

\* job.attemptsMade + 1 is read when the processor starts.
TakeJob(w, d) ==
    /\ worker[w].at = "idle" /\ job[d].state = "waiting"
    /\ job' = [job EXCEPT ![d].state = "active", ![d].owner = w]
    /\ worker' = [worker EXCEPT ![w] =
         [at |-> "fetch", delivery |-> d, attempt |-> job[d].attemptsMade + 1]]
    /\ UNCHANGED <<active, call, status, dropped, unrecorded, doubled, troubles>>

\* The subscriber answers 2xx, or something else or nothing.
Fetch(w) ==
    /\ worker[w].at = "fetch"
    /\ \E answer \in {"updateSuccess", "updateFailure"} :
          worker' = [worker EXCEPT ![w].at = answer]
    /\ UNCHANGED <<active, call, status, job, dropped, unrecorded, doubled, troubles>>

\* An update that throws is caught by the handler of a failed delivery, even
\* if it was committed.
UpdateSuccess(w) ==
    LET d == worker[w].delivery
        Set == status' = [status EXCEPT ![d] = "success"]
        Become(step) == worker' = [worker EXCEPT ![w].at = step] IN
    /\ worker[w].at = "updateSuccess"
    /\ \/ status[d] # "deleted" /\ Set /\ Become("complete")
          /\ UNCHANGED <<unrecorded, troubles>>
       \/ status[d] = "deleted" /\ Become("updateFailure")
          /\ UNCHANGED <<status, unrecorded, troubles>>
       \/ Trouble /\ unrecorded' = unrecorded \cup {d} /\ Become("updateFailure")
          /\ status[d] # "deleted" /\ (Set \/ UNCHANGED status)
    /\ UNCHANGED <<active, call, job, dropped, doubled>>

\* Mutation of UpdateFailure: the last attempt is recorded like any other.
UpdateFailureNeverTerminal(w) ==
    /\ worker[w].at = "updateFailure"
    /\ status' = [status EXCEPT ![worker[w].delivery] =
         IF @ = "deleted" THEN @ ELSE "pending"]
    /\ worker' = [worker EXCEPT ![w].at = "retry"]
    /\ UNCHANGED <<active, call, job, dropped, unrecorded, doubled, troubles>>

UpdateFailure(w) ==
    LET d == worker[w].delivery IN
    /\ worker[w].at = "updateFailure"
    /\ \/ /\ status' = [status EXCEPT ![d] =
               IF @ = "deleted" THEN @
               ELSE IF worker[w].attempt >= Attempts THEN "failed" ELSE "pending"]
          /\ UNCHANGED <<unrecorded, troubles>>
       \/ Trouble /\ unrecorded' = unrecorded \cup {d} /\ UNCHANGED status
    /\ worker' = [worker EXCEPT ![w].at = "retry"]
    /\ UNCHANGED <<active, call, job, dropped, doubled>>

\* Mutation of Finish: a 2xx answer is thrown like a failure.
FinishAlwaysThrows(w) ==
    LET d == worker[w].delivery
        made == job[d].attemptsMade + 1 IN
    /\ worker[w].at \in {"complete", "retry"}
    /\ IF job[d].owner # w THEN UNCHANGED job
       ELSE job' = [job EXCEPT ![d].attemptsMade = made, ![d].owner = Nobody,
              ![d].state = IF made >= Attempts THEN "failed" ELSE "waiting"]
    /\ worker' = [worker EXCEPT ![w] = Idle]
    /\ UNCHANGED <<active, call, status, dropped, unrecorded, doubled, troubles>>

\* The processor returned or threw; BullMQ heeds only the owner of the job.
Finish(w) ==
    LET d == worker[w].delivery
        made == job[d].attemptsMade + 1 IN
    /\ worker[w].at \in {"complete", "retry"}
    /\ IF job[d].owner # w THEN UNCHANGED job
       ELSE job' = [job EXCEPT ![d].attemptsMade = made, ![d].owner = Nobody,
              ![d].state = IF worker[w].at = "complete" THEN "completed"
                           ELSE IF made >= Attempts THEN "failed" ELSE "waiting"]
    /\ worker' = [worker EXCEPT ![w] = Idle]
    /\ UNCHANGED <<active, call, status, dropped, unrecorded, doubled, troubles>>

WorkerStep(w) ==
    \/ \E d \in Deliveries : TakeJob(w, d)
    \/ Fetch(w) \/ UpdateSuccess(w) \/ UpdateFailure(w) \/ Finish(w)

WorkerDies(w) ==
    /\ worker[w].at # "idle" /\ Trouble
    /\ job' = [d \in Deliveries |->
         IF job[d].owner = w THEN [job[d] EXCEPT !.owner = Nobody] ELSE job[d]]
    /\ worker' = [worker EXCEPT ![w] = Idle]
    /\ UNCHANGED <<active, call, status, dropped, unrecorded, doubled>>

\* The lock of an active job is gone.
GiveBack(d) ==
    job' = [job EXCEPT ![d].owner = Nobody, ![d].stalls = @ + 1,
              ![d].state = IF job[d].stalls >= MaxStalls THEN "failed" ELSE "waiting"]

StalledCheck(d) ==
    /\ job[d].state = "active" /\ job[d].owner = Nobody
    /\ GiveBack(d)
    /\ UNCHANGED <<active, call, status, worker, dropped, unrecorded, doubled, troubles>>

LockLost(d) ==
    /\ job[d].state = "active" /\ job[d].owner # Nobody
    /\ Trouble
    /\ GiveBack(d)
    /\ doubled' = doubled \cup {d}
    /\ UNCHANGED <<active, call, status, worker, dropped, unrecorded>>

DeliveryStep ==
    \/ \E e \in Events : CallStep(e) \/ CallRejects(e)
    \/ \E s \in Subs : DeleteSubscription(s)
    \/ \E w \in Workers : WorkerStep(w) \/ WorkerDies(w)
    \/ \E d \in Deliveries : StalledCheck(d) \/ LockLost(d)

\* The event loop of the API runs its calls on, the workers and the check for
\* stalled jobs run; nobody has to fail or to unsubscribe.
DeliveryFairness ==
    /\ \A e \in Events : WF_deliveryVars(CallStep(e))
    /\ \A w \in Workers : WF_deliveryVars(WorkerStep(w))
    /\ \A d \in Deliveries : WF_deliveryVars(StalledCheck(d))

----------------------------------------------------------------------------
(* Properties *)

\* The record of the worker for a delivery that the subscriber has accepted is
\* never taken back, unless its job was given back to the queue or an update
\* failed: in particular no later attempt of the same job turns it to pending
\* or failed.
SuccessStays ==
    [][\A d \in Deliveries :
         /\ status[d] = "success" /\ status'[d] # "success"
         => \/ status'[d] = "deleted"
            \/ job[d].stalls > 0 \/ d \in unrecorded]_deliveryVars

\* A delivery that has reached the queue is decided in the end, success or
\* failed, even if a worker dies over it once: only a second death, a worker
\* that overtakes itself or a failing update leaves it pending.
QueuedIsDecided ==
    \A d \in Deliveries :
       job[d].state = "waiting" ~>
          \/ status[d] \in {"success", "failed", "deleted"}
          \/ job[d].stalls > MaxStalls \/ d \in unrecorded \cup doubled
=============================================================================
