----------------------------- MODULE EventPipeline -----------------------------
(***************************************************************************)
(* EventService and WebhookDelivery together: RecordEvent starts            *)
(* queueEventWebhooks in the same process, without awaiting it, so a crash  *)
(* of the API takes the ticks and these calls down at once.  The event of a *)
(* ledger is named by its ledger.                                           *)
(***************************************************************************)
EXTENDS EventService, WebhookDelivery

CONSTANT SubscribedTo  \* the event types of each subscription

ASSUME PipelineAssumption ==
    /\ SubscribedTo \in [Subs -> SUBSET STRING]
    /\ \A l \in EventLogs : 1 .. Len(l) \subseteq Events

pipelineVars == <<serviceVars, deliveryVars>>

Interested(l) == {s \in Subs : log[l] \in SubscribedTo[s]}

PipelineInit == ServiceInit /\ DeliveryInit

AnnounceEvent(t, l) == RecordEvent(t, l) /\ QueueEventWebhooks(l, Interested(l))
ApiDies == Crash /\ CallsDie

ServiceAlone ==
    /\ \/ \E t \in Ticks : TickStep(t) \/ Fail(t)
       \/ Restart \/ CloseLedger
    /\ UNCHANGED deliveryVars

PipelineNext ==
    \/ \E t \in Ticks, l \in Ledgers : AnnounceEvent(t, l)
    \/ ServiceAlone
    \/ DeliveryStep /\ UNCHANGED serviceVars
    \/ ApiDies

\* The timer of the indexer keeps firing and its calls answer; the network
\* closes ledgers; a dead API is started again.
PipelineFairness ==
    /\ \A t \in Ticks :
          WF_pipelineVars(\/ TickStep(t) /\ UNCHANGED deliveryVars
                          \/ \E l \in Ledgers : AnnounceEvent(t, l))
    /\ WF_pipelineVars(Restart /\ UNCHANGED deliveryVars)
    /\ WF_pipelineVars(CloseLedger /\ UNCHANGED deliveryVars)
    /\ DeliveryFairness

PipelineSpec == PipelineInit /\ [][PipelineNext]_pipelineVars /\ PipelineFairness

----------------------------------------------------------------------------
(* Properties *)

\* What can come between an event on the chain and its subscriber: it was
\* passed over, its commit was not seen, its call was cut short, or its job
\* was lost.
Excused(l, s) ==
    \/ l \in passed \/ l \in dropped
    \/ l \in recorded /\ announced[l] = 0
    \/ <<l, s>> \in unrecorded \cup doubled
    \/ job[<<l, s>>].stalls > MaxStalls
    \/ s \notin active

\* Every event that a subscriber asked for reaches it, or is given up after the
\* last attempt, although ticks overlap and fetch it twice, the API is started
\* again in between and a worker dies: nothing but the excuses above stops it on
\* the way.  One of them is a crash that cuts queueEventWebhooks short.
EventsReachSubscribers ==
    \A l \in Events, s \in Subs :
       (l \in Ledgers /\ Known(l) /\ s \in Interested(l)) ~>
          (status[<<l, s>>] \in {"success", "failed"} \/ Excused(l, s))
=============================================================================
