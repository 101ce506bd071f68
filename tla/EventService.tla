----------------------------- MODULE EventService -----------------------------
(***************************************************************************)
(* backend/services/eventIndexer.js with stellarService.js: the poller that *)
(* the API server starts.  It mirrors the contract's events in PostgreSQL   *)
(* and announces each one to the webhook service.                           *)
(*                                                                         *)
(* setInterval starts a tick whether or not the last one has returned, and  *)
(* nothing keeps two ticks apart: what they share is the cursor in memory.  *)
(* Each handler is one database transaction of its row changes and an       *)
(* insert into contract_events, whose unique key is what tells a repeated   *)
(* event.  A step is the code between two awaits.                           *)
(*                                                                         *)
(* One ledger carries one event and all events are about one escrow with    *)
(* one milestone.  The process may die and its calls may fail.              *)
(***************************************************************************)
EXTENDS Integers, Sequences, FiniteSets

CONSTANTS
    Ticks,        \* ticks that can be in flight
    EventLogs,    \* event logs the contract may emit, one event per ledger
    PageLimit,    \* events the RPC node returns in one page
    TotalAmount,  \* amount in esc_crt
    Released,     \* amount in funds_rel
    MaxCrashes,   \* deaths of the process
    MaxFailures   \* failing RPC and database calls

ASSUME ServiceAssumption ==
    /\ \A l \in EventLogs : l \in Seq(STRING) /\ l # <<>>
    /\ PageLimit \in Nat \ {0}
    /\ TotalAmount \in Nat /\ Released \in Nat
    /\ MaxCrashes \in Nat /\ MaxFailures \in Nat

VARIABLES
    log,        \* the events of this behaviour
    closed,     \* ledgers the network has closed
    rows,       \* the escrow, milestone and dispute rows
    recorded,   \* contract_events: ledgers whose event is stored
    announced,  \* calls of queueEventWebhooks for each event
    saved,      \* indexerState.lastProcessedLedger
    last,       \* lastProcessedLedger in memory
    up,         \* the process runs
    pc,         \* the call each tick waits for
    next, end,  \* events the tick has fetched and not yet dispatched
    latest,     \* result of getLatestLedger in each tick
    passed,     \* history: events the cursor moved past that nobody fetched
    crashes, failures

databaseVars == <<rows, recorded, saved>>
tickVars     == <<pc, next, end, latest>>
countVars    == <<crashes, failures>>
serviceVars  == <<log, closed, databaseVars, announced, last, up, tickVars,
                  passed, countVars>>

----------------------------------------------------------------------------
(* The handlers: what one event does to the rows. *)

NoRows == [escrow |-> "none", balance |-> 0, milestone |-> "none", dispute |-> "none"]

\* upsert with an empty update: a row that exists is left alone.
HandleEscrowCreated(r) ==
    IF r.escrow # "none" THEN r
    ELSE [r EXCEPT !.escrow = "Active", !.balance = TotalAmount]
HandleMilestoneAdded(r) ==
    IF r.milestone # "none" THEN r ELSE [r EXCEPT !.milestone = "Pending"]

\* updateMany: without a row nothing happens.
SetMilestone(r, st) == IF r.milestone = "none" THEN r ELSE [r EXCEPT !.milestone = st]
SetEscrow(r, st)    == IF r.escrow = "none" THEN r ELSE [r EXCEPT !.escrow = st]

HandleMilestoneSubmitted(r) == SetMilestone(r, "Submitted")
HandleMilestoneApproved(r)  == SetMilestone(r, "Approved")
HandleMilestoneRejected(r)  == SetMilestone(r, "Rejected")
HandleMilestoneDisputed(r)  == SetMilestone(r, "Rejected")
HandleFundsReleased(r) ==
    IF r.escrow = "none" THEN r ELSE [r EXCEPT !.balance = @ - Released]
HandleEscrowCancelled(r) == SetEscrow(r, "Cancelled")
HandleDisputeRaised(r) ==
    [SetEscrow(r, "Disputed") EXCEPT !.dispute = IF @ = "none" THEN "raised" ELSE @]
HandleDisputeResolved(r) ==
    [SetEscrow(r, "Completed") EXCEPT !.dispute = IF @ = "none" THEN @ ELSE "resolved"]

Handled == {"esc_crt", "mil_add", "mil_sub", "mil_apr", "mil_rej", "mil_dis",
            "funds_rel", "esc_can", "dis_rai", "dis_res"}

Handler(kind, r) ==
    CASE kind = "esc_crt"   -> HandleEscrowCreated(r)
      [] kind = "mil_add"   -> HandleMilestoneAdded(r)
      [] kind = "mil_sub"   -> HandleMilestoneSubmitted(r)
      [] kind = "mil_apr"   -> HandleMilestoneApproved(r)
      [] kind = "mil_rej"   -> HandleMilestoneRejected(r)
      [] kind = "mil_dis"   -> HandleMilestoneDisputed(r)
      [] kind = "funds_rel" -> HandleFundsReleased(r)
      [] kind = "esc_can"   -> HandleEscrowCancelled(r)
      [] kind = "dis_rai"   -> HandleDisputeRaised(r)
      [] kind = "dis_res"   -> HandleDisputeResolved(r)
      [] OTHER              -> r

----------------------------------------------------------------------------
Ledgers  == 1 .. Len(log)
Known(l) == log[l] \in Handled
At(t, step)   == up /\ pc[t] = step
Goto(t, step) == pc' = [pc EXCEPT ![t] = step]

\* The tick is over; its locals are gone.
End(t) ==
    /\ pc' = [pc EXCEPT ![t] = "idle"]
    /\ next' = [next EXCEPT ![t] = 1] /\ end' = [end EXCEPT ![t] = 0]
    /\ latest' = [latest EXCEPT ![t] = 1]

\* The indexer starts at the ledger the contract was deployed in.
ServiceInit ==
    /\ log \in EventLogs
    /\ closed = 1
    /\ rows = NoRows /\ recorded = {}
    /\ announced = [l \in Ledgers |-> 0]
    /\ saved = 1 /\ last = 1 /\ up = TRUE
    /\ pc = [t \in Ticks |-> "idle"]
    /\ next = [t \in Ticks |-> 1] /\ end = [t \in Ticks |-> 0]
    /\ latest = [t \in Ticks |-> 1]
    /\ passed = {}
    /\ crashes = 0 /\ failures = 0

\* Mutation of GetContractEvents: the ledger of the cursor counts as processed.
GetContractEventsAfter(t) ==
    /\ At(t, "idle")
    /\ next' = [next EXCEPT ![t] = last + 1]
    /\ end' = [end EXCEPT ![t] =
         IF closed <= last + PageLimit THEN closed ELSE last + PageLimit]
    /\ Goto(t, "getLatestLedger")
    /\ UNCHANGED <<log, closed, databaseVars, announced, last, up, latest,
                   passed, countVars>>

\* getContractEvents(lastProcessedLedger): one page, that ledger included.
GetContractEvents(t) ==
    /\ At(t, "idle")
    /\ next' = [next EXCEPT ![t] = last]
    /\ end' = [end EXCEPT ![t] =
         IF closed < last + PageLimit THEN closed ELSE last + PageLimit - 1]
    /\ Goto(t, "getLatestLedger")
    /\ UNCHANGED <<log, closed, databaseVars, announced, last, up, latest,
                   passed, countVars>>

GetLatestLedger(t) ==
    /\ At(t, "getLatestLedger")
    /\ latest' = [latest EXCEPT ![t] = closed]
    /\ Goto(t, "dispatchEvent")
    /\ UNCHANGED <<log, closed, databaseVars, announced, last, up, next, end,
                   passed, countVars>>

\* dispatchEvent runs the next event of the page to its end.
Dispatching(t, l) == At(t, "dispatchEvent") /\ next[t] <= end[t] /\ l = next[t]

\* Mutation of RecordEvent: the rows change outside the transaction, before the
\* insert finds out that the event is stored.
RecordEventTwice(t, l) ==
    /\ Dispatching(t, l) /\ Known(l)
    /\ rows' = Handler(log[l], rows)
    /\ recorded' = recorded \cup {l}
    /\ announced' = [announced EXCEPT ![l] = IF l \in recorded THEN @ ELSE 1]
    /\ next' = [next EXCEPT ![t] = l + 1]
    /\ UNCHANGED <<log, closed, saved, last, up, pc, end, latest, passed, countVars>>

\* The transaction commits; queueEventWebhooks is called and not awaited.
RecordEvent(t, l) ==
    /\ Dispatching(t, l) /\ Known(l) /\ l \notin recorded
    /\ rows' = Handler(log[l], rows)
    /\ recorded' = recorded \cup {l}
    /\ announced' = [announced EXCEPT ![l] = @ + 1]
    /\ next' = [next EXCEPT ![t] = l + 1]
    /\ UNCHANGED <<log, closed, saved, last, up, pc, end, latest, passed, countVars>>

\* Mutation of SkipEvent: P2002 is caught inside the handler, so the code after
\* it announces the event once more.
SkipEventAnnounced(t, l) ==
    /\ Dispatching(t, l) /\ (~Known(l) \/ l \in recorded)
    /\ announced' = [announced EXCEPT ![l] = IF @ < 2 THEN @ + 1 ELSE @]
    /\ next' = [next EXCEPT ![t] = l + 1]
    /\ UNCHANGED <<log, closed, databaseVars, last, up, pc, end, latest, passed,
                   countVars>>

\* An event type without a handler, or P2002: the transaction is rolled back.
SkipEvent(t, l) ==
    /\ Dispatching(t, l) /\ (~Known(l) \/ l \in recorded)
    /\ next' = [next EXCEPT ![t] = l + 1]
    /\ UNCHANGED <<log, closed, databaseVars, announced, last, up, pc, end, latest,
                   passed, countVars>>

\* Mutation of AdvanceCursor: the cursor names the next ledger to read.
AdvanceCursorBeyond(t) ==
    /\ At(t, "dispatchEvent") /\ next[t] > end[t]
    /\ IF latest[t] > last
         THEN /\ last' = latest[t] + 1
              /\ passed' = passed \cup (end[t] + 1 .. latest[t] - 1)
              /\ Goto(t, "saveCursor") /\ UNCHANGED <<next, end, latest>>
         ELSE UNCHANGED <<last, passed>> /\ End(t)
    /\ UNCHANGED <<log, closed, databaseVars, announced, up, countVars>>

\* The end of the page: the cursor moves to the ledger that was the latest, not
\* to the last event of the page.
AdvanceCursor(t) ==
    /\ At(t, "dispatchEvent") /\ next[t] > end[t]
    /\ IF latest[t] > last
         THEN /\ last' = latest[t]
              /\ passed' = passed \cup (end[t] + 1 .. latest[t] - 1)
              /\ Goto(t, "saveCursor") /\ UNCHANGED <<next, end, latest>>
         ELSE UNCHANGED <<last, passed>> /\ End(t)
    /\ UNCHANGED <<log, closed, databaseVars, announced, up, countVars>>

SaveCursor(t) ==
    /\ At(t, "saveCursor")
    /\ saved' = latest[t]
    /\ End(t)
    /\ UNCHANGED <<log, closed, rows, recorded, announced, last, up, passed,
                   countVars>>

\* Mutation of Fail: dispatchEvent swallows every error, as the guide advises.
FailSwallowed(t) ==
    /\ At(t, "dispatchEvent") /\ next[t] <= end[t]
    /\ failures < MaxFailures /\ failures' = failures + 1
    /\ next' = [next EXCEPT ![t] = @ + 1]
    /\ UNCHANGED <<log, closed, databaseVars, announced, last, up, pc, end, latest,
                   passed, crashes>>

\* A call throws and the tick is over.  The transaction or the cursor may have
\* been committed all the same; then the event is stored and not announced.
Fail(t) ==
    /\ up /\ pc[t] # "idle"
    /\ failures < MaxFailures /\ failures' = failures + 1
    /\ \/ UNCHANGED databaseVars
       \/ \E l \in Ledgers :
             /\ Dispatching(t, l) /\ Known(l) /\ l \notin recorded
             /\ rows' = Handler(log[l], rows)
             /\ recorded' = recorded \cup {l}
             /\ UNCHANGED saved
       \/ /\ At(t, "saveCursor")
          /\ saved' = latest[t] /\ UNCHANGED <<rows, recorded>>
    /\ End(t)
    /\ UNCHANGED <<log, closed, announced, last, up, passed, crashes>>

\* The steps of a tick but for the one that announces an event.
TickStep(t) ==
    \/ GetContractEvents(t) \/ GetLatestLedger(t)
    \/ \E l \in Ledgers : SkipEvent(t, l)
    \/ AdvanceCursor(t) \/ SaveCursor(t)

----------------------------------------------------------------------------
(* The process and the network *)

Crash ==
    /\ up
    /\ crashes < MaxCrashes /\ crashes' = crashes + 1
    /\ up' = FALSE
    /\ pc' = [t \in Ticks |-> "idle"]
    /\ next' = [t \in Ticks |-> 1] /\ end' = [t \in Ticks |-> 0]
    /\ latest' = [t \in Ticks |-> 1]
    /\ UNCHANGED <<log, closed, databaseVars, announced, last, passed, failures>>

\* startIndexer reads the saved cursor.
Restart ==
    /\ ~up
    /\ up' = TRUE /\ last' = saved
    /\ UNCHANGED <<log, closed, databaseVars, announced, tickVars, passed, countVars>>

CloseLedger ==
    /\ closed < Len(log)
    /\ closed' = closed + 1
    /\ UNCHANGED <<log, databaseVars, announced, last, up, tickVars, passed, countVars>>

ServiceNext ==
    \/ \E t \in Ticks : \/ TickStep(t) \/ Fail(t)
                        \/ \E l \in Ledgers : RecordEvent(t, l)
    \/ Crash \/ Restart \/ CloseLedger

ServiceSpec == ServiceInit /\ [][ServiceNext]_serviceVars

----------------------------------------------------------------------------
(* Properties *)

\* Type invariant; neither cursor runs ahead of the network.
ServiceTypeOK ==
    /\ log \in EventLogs /\ closed \in Ledgers
    /\ rows \in [escrow : {"none", "Active", "Disputed", "Cancelled", "Completed"},
                balance : Int,
                milestone : {"none", "Pending", "Submitted", "Approved", "Rejected"},
                dispute : {"none", "raised", "resolved"}]
    /\ recorded \subseteq 1 .. closed
    /\ announced \in [Ledgers -> Nat]
    /\ saved \in 1 .. closed /\ last \in 1 .. closed
    /\ up \in BOOLEAN
    /\ pc \in [Ticks -> {"idle", "getLatestLedger", "dispatchEvent", "saveCursor"}]
    /\ next \in [Ticks -> 1 .. closed + 1] /\ end \in [Ticks -> 0 .. closed]
    /\ latest \in [Ticks -> 1 .. closed]
    /\ passed \subseteq 1 .. closed
    /\ crashes \in 0 .. MaxCrashes /\ failures \in 0 .. MaxFailures

\* Stored, without a handler, or passed over.
Settled(l) == l \in recorded \/ ~Known(l) \/ l \in passed

\* The comment "syncs" of the module: no interleaving of ticks, crashes and
\* failing calls moves a cursor past an event that is not in the database, but
\* for those that closed between the fetch and getLatestLedger or did not fit
\* the page.
NothingElseLost == \A l \in Ledgers : l < last \/ l < saved => Settled(l)

\* The rows after the first n events, each handled once and in order.
Replay[n \in Nat] == IF n = 0 THEN NoRows ELSE Handler(log[n], Replay[n - 1])

\* As long as no event was passed over, the rows are what the contract's log
\* says at some point of it, however ticks overlap and events are fetched
\* again: none applied twice, none out of order.
RowsMirrorLog ==
    passed = {} =>
       \E n \in 0 .. closed :
          /\ recorded = {l \in 1 .. n : Known(l)}
          /\ rows = Replay[n]

\* An event is announced to the webhook service at most once, and only when it
\* is stored.
AnnouncedOnce ==
    \A l \in Ledgers : announced[l] <= (IF l \in recorded THEN 1 ELSE 0)
=============================================================================
