-------------------------- MODULE EventPipeline_proofs -------------------------
(***************************************************************************)
(* Theorems about the event pipeline.  First EventService alone, for any    *)
(* number of overlapping ticks, any event log, any page size and any number *)
(* of crashes and failing calls; then WebhookDelivery as it runs in the     *)
(* pipeline, for any subscriptions, workers, attempts and troubles; and     *)
(* that the pipeline takes only steps of EventService.                      *)
(***************************************************************************)
EXTENDS EventPipeline, WellFoundedInduction, TLAPS

Constants ==
    /\ \A l \in EventLogs : l \in Seq(STRING) /\ Len(l) \in Nat \ {0}
    /\ PageLimit \in Nat \ {0}
    /\ TotalAmount \in Nat /\ Released \in Nat
    /\ MaxCrashes \in Nat /\ MaxFailures \in Nat

LEMMA ConstantFacts == Constants
<1>1. ASSUME NEW l \in EventLogs
      PROVE  l \in Seq(STRING) /\ Len(l) \in Nat \ {0}
  BY ServiceAssumption
<1> QED
  BY <1>1, ServiceAssumption DEF Constants

RowRecords ==
    [escrow : {"none", "Active", "Disputed", "Cancelled", "Completed"},
     balance : Int,
     milestone : {"none", "Pending", "Submitted", "Approved", "Rejected"},
     dispute : {"none", "raised", "resolved"}]

\* Every handler keeps the rows rows, whatever event it is given.
LEMMA HandlerType ==
    ASSUME NEW r \in RowRecords, NEW kind
    PROVE  Handler(kind, r) \in RowRecords
<1> USE ConstantFacts DEF Constants, RowRecords
<1>0. /\ r.escrow \in {"none", "Active", "Disputed", "Cancelled", "Completed"}
      /\ r.balance \in Int /\ TotalAmount \in Int
  OBVIOUS
<1>1. HandleEscrowCreated(r) \in RowRecords /\ HandleMilestoneAdded(r) \in RowRecords
  <2>1. HandleEscrowCreated(r) \in RowRecords
    BY <1>0 DEF HandleEscrowCreated
  <2>2. HandleMilestoneAdded(r) \in RowRecords
    BY DEF HandleMilestoneAdded
  <2> QED
    BY <2>1, <2>2
<1>2. /\ HandleMilestoneSubmitted(r) \in RowRecords
      /\ HandleMilestoneApproved(r) \in RowRecords
      /\ HandleMilestoneRejected(r) \in RowRecords
      /\ HandleMilestoneDisputed(r) \in RowRecords
  BY DEF HandleMilestoneSubmitted, HandleMilestoneApproved, HandleMilestoneRejected,
         HandleMilestoneDisputed, SetMilestone
<1>3. HandleFundsReleased(r) \in RowRecords
  BY DEF HandleFundsReleased
<1>4. HandleEscrowCancelled(r) \in RowRecords
  BY DEF HandleEscrowCancelled, SetEscrow
<1>5. HandleDisputeRaised(r) \in RowRecords /\ HandleDisputeResolved(r) \in RowRecords
  BY DEF HandleDisputeRaised, HandleDisputeResolved, SetEscrow
<1> QED
  BY <1>1, <1>2, <1>3, <1>4, <1>5 DEF Handler

----------------------------------------------------------------------------
(* Type correctness *)

Steps == {"idle", "getLatestLedger", "dispatchEvent", "saveCursor"}

\* The locals of a tick that ends.
LEMMA EndType ==
    ASSUME ServiceTypeOK, NEW t \in Ticks, End(t)
    PROVE  /\ pc' \in [Ticks -> Steps] /\ next' \in [Ticks -> 1 .. closed + 1]
           /\ end' \in [Ticks -> 0 .. closed] /\ latest' \in [Ticks -> 1 .. closed]
  BY ConstantFacts DEF ServiceTypeOK, End, Steps, Ledgers, Constants

\* The transaction of one event.
LEMMA RecordType ==
    ASSUME ServiceTypeOK, NEW l \in Ledgers,
           rows' = Handler(log[l], rows), recorded' = recorded \cup {l}, l <= closed
    PROVE  rows' \in RowRecords /\ recorded' \subseteq 1 .. closed
<1>1. rows \in RowRecords
  BY DEF ServiceTypeOK, RowRecords
<1>2. rows' \in RowRecords
  BY <1>1, HandlerType
<1> QED
  BY <1>2 DEF ServiceTypeOK, Ledgers

LEMMA ServiceTypeOKStep ==
    ASSUME ServiceTypeOK, [ServiceNext]_serviceVars
    PROVE  ServiceTypeOK'
<1> USE DEF ServiceTypeOK, databaseVars, tickVars, countVars, Goto, At
<1>0. /\ Constants /\ Len(log) \in Nat \ {0} /\ Ledgers = 1 .. Len(log) /\ closed \in Nat
      /\ \A t \in Ticks : /\ next[t] \in 1 .. closed + 1 /\ end[t] \in 0 .. closed
                          /\ latest[t] \in 1 .. closed
  BY ConstantFacts DEF Constants, Ledgers
<1>1. ASSUME NEW t \in Ticks, GetContractEvents(t)
      PROVE  ServiceTypeOK'
  <2>1. (IF closed < last + PageLimit THEN closed ELSE last + PageLimit - 1) \in 0 .. closed
    BY <1>0 DEF Constants
  <2>2. end' \in [Ticks -> 0 .. closed] /\ next' \in [Ticks -> 1 .. closed + 1]
    BY <1>0, <1>1, <2>1 DEF GetContractEvents
  <2>3. pc' \in [Ticks -> Steps]
    BY <1>1 DEF GetContractEvents, Steps
  <2> QED
    BY <1>1, <2>2, <2>3 DEF GetContractEvents, Ledgers, Steps
<1>2. ASSUME NEW t \in Ticks, GetLatestLedger(t)
      PROVE  ServiceTypeOK'
  BY <1>0, <1>2 DEF GetLatestLedger, Ledgers
<1>3. ASSUME NEW t \in Ticks, NEW l \in Ledgers, RecordEvent(t, l)
      PROVE  ServiceTypeOK'
  <2>1. l = next[t] /\ l <= end[t] /\ l <= closed
    BY <1>0, <1>3 DEF RecordEvent, Dispatching
  <2>2. rows' \in RowRecords /\ recorded' \subseteq 1 .. closed
    BY <1>3, <2>1, RecordType DEF RecordEvent
  <2>3. next' \in [Ticks -> 1 .. closed + 1]
    BY <1>0, <1>3, <2>1, SMTT(20) DEF RecordEvent
  <2>4. announced' \in [Ledgers -> Nat]
    BY <1>3 DEF RecordEvent
  <2> QED
    BY <1>3, <2>2, <2>3, <2>4 DEF RecordEvent, Ledgers, RowRecords
<1>4. ASSUME NEW t \in Ticks, NEW l \in Ledgers, SkipEvent(t, l)
      PROVE  ServiceTypeOK'
  <2>1. l = next[t] /\ l <= end[t] /\ l <= closed
    BY <1>0, <1>4 DEF SkipEvent, Dispatching
  <2>2. next' \in [Ticks -> 1 .. closed + 1]
    BY <1>0, <1>4, <2>1 DEF SkipEvent
  <2> QED
    BY <1>4, <2>2 DEF SkipEvent, Ledgers
<1>5. ASSUME NEW t \in Ticks, AdvanceCursor(t)
      PROVE  ServiceTypeOK'
  <2>1. CASE latest[t] > last
    <3>1. end[t] + 1 .. latest[t] - 1 \subseteq 1 .. closed
      BY <1>0
    <3>2. pc' \in [Ticks -> Steps]
      BY <1>5, <2>1 DEF AdvanceCursor, Steps
    <3>3. last' \in 1 .. closed
      BY <1>0, <1>5, <2>1 DEF AdvanceCursor
    <3>4. passed' = passed \cup (end[t] + 1 .. latest[t] - 1)
      BY <1>5, <2>1 DEF AdvanceCursor
    <3>5. passed' \subseteq 1 .. closed
      BY <3>1, <3>4
    <3> QED
      BY <1>5, <2>1, <3>2, <3>3, <3>5 DEF AdvanceCursor, Ledgers, Steps
  <2>2. CASE ~(latest[t] > last)
    BY <1>5, <2>2, EndType DEF AdvanceCursor, Ledgers, Steps
  <2> QED
    BY <2>1, <2>2
<1>6. ASSUME NEW t \in Ticks, SaveCursor(t)
      PROVE  ServiceTypeOK'
  <2>1. End(t) /\ saved' \in 1 .. closed
    BY <1>0, <1>6 DEF SaveCursor
  <2> QED
    BY <1>6, <2>1, EndType DEF SaveCursor, Ledgers, Steps
<1>7. ASSUME NEW t \in Ticks, Fail(t)
      PROVE  ServiceTypeOK'
  <2>1. rows' \in RowRecords /\ recorded' \subseteq 1 .. closed /\ saved' \in 1 .. closed
    <3>1. CASE UNCHANGED <<rows, recorded, saved>>
      BY <3>1 DEF RowRecords
    <3>2. ASSUME NEW l \in Ledgers, Dispatching(t, l), rows' = Handler(log[l], rows),
                 recorded' = recorded \cup {l}, UNCHANGED saved
          PROVE  rows' \in RowRecords /\ recorded' \subseteq 1 .. closed
                 /\ saved' \in 1 .. closed
      <4>1. l <= closed
        BY <1>0, <3>2 DEF Dispatching
      <4> QED
        BY <3>2, <4>1, RecordType
    <3>3. CASE saved' = latest[t] /\ UNCHANGED <<rows, recorded>>
      BY <1>0, <3>3 DEF RowRecords
    <3> QED
      BY <1>7, <3>1, <3>2, <3>3 DEF Fail
  <2>2. End(t) /\ failures' \in 0 .. MaxFailures
    BY <1>0, <1>7 DEF Fail, Constants
  <2>3. UNCHANGED <<log, closed, announced, last, up, passed, crashes>>
    BY <1>7 DEF Fail
  <2> QED
    BY <2>1, <2>2, <2>3, EndType DEF Ledgers, Steps, RowRecords
<1>8. CASE Crash
  <2>1. /\ pc' \in [Ticks -> Steps] /\ next' \in [Ticks -> 1 .. closed + 1]
        /\ end' \in [Ticks -> 0 .. closed] /\ latest' \in [Ticks -> 1 .. closed]
    BY <1>0, <1>8 DEF Crash, Steps
  <2>2. crashes' \in 0 .. MaxCrashes
    BY <1>0, <1>8 DEF Crash, Constants
  <2> QED
    BY <1>8, <2>1, <2>2 DEF Crash, Ledgers, Steps
<1>9. CASE Restart
  BY <1>0, <1>9 DEF Restart, Ledgers
<1>10. CASE CloseLedger
  <2>1. closed' = closed + 1 /\ closed' \in Ledgers
    BY <1>0, <1>10 DEF CloseLedger
  <2> QED
    BY <1>0, <1>10, <2>1 DEF CloseLedger, Ledgers
<1>11. CASE UNCHANGED serviceVars
  BY <1>11 DEF serviceVars, Ledgers
<1> QED
  BY <1>1, <1>2, <1>3, <1>4, <1>5, <1>6, <1>7, <1>8, <1>9, <1>10, <1>11
     DEF ServiceNext, TickStep

\* Type correctness: no cursor, in memory or saved, and no page of events runs
\* ahead of the network.
THEOREM TypeCorrect == ServiceSpec => []ServiceTypeOK
<1>1. ServiceInit => ServiceTypeOK
  BY ConstantFacts DEF ServiceInit, ServiceTypeOK, Constants, NoRows, Ledgers
<1> QED
  BY <1>1, ServiceTypeOKStep, PTL DEF ServiceSpec

----------------------------------------------------------------------------
(* The announcements *)

LEMMA AnnouncedOnceStep ==
    ASSUME ServiceTypeOK, AnnouncedOnce, [ServiceNext]_serviceVars
    PROVE  AnnouncedOnce'
<1> USE DEF AnnouncedOnce, ServiceTypeOK, databaseVars, tickVars, countVars
<1>1. ASSUME NEW t \in Ticks, NEW l \in Ledgers, RecordEvent(t, l)
      PROVE  AnnouncedOnce'
  <2>1. /\ l \notin recorded /\ recorded' = recorded \cup {l} /\ Ledgers' = Ledgers
        /\ announced' = [announced EXCEPT ![l] = @ + 1]
    BY <1>1 DEF RecordEvent, Ledgers
  <2>2. announced[l] = 0
    BY <2>1
  <2> QED
    BY <2>1, <2>2
<1>2. ASSUME recorded \subseteq recorded', UNCHANGED <<log, announced>>
      PROVE  AnnouncedOnce'
  <2>1. Ledgers' = Ledgers
    BY <1>2 DEF Ledgers
  <2>2. ASSUME NEW l \in Ledgers
        PROVE  announced[l] <= (IF l \in recorded' THEN 1 ELSE 0)
    <3>1. announced[l] \in Nat /\ announced[l] <= (IF l \in recorded THEN 1 ELSE 0)
      OBVIOUS
    <3>2. CASE l \in recorded
      BY <1>2, <3>1, <3>2
    <3>3. CASE l \notin recorded
      BY <3>1, <3>3
    <3> QED
      BY <3>2, <3>3
  <2> QED
    BY <1>2, <2>1, <2>2
<1>3. ASSUME NEW t \in Ticks, TickStep(t) \/ Fail(t)
      PROVE  recorded \subseteq recorded' /\ UNCHANGED <<log, announced>>
  BY <1>3 DEF TickStep, Fail, GetContractEvents, GetLatestLedger, SkipEvent,
              AdvanceCursor, SaveCursor
<1>4. CASE Crash \/ Restart \/ CloseLedger \/ UNCHANGED serviceVars
  BY <1>2, <1>4 DEF Crash, Restart, CloseLedger, serviceVars
<1> QED
  BY <1>1, <1>2, <1>3, <1>4 DEF ServiceNext

\* An event is announced to the webhook service at most once, and only if it is
\* stored, whatever overlaps, fails or is fetched again.
THEOREM EventsAnnouncedOnce == ServiceSpec => []AnnouncedOnce
<1>1. ServiceInit => AnnouncedOnce
  BY DEF ServiceInit, AnnouncedOnce
<1> QED
  BY <1>1, AnnouncedOnceStep, TypeCorrect, PTL DEF ServiceSpec

----------------------------------------------------------------------------
(* The cursor *)

\* What every tick has behind it.
Behind(l) ==
    \/ l < last \/ l < saved
    \/ \E t \in Ticks : \/ l < next[t]
                        \/ pc[t] = "saveCursor" /\ l < latest[t]

\* NothingElseLost is not inductive: the cursor takes over what a tick has
\* dispatched, and the saved cursor what a tick has advanced to.
BehindSettled == \A l \in Ledgers : Behind(l) => Settled(l)

\* What is settled stays settled.
LEMMA SettledStays ==
    ASSUME [ServiceNext]_serviceVars
    PROVE  /\ log' = log /\ Ledgers' = Ledgers
           /\ \A l : Settled(l) => Settled(l)'
<1> USE DEF Settled, Known, databaseVars, tickVars, countVars
<1>1. ASSUME NEW t \in Ticks, TickStep(t) \/ Fail(t)
      PROVE  log' = log /\ recorded \subseteq recorded' /\ passed \subseteq passed'
  BY <1>1 DEF TickStep, Fail, GetContractEvents, GetLatestLedger, SkipEvent,
              AdvanceCursor, SaveCursor
<1>2. ASSUME NEW t \in Ticks, NEW l \in Ledgers, RecordEvent(t, l)
      PROVE  log' = log /\ recorded \subseteq recorded' /\ passed \subseteq passed'
  BY <1>2 DEF RecordEvent
<1>3. ASSUME Crash \/ Restart \/ CloseLedger \/ UNCHANGED serviceVars
      PROVE  log' = log /\ recorded \subseteq recorded' /\ passed \subseteq passed'
  BY <1>3 DEF Crash, Restart, CloseLedger, serviceVars
<1>4. log' = log /\ recorded \subseteq recorded' /\ passed \subseteq passed'
  BY <1>1, <1>2, <1>3 DEF ServiceNext
<1> QED
  BY <1>4 DEF Ledgers

LEMMA BehindSettledStep ==
    ASSUME ServiceTypeOK, BehindSettled, [ServiceNext]_serviceVars
    PROVE  BehindSettled'
<1> USE DEF databaseVars, tickVars, countVars, Goto, At
<1>0. /\ Len(log) \in Nat /\ Ledgers = 1 .. Len(log)
      /\ last \in Nat /\ saved \in Nat
      /\ \A t \in Ticks : next[t] \in Nat /\ end[t] \in Nat /\ latest[t] \in Nat
  BY ConstantFacts DEF Constants, Ledgers, ServiceTypeOK
<1>1. SUFFICES ASSUME NEW l \in Ledgers, Behind(l)', ~Behind(l)
               PROVE  Settled(l)'
  BY SettledStays DEF BehindSettled
<1>2. l \in Nat
  BY <1>0
<1>3. \A t \in Ticks : ~(l < next[t]) /\ ~(pc[t] = "saveCursor" /\ l < latest[t])
  BY <1>1 DEF Behind
<1>4. ~(l < last) /\ ~(l < saved)
  BY <1>1 DEF Behind
<1>5. ASSUME NEW t \in Ticks, GetContractEvents(t)
      PROVE  FALSE
  <2>1. /\ next' = [next EXCEPT ![t] = last] /\ pc' = [pc EXCEPT ![t] = "getLatestLedger"]
        /\ UNCHANGED <<last, saved, latest>>
    BY <1>5 DEF GetContractEvents
  <2> QED
    BY <1>1, <1>3, <1>4, <2>1 DEF Behind, ServiceTypeOK
<1>6. ASSUME NEW t \in Ticks, GetLatestLedger(t)
      PROVE  FALSE
  <2>1. /\ latest' = [latest EXCEPT ![t] = closed] /\ pc' = [pc EXCEPT ![t] = "dispatchEvent"]
        /\ UNCHANGED <<last, saved, next>>
    BY <1>6 DEF GetLatestLedger
  <2> QED
    BY <1>1, <1>3, <1>4, <2>1 DEF Behind, ServiceTypeOK
<1>7. ASSUME NEW t \in Ticks, NEW k \in Ledgers, RecordEvent(t, k) \/ SkipEvent(t, k)
      PROVE  Settled(l)'
  <2>1. k = next[t] /\ next' = [next EXCEPT ![t] = k + 1]
    BY <1>7 DEF RecordEvent, SkipEvent, Dispatching
  <2>2. UNCHANGED <<last, saved, latest, pc>>
    BY <1>7 DEF RecordEvent, SkipEvent
  <2>3. k = l
    <3>1. l < k + 1
      BY <1>1, <1>3, <1>4, <2>1, <2>2 DEF Behind, ServiceTypeOK
    <3>2. ~(l < k)
      BY <1>3, <2>1
    <3> QED
      BY <1>0, <1>2, <3>1, <3>2
  <2> QED
    BY <1>7, <2>3 DEF RecordEvent, SkipEvent, Settled, Known
<1>8. ASSUME NEW t \in Ticks, End(t), UNCHANGED <<last, saved>>
      PROVE  FALSE
  <2>1. /\ pc' = [pc EXCEPT ![t] = "idle"] /\ next' = [next EXCEPT ![t] = 1]
        /\ latest' = [latest EXCEPT ![t] = 1]
    BY <1>8 DEF End
  <2> QED
    BY <1>0, <1>1, <1>2, <1>3, <1>4, <1>8, <2>1 DEF Behind, ServiceTypeOK
<1>9. ASSUME NEW t \in Ticks, AdvanceCursor(t)
      PROVE  Settled(l)'
  <2>1. CASE latest[t] > last
    <3>1. /\ next[t] > end[t] /\ last' = latest[t]
          /\ passed' = passed \cup (end[t] + 1 .. latest[t] - 1)
          /\ pc' = [pc EXCEPT ![t] = "saveCursor"]
          /\ UNCHANGED <<saved, next, latest>>
      BY <1>9, <2>1 DEF AdvanceCursor
    <3>2. l < latest[t]
      BY <1>1, <1>3, <1>4, <3>1 DEF Behind, ServiceTypeOK
    <3>3. ~(l < next[t])
      BY <1>3
    <3>4. l \in end[t] + 1 .. latest[t] - 1
      BY <1>0, <1>2, <3>1, <3>2, <3>3
    <3> QED
      BY <3>1, <3>4 DEF Settled
  <2>2. CASE ~(latest[t] > last)
    BY <1>8, <1>9, <2>2 DEF AdvanceCursor
  <2> QED
    BY <2>1, <2>2
<1>10. ASSUME NEW t \in Ticks, pc[t] = "saveCursor", saved' = latest[t], last' = last, End(t)
       PROVE  FALSE
  <2>1. /\ pc' = [pc EXCEPT ![t] = "idle"] /\ next' = [next EXCEPT ![t] = 1]
        /\ latest' = [latest EXCEPT ![t] = 1]
    BY <1>10 DEF End
  <2>2. ~(l < latest[t])
    BY <1>3, <1>10
  <2> QED
    BY <1>0, <1>1, <1>2, <1>3, <1>4, <1>10, <2>1, <2>2 DEF Behind, ServiceTypeOK
<1>11. ASSUME NEW t \in Ticks, SaveCursor(t)
       PROVE  FALSE
  BY <1>10, <1>11 DEF SaveCursor
<1>12. ASSUME NEW t \in Ticks, Fail(t)
       PROVE  FALSE
  <2>1. End(t) /\ last' = last
    BY <1>12 DEF Fail
  <2>2. \/ saved' = saved
        \/ pc[t] = "saveCursor" /\ saved' = latest[t]
    BY <1>12 DEF Fail
  <2> QED
    BY <1>8, <1>10, <2>1, <2>2
<1>13. CASE Crash
  <2>1. /\ pc' = [t \in Ticks |-> "idle"] /\ next' = [t \in Ticks |-> 1]
        /\ UNCHANGED <<last, saved>>
    BY <1>13 DEF Crash
  <2> QED
    BY <1>0, <1>1, <1>4, <2>1 DEF Behind
<1>14. CASE Restart
  BY <1>1, <1>3, <1>4, <1>14 DEF Restart, Behind
<1>15. CASE CloseLedger \/ UNCHANGED serviceVars
  BY <1>1, <1>15 DEF CloseLedger, serviceVars, Behind
<1> QED
  BY <1>5, <1>6, <1>7, <1>9, <1>11, <1>12, <1>13, <1>14, <1>15 DEF ServiceNext, TickStep

LEMMA BehindSettledInvariant == ServiceSpec => []BehindSettled
<1>1. ServiceInit => BehindSettled
  BY ConstantFacts DEF ServiceInit, BehindSettled, Behind, Ledgers, Constants
<1> QED
  BY <1>1, BehindSettledStep, TypeCorrect, PTL DEF ServiceSpec

\* No cursor passes an event that is not in the database, but for those that
\* closed between the two calls to the RPC node or did not fit the page.
THEOREM NoEventElseLost == ServiceSpec => []NothingElseLost
<1>1. BehindSettled => NothingElseLost
  BY DEF BehindSettled, NothingElseLost, Behind
<1> QED
  BY <1>1, BehindSettledInvariant, PTL

----------------------------------------------------------------------------
(* The replay of the log *)

\* The induction theorems of the library take an operator and cannot be used;
\* these proofs take the least number that violates the claim.
LEMMA LeastNumber ==
    ASSUME NEW T, T \subseteq Nat, T # {}
    PROVE  \E n \in T : \A m \in T : n <= m
<1>1. \E n \in T : \A m \in T : ~(<<m, n>> \in OpToRel(<, Nat))
  BY NatLessThanWellFounded, WFMin
<1>2. \A m, n \in Nat : m < n => <<m, n>> \in OpToRel(<, Nat)
  BY DEF OpToRel
<1>3. PICK n \in T : \A m \in T : ~(m < n)
  BY <1>1, <1>2
<1>4. \A m \in T : n <= m
  BY <1>3
<1> QED
  BY <1>4

\* The function that the definition of Replay computes with, up to n.
Replays(g, n) ==
    \A k \in 0 .. n : g[k] = IF k = 0 THEN NoRows ELSE Handler(log[k], g[k - 1])

LEMMA ReplaysUnique ==
    ASSUME NEW g, NEW h, NEW n \in Nat, Replays(g, n), Replays(h, n)
    PROVE  g[n] = h[n]
<1> DEFINE T == {k \in 0 .. n : g[k] # h[k]}
<1>1. ASSUME T # {}
      PROVE  FALSE
  <2> T \subseteq Nat
    OBVIOUS
  <2>1. PICK k \in T : \A m \in T : k <= m
    BY <1>1, LeastNumber
  <2>2. k # 0 /\ k - 1 \in 0 .. n
    BY <2>1 DEF Replays
  <2>3. g[k - 1] = h[k - 1]
    BY <2>1, <2>2
  <2> QED
    BY <2>1, <2>2, <2>3 DEF Replays
<1> QED
  BY <1>1

LEMMA ReplaysExists ==
    ASSUME NEW n \in Nat
    PROVE  \E g : Replays(g, n)
<1> DEFINE T == {m \in Nat : ~\E g : Replays(g, m)}
<1>1. ASSUME T # {}
      PROVE  FALSE
  <2>1. PICK m \in T : \A k \in T : m <= k
    BY <1>1, LeastNumber
  <2>2. CASE m = 0
    <3> DEFINE h == [k \in {0} |-> NoRows]
    <3>1. Replays(h, 0)
      BY DEF Replays
    <3> QED
      BY <2>1, <2>2, <3>1
  <2>3. CASE m # 0
    <3>1. m \in Nat /\ m - 1 \in Nat /\ m - 1 \notin T
      BY <2>1, <2>3
    <3>2. PICK g : Replays(g, m - 1)
      BY <3>1
    <3> DEFINE h == [k \in 0 .. m |-> IF k = m THEN Handler(log[m], g[m - 1]) ELSE g[k]]
    <3>3. ASSUME NEW k \in 0 .. m
          PROVE  h[k] = IF k = 0 THEN NoRows ELSE Handler(log[k], h[k - 1])
      <4>1. CASE k = m
        <5>1. m - 1 \in 0 .. m /\ m - 1 # m
          BY <2>3, <3>1
        <5>2. h[m - 1] = g[m - 1]
          BY <5>1
        <5> QED
          BY <2>3, <4>1, <5>2
      <4>2. CASE k # m
        <5>1. k \in 0 .. m - 1 /\ h[k] = g[k]
          BY <3>1, <4>2
        <5>2. k # 0 => k - 1 \in 0 .. m /\ k - 1 # m
          BY <3>1, <4>2
        <5>3. k # 0 => h[k - 1] = g[k - 1]
          BY <5>2
        <5> HIDE DEF h
        <5> QED
          BY <3>2, <5>1, <5>3 DEF Replays
      <4> QED
        BY <4>1, <4>2
    <3> HIDE DEF h
    <3>4. Replays(h, m)
      BY <3>3 DEF Replays
    <3> QED
      BY <2>1, <3>4
  <2> QED
    BY <2>2, <2>3
<1> QED
  BY <1>1

\* Replay is what its recursive definition says.
LEMMA ReplayRecursion ==
    \A n \in Nat : Replay[n] = IF n = 0 THEN NoRows ELSE Handler(log[n], Replay[n - 1])
<1> DEFINE G(n) == CHOOSE g : Replays(g, n)
           F == [n \in Nat |-> G(n)[n]]
           Equation(f) ==
             f = [n \in Nat |-> IF n = 0 THEN NoRows ELSE Handler(log[n], f[n - 1])]
<1>1. \A n \in Nat : Replays(G(n), n)
  BY ReplaysExists
<1>2. \A n \in Nat : F[n] = G(n)[n]
  OBVIOUS
<1>3. F = [n \in Nat |-> F[n]]
  OBVIOUS
<1> HIDE DEF G, F
<1>4. ASSUME NEW n \in Nat
      PROVE  F[n] = IF n = 0 THEN NoRows ELSE Handler(log[n], F[n - 1])
  <2>1. n \in 0 .. n /\ F[n] = G(n)[n] /\ Replays(G(n), n)
    BY <1>1, <1>2
  <2>2. CASE n = 0
    BY <2>1, <2>2 DEF Replays
  <2>3. CASE n # 0
    <3>1. n - 1 \in Nat /\ 0 .. n - 1 \subseteq 0 .. n
      BY <2>3
    <3>2. Replays(G(n), n - 1) /\ Replays(G(n - 1), n - 1)
      BY <1>1, <2>1, <3>1 DEF Replays
    <3>3. G(n)[n - 1] = G(n - 1)[n - 1]
      BY <3>1, <3>2, ReplaysUnique
    <3>4. F[n - 1] = G(n - 1)[n - 1]
      BY <1>2, <3>1
    <3> QED
      BY <2>1, <2>3, <3>3, <3>4 DEF Replays
  <2> QED
    BY <2>2, <2>3
<1>5. Equation(F)
  BY <1>3, <1>4
<1>6. Replay = CHOOSE f : Equation(f)
  BY DEF Replay
<1> HIDE DEF Equation
<1>7. Equation(Replay)
  BY <1>5, <1>6
<1> QED
  BY <1>7 DEF Equation

\* Events without a handler change no row.
LEMMA ReplayUnknown ==
    ASSUME NEW n \in Nat, NEW m \in Nat, n <= m, \A k \in n + 1 .. m : ~Known(k)
    PROVE  Replay[m] = Replay[n]
<1> DEFINE T == {k \in n .. m : Replay[k] # Replay[n]}
<1>1. ASSUME T # {}
      PROVE  FALSE
  <2>1. T \subseteq Nat
    OBVIOUS
  <2>2. PICK k \in T : \A j \in T : k <= j
    BY <1>1, <2>1, LeastNumber
  <2>3. k \in n + 1 .. m /\ k - 1 \in n .. m /\ k \in Nat /\ k # 0
    BY <2>2
  <2>4. Replay[k - 1] = Replay[n]
    BY <2>2, <2>3
  <2>5. Replay[k] = Handler(log[k], Replay[k - 1])
    BY <2>3, ReplayRecursion
  <2>6. Handler(log[k], Replay[k - 1]) = Replay[k - 1]
    BY <2>3 DEF Known, Handled, Handler
  <2> QED
    BY <2>2, <2>4, <2>5, <2>6
<1> QED
  BY <1>1

----------------------------------------------------------------------------
(* The rows *)

\* The transaction of an event that is not stored yet continues the replay: all
\* events before it are stored or have no handler, for the tick has passed them.
LEMMA RecordContinues ==
    ASSUME ServiceTypeOK, BehindSettled, RowsMirrorLog, passed = {},
           NEW t \in Ticks, NEW l \in Ledgers, Dispatching(t, l), Known(l), l \notin recorded
    PROVE  /\ l \in 0 .. closed
           /\ recorded \cup {l} = {k \in 1 .. l : Known(k)}
           /\ Handler(log[l], rows) = Replay[l]
<1>1. /\ Len(log) \in Nat /\ Ledgers = 1 .. Len(log) /\ closed \in Nat
      /\ l = next[t] /\ l <= end[t] /\ end[t] \in 0 .. closed /\ l \in Nat /\ l # 0
  BY ConstantFacts DEF Constants, Ledgers, ServiceTypeOK, Dispatching
<1>2. \A k \in 1 .. l - 1 : k \in recorded \/ ~Known(k)
  BY <1>1 DEF BehindSettled, Behind, Settled
<1>3. PICK n \in 0 .. closed : recorded = {k \in 1 .. n : Known(k)} /\ rows = Replay[n]
  BY DEF RowsMirrorLog
<1>4. n < l
  BY <1>1, <1>3
<1>5. \A k \in n + 1 .. l - 1 : ~Known(k)
  BY <1>1, <1>2, <1>3
<1>6. Replay[l - 1] = Replay[n]
  <2>1. n \in Nat /\ l - 1 \in Nat /\ n <= l - 1
    BY <1>1, <1>3, <1>4
  <2> QED
    BY <1>5, <2>1, ReplayUnknown
<1>7. Replay[l] = Handler(log[l], rows)
  BY <1>1, <1>3, <1>6, ReplayRecursion
<1>8. recorded \cup {l} = {k \in 1 .. l : Known(k)}
  <2>1. ASSUME NEW k \in 1 .. l, Known(k), k # l
        PROVE  k \in recorded
    BY <1>1, <1>2, <2>1
  <2>2. ASSUME NEW k \in recorded
        PROVE  k \in 1 .. l /\ Known(k)
    BY <1>1, <1>3, <1>4, <2>2
  <2> QED
    BY <1>1, <2>1, <2>2
<1> QED
  BY <1>1, <1>7, <1>8

LEMMA ReplayKept ==
    ASSUME log' = log
    PROVE  Replay' = Replay /\ \A k : Known(k)' <=> Known(k)
  BY DEF Replay, Known

LEMMA MirrorKept ==
    ASSUME ServiceTypeOK, RowsMirrorLog, passed \subseteq passed', closed <= closed',
           closed' \in Nat, UNCHANGED <<log, rows, recorded>>
    PROVE  RowsMirrorLog'
<1> SUFFICES ASSUME passed' = {}
             PROVE  RowsMirrorLog'
  BY DEF RowsMirrorLog
<1>1. PICK n \in 0 .. closed : recorded = {k \in 1 .. n : Known(k)} /\ rows = Replay[n]
  BY DEF RowsMirrorLog
<1>2. n \in 0 .. closed'
  BY ConstantFacts DEF ServiceTypeOK, Ledgers, Constants
<1> QED
  BY <1>1, <1>2, ReplayKept DEF RowsMirrorLog

LEMMA MirrorRecorded ==
    ASSUME ServiceTypeOK, BehindSettled, RowsMirrorLog,
           NEW t \in Ticks, NEW l \in Ledgers, Dispatching(t, l), Known(l), l \notin recorded,
           rows' = Handler(log[l], rows), recorded' = recorded \cup {l},
           UNCHANGED <<log, closed, passed>>
    PROVE  RowsMirrorLog'
<1> SUFFICES ASSUME passed = {}
             PROVE  RowsMirrorLog'
  BY DEF RowsMirrorLog
<1>1. /\ l \in 0 .. closed /\ recorded' = {k \in 1 .. l : Known(k)} /\ rows' = Replay[l]
  BY RecordContinues
<1>2. Replay' = Replay /\ \A k : Known(k)' <=> Known(k)
  BY ReplayKept
<1>3. recorded' = {k \in 1 .. l : Known(k)'}
  BY <1>1, <1>2
<1> QED
  BY <1>1, <1>2, <1>3 DEF RowsMirrorLog

LEMMA RowsMirrorLogStep ==
    ASSUME ServiceTypeOK, ServiceTypeOK', BehindSettled, RowsMirrorLog,
           [ServiceNext]_serviceVars
    PROVE  RowsMirrorLog'
<1> USE DEF databaseVars, tickVars, countVars
<1>0. closed \in Nat /\ closed' \in Nat
  BY ConstantFacts DEF ServiceTypeOK, Ledgers, Constants
<1>1. ASSUME NEW t \in Ticks, TickStep(t)
      PROVE  RowsMirrorLog'
  <2>1. UNCHANGED <<log, rows, recorded, closed>> /\ passed \subseteq passed'
    BY <1>1 DEF TickStep, GetContractEvents, GetLatestLedger, SkipEvent, AdvanceCursor,
                SaveCursor
  <2> QED
    BY <1>0, <2>1, MirrorKept
<1>2. ASSUME NEW t \in Ticks, NEW l \in Ledgers, RecordEvent(t, l)
      PROVE  RowsMirrorLog'
  BY <1>2, MirrorRecorded DEF RecordEvent
<1>3. ASSUME NEW t \in Ticks, Fail(t)
      PROVE  RowsMirrorLog'
  <2>1. UNCHANGED <<log, closed, passed>>
    BY <1>3 DEF Fail
  <2>2. CASE UNCHANGED <<rows, recorded>>
    BY <1>0, <2>1, <2>2, MirrorKept
  <2>3. CASE \E l \in Ledgers :
                /\ Dispatching(t, l) /\ Known(l) /\ l \notin recorded
                /\ rows' = Handler(log[l], rows)
                /\ recorded' = recorded \cup {l}
    BY <2>1, <2>3, MirrorRecorded
  <2> QED
    BY <1>3, <2>2, <2>3 DEF Fail
<1>4. CASE Crash \/ Restart \/ CloseLedger \/ UNCHANGED serviceVars
  <2>1. UNCHANGED <<log, rows, recorded, passed>> /\ closed <= closed'
    BY <1>0, <1>4 DEF Crash, Restart, CloseLedger, serviceVars
  <2> QED
    BY <1>0, <2>1, MirrorKept
<1> QED
  BY <1>1, <1>2, <1>3, <1>4 DEF ServiceNext

\* As long as no event was passed over, the rows are the replay of the log up to
\* some ledger, for every log: overlapping ticks, pages that are fetched again,
\* crashes and failing calls apply no event twice and none out of order.
THEOREM RowsAreReplay == ServiceSpec => []RowsMirrorLog
<1>1. ServiceInit => RowsMirrorLog
  <2> SUFFICES ASSUME ServiceInit
               PROVE  \E n \in 0 .. closed : recorded = {l \in 1 .. n : Known(l)} /\ rows = Replay[n]
    BY DEF RowsMirrorLog
  <2>1. 0 \in 0 .. closed /\ recorded = {l \in 1 .. 0 : Known(l)} /\ rows = NoRows
    BY DEF ServiceInit
  <2>2. Replay[0] = NoRows
    BY ReplayRecursion
  <2> QED
    BY <2>1, <2>2
<1>2. ServiceTypeOK /\ ServiceTypeOK' /\ BehindSettled /\ RowsMirrorLog /\ [ServiceNext]_serviceVars
        => RowsMirrorLog'
  BY RowsMirrorLogStep
<1> QED
  BY <1>1, <1>2, BehindSettledInvariant, TypeCorrect, PTL DEF ServiceSpec

----------------------------------------------------------------------------
(* The deliveries *)

CallSteps   == {"none", "findMany", "create", "update", "enqueue"}
Statuses    == {"none", "pending", "success", "failed", "deleted"}
JobStates   == {"none", "waiting", "active", "completed", "failed"}
WorkerSteps == {"idle", "fetch", "updateSuccess", "updateFailure", "complete", "retry"}

CallRecords   == [at : CallSteps, sub : Subs \cup {Nobody}, todo : SUBSET Subs]
JobRecords    == [state : JobStates, attemptsMade : Nat, stalls : Nat,
                  owner : Workers \cup {Nobody}]
WorkerRecords == [at : WorkerSteps, delivery : Deliveries \cup {<<>>}, attempt : Nat]

DeliveryTypes ==
    /\ active \subseteq Subs
    /\ call \in [Events -> CallRecords]
    /\ \A e \in Events : call[e].at \in {"update", "enqueue"} => call[e].sub \in call[e].todo
    /\ status \in [Deliveries -> Statuses]
    /\ job \in [Deliveries -> JobRecords]
    /\ worker \in [Workers -> WorkerRecords]
    /\ \A w \in Workers : worker[w].at # "idle" => worker[w].delivery \in Deliveries

Busy(w, d) == worker[w].at # "idle" /\ worker[w].delivery = d

\* A delivery is queued once: what a call has still to queue has no job, and an
\* event that is not stored has neither a call nor a job.
QueuedOnce ==
    /\ \A e \in Events : call[e].at # "none" => e \in recorded
    /\ \A e \in Events, s \in Subs :
          e \notin recorded \/ s \in call[e].todo => job[<<e, s>>].state = "none"
    /\ \A w \in Workers, d \in Deliveries : Busy(w, d) => job[d].state # "none"

\* A job that was never given back and whose updates have not failed is with one
\* worker at a time, which owns it; and when the delivery has succeeded, the job
\* is completed or its worker is done.
InOrder(d) == job[d].stalls = 0 /\ d \notin unrecorded

Attended ==
    \A d \in Deliveries : InOrder(d) =>
       /\ \A w \in Workers : Busy(w, d) => job[d].state = "active" /\ job[d].owner = w
       /\ status[d] = "success" =>
            /\ job[d].state \in {"active", "completed"}
            /\ \A w \in Workers : Busy(w, d) => worker[w].at = "complete"

LEMMA PairType ==
    \A e \in Events, s \in Subs : <<e, s>> \in Deliveries
  BY DEF Deliveries

LEMMA RecordFacts ==
    ASSUME DeliveryTypes
    PROVE  /\ \A e \in Events : call[e] \in CallRecords
           /\ \A d \in Deliveries : status[d] \in Statuses /\ job[d] \in JobRecords
           /\ \A w \in Workers : worker[w] \in WorkerRecords
  BY DEF DeliveryTypes

----------------------------------------------------------------------------
(* Types of the deliveries *)

\* The parts of the type invariant, for steps that change only one of them.
CallTypes ==
    /\ call \in [Events -> CallRecords]
    /\ \A e \in Events : call[e].at \in {"update", "enqueue"} => call[e].sub \in call[e].todo

WorkerTypes ==
    /\ worker \in [Workers -> WorkerRecords]
    /\ \A w \in Workers : worker[w].at # "idle" => worker[w].delivery \in Deliveries

LEMMA CallChanges ==
    ASSUME CallTypes, NEW e \in Events, NEW c \in CallRecords,
           c.at \in {"update", "enqueue"} => c.sub \in c.todo,
           call' = [call EXCEPT ![e] = c]
    PROVE  CallTypes'
  BY DEF CallTypes

LEMMA WorkerChanges ==
    ASSUME WorkerTypes, NEW w \in Workers, NEW c \in WorkerRecords,
           c.at # "idle" => c.delivery \in Deliveries,
           worker' = [worker EXCEPT ![w] = c]
    PROVE  WorkerTypes'
  BY DEF WorkerTypes

LEMMA NoCallType == NoCall \in CallRecords /\ NoCall.at = "none" /\ NoCall.todo = {}
  BY DEF NoCall, CallRecords, CallSteps

LEMMA IdleType == Idle \in WorkerRecords /\ Idle.at = "idle"
  BY DEF Idle, WorkerRecords, WorkerSteps

\* A call moves on to a step with a set of subscriptions.
LEMMA NewCall ==
    ASSUME NEW step \in {"findMany", "create"}, NEW todo \in SUBSET Subs
    PROVE  /\ [NoCall EXCEPT !.at = step, !.todo = todo] \in CallRecords
           /\ [NoCall EXCEPT !.at = step, !.todo = todo].at = step
           /\ [NoCall EXCEPT !.at = step, !.todo = todo].todo = todo
  BY DEF NoCall, CallRecords, CallSteps

LEMMA CallTypesStep ==
    ASSUME DeliveryTypes, NEW e \in Events,
           CallStep(e) \/ CallRejects(e) \/ QueueEventWebhooks(e, Interested(e))
    PROVE  CallTypes'
<1>0. CallTypes /\ call[e] \in CallRecords
  BY DEF DeliveryTypes, CallTypes
<1>1. ASSUME call' = [call EXCEPT ![e] = NoCall]
      PROVE  CallTypes'
  BY <1>0, <1>1, NoCallType, CallChanges
<1>2. ASSUME NEW step \in {"findMany", "create"}, NEW todo \in SUBSET Subs,
             call' = [call EXCEPT ![e] = [NoCall EXCEPT !.at = step, !.todo = todo]]
      PROVE  CallTypes'
  <2> DEFINE c == [NoCall EXCEPT !.at = step, !.todo = todo]
  <2>1. c \in CallRecords /\ c.at = step
    BY NewCall
  <2>2. call' = [call EXCEPT ![e] = c]
    BY <1>2
  <2> HIDE DEF c
  <2> QED
    BY <1>0, <2>1, <2>2, CallChanges
<1>3. CASE QueueEventWebhooks(e, Interested(e))
  BY <1>2, <1>3 DEF QueueEventWebhooks, Interested
<1>4. CASE FindSubscriptions(e)
  BY <1>1, <1>2, <1>4 DEF FindSubscriptions, DeliveryTypes
<1>5. CASE UpdatePayload(e)
  <2>1. call[e].at = "update" /\ call' = [call EXCEPT ![e].at = "enqueue"]
    BY <1>5 DEF UpdatePayload
  <2> QED
    BY <1>0, <2>1 DEF CallTypes, CallRecords, CallSteps
<1>6. CASE EnqueueWebhookDelivery(e)
  <2>1. call[e].todo \ {call[e].sub} \in SUBSET Subs
    BY <1>0 DEF CallRecords
  <2>2. \/ call' = [call EXCEPT ![e] = NoCall]
        \/ call' = [call EXCEPT ![e] = [NoCall EXCEPT !.at = "create",
                                                     !.todo = call[e].todo \ {call[e].sub}]]
    BY <1>6 DEF EnqueueWebhookDelivery
  <2> QED
    BY <1>1, <1>2, <2>1, <2>2
<1>7. ASSUME NEW s \in Subs, CreateDelivery(e, s)
      PROVE  CallTypes'
  <2>1. s \in call[e].todo /\ call' = [call EXCEPT ![e].at = "update", ![e].sub = s]
    BY <1>7 DEF CreateDelivery
  <2> QED
    BY <1>0, <2>1 DEF CallTypes, CallRecords, CallSteps
<1>8. CASE CallFindsDeleted(e) \/ CallRejects(e)
  BY <1>1, <1>8 DEF CallFindsDeleted, CallRejects, CutShort
<1> QED
  BY <1>3, <1>4, <1>5, <1>6, <1>7, <1>8 DEF CallStep

LEMMA WorkerTypesStep ==
    ASSUME DeliveryTypes, NEW w \in Workers, WorkerStep(w) \/ WorkerDies(w)
    PROVE  WorkerTypes'
<1>0. WorkerTypes /\ worker[w] \in WorkerRecords
  BY DEF DeliveryTypes, WorkerTypes
<1>1. ASSUME worker' = [worker EXCEPT ![w] = Idle]
      PROVE  WorkerTypes'
  BY <1>0, <1>1, IdleType, WorkerChanges
<1>2. ASSUME NEW step \in WorkerSteps, worker[w].at # "idle",
             worker' = [worker EXCEPT ![w].at = step]
      PROVE  WorkerTypes'
  BY <1>0, <1>2 DEF WorkerTypes, WorkerRecords
<1>3. ASSUME NEW d \in Deliveries, TakeJob(w, d)
      PROVE  WorkerTypes'
  <2> DEFINE c == [at |-> "fetch", delivery |-> d, attempt |-> job[d].attemptsMade + 1]
  <2>1. job[d].attemptsMade \in Nat
    BY RecordFacts DEF JobRecords
  <2>2. c \in WorkerRecords /\ c.delivery \in Deliveries /\ worker' = [worker EXCEPT ![w] = c]
    BY <1>3, <2>1 DEF TakeJob, WorkerRecords, WorkerSteps
  <2> HIDE DEF c
  <2> QED
    BY <1>0, <2>2, WorkerChanges
<1>4. CASE Fetch(w)
  BY <1>2, <1>4 DEF Fetch, WorkerSteps
<1>5. CASE UpdateSuccess(w) \/ UpdateFailure(w)
  BY <1>2, <1>5 DEF UpdateSuccess, UpdateFailure, WorkerSteps
<1>6. CASE Finish(w) \/ WorkerDies(w)
  BY <1>1, <1>6 DEF Finish, WorkerDies
<1> QED
  BY <1>3, <1>4, <1>5, <1>6 DEF WorkerStep

\* The ways a job changes.
LEMMA JobUpdates ==
    ASSUME NEW j \in JobRecords, NEW step \in JobStates \ {"none"},
           NEW o \in Workers \cup {Nobody}, NEW n \in Nat
    PROVE  /\ j.stalls \in Nat
           /\ [j EXCEPT !.state = step] \in JobRecords
           /\ [j EXCEPT !.state = step, !.owner = o] \in JobRecords
           /\ [j EXCEPT !.attemptsMade = n, !.owner = o, !.state = step] \in JobRecords
           /\ [j EXCEPT !.owner = o, !.stalls = n, !.state = step] \in JobRecords
<1> USE DEF JobRecords
<1>1. [j EXCEPT !.state = step] \in JobRecords
  OBVIOUS
<1>2. [j EXCEPT !.state = step, !.owner = o] \in JobRecords
  OBVIOUS
<1>3. [j EXCEPT !.attemptsMade = n, !.owner = o, !.state = step] \in JobRecords
  OBVIOUS
<1>4. [j EXCEPT !.owner = o, !.stalls = n, !.state = step] \in JobRecords
  OBVIOUS
<1> QED
  BY <1>1, <1>2, <1>3, <1>4

\* What a step may do to the job of one delivery.
LEMMA JobTypesStep ==
    ASSUME DeliveryTypes, DeliveryStep
    PROVE  /\ job' \in [Deliveries -> JobRecords]
           /\ \A d \in Deliveries : /\ job[d].stalls <= job'[d].stalls
                                    /\ job[d].state # "none" => job'[d].state # "none"
<1> USE DEF DeliveryTypes
<1>0. \A d \in Deliveries : /\ job[d] \in JobRecords /\ job[d].stalls \in Nat
                            /\ job[d].attemptsMade \in Nat
  BY DEF JobRecords
<1> DEFINE Goal == /\ job' \in [Deliveries -> JobRecords]
                   /\ \A d \in Deliveries : /\ job[d].stalls <= job'[d].stalls
                                            /\ job[d].state # "none" => job'[d].state # "none"
<1>1. ASSUME UNCHANGED job
      PROVE  Goal
  BY <1>0, <1>1
<1>2. ASSUME NEW d \in Deliveries, NEW j \in JobRecords, j.state # "none",
             j.stalls >= job[d].stalls, job' = [job EXCEPT ![d] = j]
      PROVE  Goal
  BY <1>0, <1>2
<1> HIDE DEF Goal
<1>3. ASSUME NEW e \in Events, EnqueueWebhookDelivery(e)
      PROVE  Goal
  <2>1. Of(e) \in Deliveries
    BY <1>3, PairType DEF EnqueueWebhookDelivery, Of, CallRecords
  <2> DEFINE j == [job[Of(e)] EXCEPT !.state = "waiting"]
  <2>2. j \in JobRecords /\ j.state # "none" /\ j.stalls >= job[Of(e)].stalls
    BY <1>0, <2>1 DEF JobRecords, JobStates
  <2>3. job' = [job EXCEPT ![Of(e)] = j]
    BY <1>3 DEF EnqueueWebhookDelivery
  <2> HIDE DEF j
  <2> QED
    BY <1>2, <2>1, <2>2, <2>3
<1>4. ASSUME NEW w \in Workers, NEW d \in Deliveries, TakeJob(w, d)
      PROVE  Goal
  <2> DEFINE j == [job[d] EXCEPT !.state = "active", !.owner = w]
  <2>1. j \in JobRecords
    BY <1>0, JobUpdates DEF JobStates
  <2>4. j.state # "none" /\ j.stalls >= job[d].stalls
    BY <1>0 DEF JobRecords
  <2>2. job' = [job EXCEPT ![d] = j]
    BY <1>4 DEF TakeJob
  <2> HIDE DEF j
  <2> QED
    BY <1>2, <2>1, <2>2, <2>4
<1>5. ASSUME NEW w \in Workers, Finish(w)
      PROVE  Goal
  <2> DEFINE d == worker[w].delivery
             made == job[d].attemptsMade + 1
             next1 == IF worker[w].at = "complete" THEN "completed"
                      ELSE IF made >= Attempts THEN "failed" ELSE "waiting"
             j == [job[d] EXCEPT !.attemptsMade = made, !.owner = Nobody, !.state = next1]
  <2>1. d \in Deliveries
    BY <1>5 DEF Finish
  <2>2. next1 \in JobStates /\ next1 # "none" /\ made \in Nat
    BY <1>0, <2>1 DEF JobStates
  <2>3. UNCHANGED job \/ job' = [job EXCEPT ![d] = j]
    BY <1>5 DEF Finish
  <2> HIDE DEF next1, made
  <2>4. j \in JobRecords
    BY <1>0, <2>1, <2>2, JobUpdates
  <2>5. j.state # "none" /\ j.stalls >= job[d].stalls
    BY <1>0, <2>1, <2>2 DEF JobRecords
  <2> HIDE DEF d, j
  <2> QED
    BY <1>1, <1>2, <2>1, <2>3, <2>4, <2>5
<1>6. ASSUME NEW w \in Workers, WorkerDies(w)
      PROVE  Goal
  <2>1. job' = [d \in Deliveries |->
                  IF job[d].owner = w THEN [job[d] EXCEPT !.owner = Nobody] ELSE job[d]]
    BY <1>6 DEF WorkerDies
  <2>2. ASSUME NEW d \in Deliveries
        PROVE  /\ job'[d] \in JobRecords /\ job'[d].stalls = job[d].stalls
               /\ job'[d].state = job[d].state
    BY <1>0, <2>1 DEF JobRecords
  <2> QED
    BY <1>0, <2>1, <2>2 DEF Goal
<1>7. ASSUME NEW d \in Deliveries, GiveBack(d)
      PROVE  Goal
  <2> DEFINE next1 == IF job[d].stalls >= MaxStalls THEN "failed" ELSE "waiting"
             j == [job[d] EXCEPT !.owner = Nobody, !.stalls = @ + 1, !.state = next1]
  <2>1. next1 \in JobStates /\ next1 # "none"
    BY DEF JobStates
  <2>2. job' = [job EXCEPT ![d] = j]
    BY <1>7 DEF GiveBack
  <2> HIDE DEF next1
  <2>3. j \in JobRecords
    <3>1. job[d].stalls + 1 \in Nat
      BY <1>0
    <3> QED
      BY <1>0, <2>1, <3>1, JobUpdates
  <2>4. j.state # "none" /\ j.stalls >= job[d].stalls
    BY <1>0, <2>1 DEF JobRecords
  <2> HIDE DEF j
  <2> QED
    BY <1>2, <2>2, <2>3, <2>4
<1>8. ASSUME NEW e \in Events, CallStep(e) \/ CallRejects(e)
      PROVE  Goal
  BY <1>1, <1>3, <1>8 DEF CallStep, CallRejects, FindSubscriptions, UpdatePayload,
                          CreateDelivery, CallFindsDeleted, CutShort
<1>9. ASSUME NEW w \in Workers, WorkerStep(w)
      PROVE  Goal
  BY <1>1, <1>4, <1>5, <1>9 DEF WorkerStep, Fetch, UpdateSuccess, UpdateFailure
<1>10. ASSUME NEW s \in Subs, DeleteSubscription(s)
       PROVE  Goal
  BY <1>1, <1>10 DEF DeleteSubscription
<1>11. ASSUME NEW d \in Deliveries, StalledCheck(d) \/ LockLost(d)
       PROVE  Goal
  BY <1>7, <1>11 DEF StalledCheck, LockLost
<1>12. Goal
  BY <1>6, <1>8, <1>9, <1>10, <1>11 DEF DeliveryStep
<1> QED
  BY <1>12 DEF Goal

LEMMA StatusTypesStep ==
    ASSUME DeliveryTypes, DeliveryStep
    PROVE  status' \in [Deliveries -> Statuses]
<1> USE DEF Statuses
<1>0. status \in [Deliveries -> Statuses]
  BY DEF DeliveryTypes
<1>1. ASSUME NEW d, NEW st \in Statuses, status' = [status EXCEPT ![d] = st]
      PROVE  status' \in [Deliveries -> Statuses]
  BY <1>0, <1>1
<1>2. ASSUME NEW e \in Events, CallStep(e) \/ CallRejects(e)
      PROVE  status' \in [Deliveries -> Statuses]
  BY <1>0, <1>1, <1>2
     DEF CallStep, CallRejects, FindSubscriptions, UpdatePayload, EnqueueWebhookDelivery,
         CreateDelivery, CallFindsDeleted, CutShort
<1>3. ASSUME NEW w \in Workers, WorkerStep(w) \/ WorkerDies(w)
      PROVE  status' \in [Deliveries -> Statuses]
  <2>1. CASE UpdateFailure(w)
    <3>1. worker[w].delivery \in Deliveries
      BY <2>1 DEF UpdateFailure, DeliveryTypes
    <3> QED
      BY <1>0, <2>1, <3>1 DEF UpdateFailure
  <2>2. CASE UpdateSuccess(w)
    BY <1>0, <1>1, <2>2 DEF UpdateSuccess
  <2> QED
    BY <1>0, <1>3, <2>1, <2>2 DEF WorkerStep, WorkerDies, TakeJob, Fetch, Finish
<1>4. ASSUME NEW s \in Subs, DeleteSubscription(s)
      PROVE  status' \in [Deliveries -> Statuses]
  BY <1>0, <1>4 DEF DeleteSubscription
<1>5. ASSUME NEW d \in Deliveries, StalledCheck(d) \/ LockLost(d)
      PROVE  status' \in [Deliveries -> Statuses]
  BY <1>0, <1>5 DEF StalledCheck, LockLost
<1> QED
  BY <1>2, <1>3, <1>4, <1>5 DEF DeliveryStep

LEMMA LedgersAreEvents ==
    ASSUME ServiceTypeOK
    PROVE  Ledgers \subseteq Events
  BY PipelineAssumption DEF ServiceTypeOK, Ledgers

LEMMA DeliveryTypesStep ==
    ASSUME DeliveryTypes, ServiceTypeOK, [PipelineNext]_pipelineVars
    PROVE  DeliveryTypes'
<1>0. CallTypes /\ WorkerTypes
  BY DEF DeliveryTypes, CallTypes, WorkerTypes
<1>1. CASE DeliveryStep
  <2>1. status' \in [Deliveries -> Statuses] /\ job' \in [Deliveries -> JobRecords]
    BY <1>1, StatusTypesStep, JobTypesStep
  <2>2. active' \subseteq Subs /\ CallTypes' /\ WorkerTypes'
    <3>1. ASSUME NEW e \in Events, CallStep(e) \/ CallRejects(e)
          PROVE  active' = active /\ CallTypes' /\ worker' = worker
      <4>1. UNCHANGED <<active, worker>>
        BY <3>1 DEF CallStep, CallRejects, FindSubscriptions, UpdatePayload,
                    EnqueueWebhookDelivery, CreateDelivery, CallFindsDeleted, CutShort
      <4> QED
        BY <3>1, <4>1, CallTypesStep
    <3>2. ASSUME NEW w \in Workers, WorkerStep(w) \/ WorkerDies(w)
          PROVE  active' = active /\ call' = call /\ WorkerTypes'
      <4>1. UNCHANGED <<active, call>>
        BY <3>2 DEF WorkerStep, WorkerDies, TakeJob, Fetch, UpdateSuccess, UpdateFailure, Finish
      <4> QED
        BY <3>2, <4>1, WorkerTypesStep
    <3>3. ASSUME NEW s \in Subs, DeleteSubscription(s)
          PROVE  active' \subseteq active /\ call' = call /\ worker' = worker
      BY <3>3 DEF DeleteSubscription
    <3>4. ASSUME NEW d \in Deliveries, StalledCheck(d) \/ LockLost(d)
          PROVE  active' = active /\ call' = call /\ worker' = worker
      BY <3>4 DEF StalledCheck, LockLost
    <3>5. /\ active \subseteq Subs
          /\ call' = call => CallTypes'
          /\ worker' = worker => WorkerTypes'
      BY <1>0 DEF DeliveryTypes, CallTypes, WorkerTypes
    <3> QED
      BY <1>1, <3>1, <3>2, <3>3, <3>4, <3>5 DEF DeliveryStep
  <2> QED
    BY <2>1, <2>2 DEF DeliveryTypes, CallTypes, WorkerTypes
<1>2. ASSUME NEW t \in Ticks, NEW l \in Ledgers, AnnounceEvent(t, l)
      PROVE  DeliveryTypes'
  <2>1. l \in Events
    BY LedgersAreEvents
  <2>2. CallTypes' /\ UNCHANGED <<active, status, job, worker>>
    BY <1>2, <2>1, CallTypesStep DEF AnnounceEvent, QueueEventWebhooks
  <2> QED
    BY <2>2 DEF DeliveryTypes, CallTypes
<1>3. CASE ApiDies
  <2>1. call' = [e \in Events |-> NoCall] /\ UNCHANGED <<active, status, job, worker>>
    BY <1>3 DEF ApiDies, CallsDie
  <2>2. CallTypes'
    BY <2>1, NoCallType DEF CallTypes
  <2> QED
    BY <2>1, <2>2 DEF DeliveryTypes, CallTypes
<1>4. CASE ServiceAlone \/ UNCHANGED pipelineVars
  <2>1. UNCHANGED <<active, call, status, job, worker>>
    BY <1>4 DEF ServiceAlone, pipelineVars, deliveryVars
  <2> QED
    BY <2>1 DEF DeliveryTypes
<1> QED
  BY <1>1, <1>2, <1>3, <1>4 DEF PipelineNext

----------------------------------------------------------------------------
(* A delivery is queued once *)

\* What a step may do to the jobs that are not queued.
LEMMA QueueSteps ==
    ASSUME DeliveryTypes, QueuedOnce, DeliveryStep
    PROVE  /\ \A d \in Deliveries :
                 job[d].state = "none" /\ job'[d].state # "none" =>
                    \E e \in Events : d = Of(e) /\ EnqueueWebhookDelivery(e)
           /\ \A w \in Workers, d \in Deliveries :
                 Busy(w, d)' => Busy(w, d) \/ TakeJob(w, d)
<1> USE DEF DeliveryTypes
<1>1. ASSUME NEW d \in Deliveries, job[d].state = "none", job'[d].state # "none"
      PROVE  \E e \in Events : d = Of(e) /\ EnqueueWebhookDelivery(e)
  <2>1. ASSUME NEW e \in Events, CallStep(e) \/ CallRejects(e)
        PROVE  d = Of(e) /\ EnqueueWebhookDelivery(e)
    <3>1. job' = job \/ EnqueueWebhookDelivery(e)
      BY <2>1 DEF CallStep, CallRejects, FindSubscriptions, UpdatePayload,
                  CreateDelivery, CallFindsDeleted, CutShort
    <3>2. EnqueueWebhookDelivery(e)
      BY <1>1, <3>1
    <3> QED
      BY <1>1, <3>2 DEF EnqueueWebhookDelivery
  <2>2. ASSUME NEW w \in Workers, WorkerStep(w) \/ WorkerDies(w)
        PROVE  FALSE
    <3>1. CASE \E k \in Deliveries : TakeJob(w, k)
      BY <1>1, <3>1 DEF TakeJob
    <3>2. CASE Fetch(w) \/ UpdateSuccess(w) \/ UpdateFailure(w)
      BY <1>1, <3>2 DEF Fetch, UpdateSuccess, UpdateFailure
    <3>3. CASE Finish(w)
      <4>1. worker[w].delivery \in Deliveries /\ Busy(w, worker[w].delivery)
        BY <3>3 DEF Finish, Busy
      <4>2. worker[w].delivery # d
        BY <1>1, <4>1 DEF QueuedOnce
      <4> QED
        BY <1>1, <3>3, <4>2 DEF Finish
    <3>4. CASE WorkerDies(w)
      BY <1>1, <3>4 DEF WorkerDies
    <3> QED
      BY <2>2, <3>1, <3>2, <3>3, <3>4 DEF WorkerStep
  <2>3. ASSUME NEW s \in Subs, DeleteSubscription(s)
        PROVE  FALSE
    BY <1>1, <2>3 DEF DeleteSubscription
  <2>4. ASSUME NEW k \in Deliveries, StalledCheck(k) \/ LockLost(k)
        PROVE  FALSE
    <3>1. job[k].state = "active" /\ GiveBack(k)
      BY <2>4 DEF StalledCheck, LockLost
    <3> QED
      BY <1>1, <3>1 DEF GiveBack
  <2> QED
    BY <2>1, <2>2, <2>3, <2>4 DEF DeliveryStep
<1>2. ASSUME NEW w \in Workers, NEW d \in Deliveries, Busy(w, d)'
      PROVE  Busy(w, d) \/ TakeJob(w, d)
  <2>1. ASSUME UNCHANGED worker
        PROVE  Busy(w, d)
    BY <1>2, <2>1 DEF Busy
  <2>2. ASSUME NEW v \in Workers, WorkerStep(v) \/ WorkerDies(v)
        PROVE  Busy(w, d) \/ TakeJob(w, d)
    <3>1. CASE \E k \in Deliveries : TakeJob(v, k)
      <4>1. PICK k \in Deliveries : TakeJob(v, k)
        BY <3>1
      <4>2. CASE w = v
        <5>1. worker'[w].delivery = k
          BY <4>1, <4>2 DEF TakeJob
        <5> QED
          BY <1>2, <4>1, <4>2, <5>1 DEF Busy
      <4>3. CASE w # v
        <5>1. worker'[w] = worker[w]
          BY <4>1, <4>3 DEF TakeJob
        <5> QED
          BY <1>2, <5>1 DEF Busy
      <4> QED
        BY <4>2, <4>3
    <3>2. CASE Fetch(v) \/ UpdateSuccess(v) \/ UpdateFailure(v)
      <4>1. /\ worker[v].at # "idle" /\ worker'[v].delivery = worker[v].delivery
            /\ w # v => worker'[w] = worker[w]
        BY <3>2 DEF Fetch, UpdateSuccess, UpdateFailure, WorkerRecords
      <4> QED
        BY <1>2, <4>1 DEF Busy
    <3>3. CASE Finish(v) \/ WorkerDies(v)
      BY <1>2, <3>3 DEF Finish, WorkerDies, Busy, Idle
    <3> QED
      BY <2>2, <3>1, <3>2, <3>3 DEF WorkerStep
  <2> QED
    BY <2>1, <2>2
       DEF DeliveryStep, CallStep, CallRejects, FindSubscriptions, UpdatePayload,
           EnqueueWebhookDelivery, CreateDelivery, CallFindsDeleted, CutShort,
           DeleteSubscription, StalledCheck, LockLost
<1> QED
  BY <1>1, <1>2

LEMMA CallTodo ==
    ASSUME DeliveryTypes, NEW e \in Events, NEW todo \in SUBSET Subs,
           \/ call' = [call EXCEPT ![e] = NoCall]
           \/ call' = [call EXCEPT ![e] = [NoCall EXCEPT !.at = "create", !.todo = todo]]
    PROVE  call'[e].todo \subseteq todo
<1> DEFINE c == [NoCall EXCEPT !.at = "create", !.todo = todo]
<1>1. c.todo = todo
  BY NewCall
<1>2. call'[e] = NoCall \/ call'[e] = c
  BY DEF DeliveryTypes
<1> HIDE DEF c
<1>3. CASE call'[e] = NoCall
  <2>1. call'[e].todo = {}
    BY <1>3, NoCallType
  <2> QED
    BY <2>1
<1>4. CASE call'[e] = c
  <2>1. call'[e].todo = todo
    BY <1>1, <1>4
  <2> QED
    BY <2>1
<1> QED
  BY <1>2, <1>3, <1>4

\* What a call has just queued, it does not queue again.
LEMMA EnqueuedOnce ==
    ASSUME DeliveryTypes, NEW e \in Events, EnqueueWebhookDelivery(e)
    PROVE  call'[e].todo \subseteq call[e].todo \ {call[e].sub}
<1>1. call[e].todo \ {call[e].sub} \in SUBSET Subs
  BY DEF DeliveryTypes, CallRecords
<1>2. \/ call' = [call EXCEPT ![e] = NoCall]
      \/ call' = [call EXCEPT ![e] = [NoCall EXCEPT !.at = "create",
                                                   !.todo = call[e].todo \ {call[e].sub}]]
  BY DEF EnqueueWebhookDelivery
<1> QED
  BY <1>1, <1>2, CallTodo

\* A call never gets more to queue, but when its event is announced.
LEMMA TodoShrinks ==
    ASSUME DeliveryTypes, DeliveryStep, NEW e \in Events
    PROVE  /\ call'[e].todo \subseteq call[e].todo
           /\ call'[e].at # "none" => call[e].at # "none"
<1> DEFINE Goal == /\ call'[e].todo \subseteq call[e].todo
                   /\ call'[e].at # "none" => call[e].at # "none"
<1>0. call \in [Events -> CallRecords]
  BY DEF DeliveryTypes
<1>1. ASSUME call'[e] = call[e]
      PROVE  Goal
  BY <1>1
<1>2. ASSUME FindSubscriptions(e)
      PROVE  Goal
  <2>1. active \cap call[e].todo \in SUBSET Subs
    BY DEF DeliveryTypes
  <2>2. \/ call' = [call EXCEPT ![e] = NoCall]
        \/ call' = [call EXCEPT ![e] = [NoCall EXCEPT !.at = "create",
                                                     !.todo = active \cap call[e].todo]]
    BY <1>2 DEF FindSubscriptions
  <2>3. call'[e].todo \subseteq active \cap call[e].todo
    BY <2>1, <2>2, CallTodo
  <2> QED
    BY <1>2, <2>3 DEF FindSubscriptions
<1>3. ASSUME EnqueueWebhookDelivery(e)
      PROVE  Goal
  BY <1>3, EnqueuedOnce DEF EnqueueWebhookDelivery
<1>4. ASSUME UpdatePayload(e)
      PROVE  Goal
  <2>1. call[e].at = "update" /\ call' = [call EXCEPT ![e].at = "enqueue"]
    BY <1>4 DEF UpdatePayload
  <2>2. call'[e].todo = call[e].todo
    BY <1>0, <2>1 DEF CallRecords
  <2> QED
    BY <2>1, <2>2
<1>5. ASSUME NEW s \in Subs, CreateDelivery(e, s)
      PROVE  Goal
  <2>1. call[e].at = "create" /\ call' = [call EXCEPT ![e].at = "update", ![e].sub = s]
    BY <1>5 DEF CreateDelivery
  <2>2. call'[e].todo = call[e].todo
    BY <1>0, <2>1 DEF CallRecords
  <2> QED
    BY <2>1, <2>2
<1>6. ASSUME CallFindsDeleted(e) \/ CallRejects(e)
      PROVE  Goal
  <2>1. call'[e] = NoCall
    BY <1>0, <1>6 DEF CallFindsDeleted, CallRejects, CutShort
  <2>2. call'[e].todo = {} /\ call'[e].at = "none"
    BY <2>1, NoCallType
  <2> QED
    BY <2>2
<1>7. ASSUME NEW f \in Events \ {e}, CallStep(f) \/ CallRejects(f)
      PROVE  call'[e] = call[e]
  BY <1>0, <1>7 DEF CallStep, CallRejects, FindSubscriptions, UpdatePayload,
                    EnqueueWebhookDelivery, CreateDelivery, CallFindsDeleted, CutShort
<1>8. call' = call \/ \E f \in Events : CallStep(f) \/ CallRejects(f)
  BY DEF DeliveryStep, WorkerStep, WorkerDies, TakeJob, Fetch, UpdateSuccess, UpdateFailure,
         Finish, DeleteSubscription, StalledCheck, LockLost
<1> HIDE DEF Goal
<1>9. ASSUME CallStep(e) \/ CallRejects(e)
      PROVE  Goal
  BY <1>2, <1>3, <1>4, <1>5, <1>6, <1>9 DEF CallStep
<1>10. Goal
  BY <1>1, <1>7, <1>8, <1>9
<1> QED
  BY <1>10 DEF Goal

LEMMA QueuedOnceStep ==
    ASSUME DeliveryTypes, ServiceTypeOK, QueuedOnce, [PipelineNext]_pipelineVars
    PROVE  QueuedOnce'
<1>0. /\ \A e \in Events : call[e].at # "none" => e \in recorded
      /\ \A e \in Events, s \in Subs :
            e \notin recorded \/ s \in call[e].todo => job[<<e, s>>].state = "none"
      /\ \A w \in Workers, d \in Deliveries : Busy(w, d) => job[d].state # "none"
  BY DEF QueuedOnce
<1>1. CASE DeliveryStep /\ UNCHANGED serviceVars
  <2>1. recorded' = recorded
    BY <1>1 DEF serviceVars, databaseVars
  <2>2. \A e \in Events : /\ call'[e].todo \subseteq call[e].todo
                          /\ call'[e].at # "none" => call[e].at # "none"
    BY <1>1, TodoShrinks
  <2>3. ASSUME NEW e \in Events, NEW s \in Subs, e \notin recorded' \/ s \in call'[e].todo
        PROVE  job'[<<e, s>>].state = "none"
    <3>1. job[<<e, s>>].state = "none" /\ <<e, s>> \in Deliveries
      BY <1>0, <2>1, <2>2, <2>3, PairType
    <3>2. ASSUME job'[<<e, s>>].state # "none"
          PROVE  FALSE
      <4>1. PICK f \in Events : <<e, s>> = Of(f) /\ EnqueueWebhookDelivery(f)
        BY <1>1, <3>1, <3>2, QueueSteps
      <4>2. f = e /\ call[e].sub = s
        BY <4>1 DEF Of
      <4>3. s \notin call'[e].todo
        BY <4>1, <4>2, EnqueuedOnce
      <4>4. e \in recorded
        BY <1>0, <4>1, <4>2 DEF EnqueueWebhookDelivery
      <4> QED
        BY <2>1, <2>3, <4>3, <4>4
    <3> QED
      BY <3>2
  <2>4. ASSUME NEW w \in Workers, NEW d \in Deliveries, Busy(w, d)'
        PROVE  job'[d].state # "none"
    <3>1. job[d].state # "none"
      BY <1>0, <1>1, <2>4, QueueSteps DEF TakeJob
    <3> QED
      BY <1>1, <3>1, JobTypesStep
  <2> QED
    BY <1>0, <2>1, <2>2, <2>3, <2>4 DEF QueuedOnce
<1>2. ASSUME recorded \subseteq recorded', UNCHANGED <<job, worker>>,
             \A e \in Events : call'[e].at # "none" => e \in recorded',
             \A e \in Events, s \in Subs :
                s \in call'[e].todo => s \in call[e].todo \/ e \notin recorded
      PROVE  QueuedOnce'
  <2>1. \A e \in Events, s \in Subs :
           e \notin recorded' \/ s \in call'[e].todo => job'[<<e, s>>].state = "none"
    BY <1>0, <1>2
  <2>2. \A w \in Workers, d \in Deliveries : Busy(w, d)' => job'[d].state # "none"
    BY <1>0, <1>2 DEF Busy
  <2> QED
    BY <1>2, <2>1, <2>2 DEF QueuedOnce
<1>3. ASSUME NEW t \in Ticks, NEW l \in Ledgers, AnnounceEvent(t, l)
      PROVE  QueuedOnce'
  <2>1. l \in Events /\ l \notin recorded /\ recorded' = recorded \cup {l}
        /\ UNCHANGED <<job, worker>>
    BY <1>3, LedgersAreEvents DEF AnnounceEvent, RecordEvent, QueueEventWebhooks
  <2>2. \A e \in Events \ {l} : call'[e] = call[e]
    BY <1>3, <2>1 DEF AnnounceEvent, QueueEventWebhooks, DeliveryTypes
  <2> QED
    BY <1>0, <1>2, <2>1, <2>2
<1>4. CASE ApiDies
  <2>1. UNCHANGED <<recorded, job, worker>> /\ call' = [e \in Events |-> NoCall]
    BY <1>4 DEF ApiDies, Crash, CallsDie, databaseVars
  <2>2. \A e \in Events : call'[e].at = "none" /\ call'[e].todo = {}
    BY <2>1, NoCallType
  <2> QED
    BY <1>2, <2>1, <2>2
<1>5. CASE ServiceAlone
  <2>1. UNCHANGED <<call, job, worker>> /\ recorded \subseteq recorded'
    BY <1>5 DEF ServiceAlone, deliveryVars, TickStep, Fail, GetContractEvents, GetLatestLedger,
                SkipEvent, AdvanceCursor, SaveCursor, Restart, CloseLedger, databaseVars
  <2> QED
    BY <1>0, <1>2, <2>1
<1>6. CASE UNCHANGED pipelineVars
  <2>1. UNCHANGED <<recorded, call, job, worker>>
    BY <1>6 DEF pipelineVars, serviceVars, deliveryVars, databaseVars
  <2> QED
    BY <1>0, <1>2, <2>1
<1> QED
  BY <1>1, <1>3, <1>4, <1>5, <1>6 DEF PipelineNext

----------------------------------------------------------------------------
(* The worker of a job in order *)

AttendedAt(d) ==
    InOrder(d) =>
       /\ \A w \in Workers : Busy(w, d) => job[d].state = "active" /\ job[d].owner = w
       /\ status[d] = "success" =>
            /\ job[d].state \in {"active", "completed"}
            /\ \A w \in Workers : Busy(w, d) => worker[w].at = "complete"

\* A step that leaves a job alone, its workers at most go, and its delivery does
\* not succeed.
LEMMA LeftAlone ==
    ASSUME NEW d \in Deliveries, AttendedAt(d), InOrder(d)' => InOrder(d),
           job'[d] = job[d], status'[d] = "success" => status[d] = "success",
           \A w \in Workers : Busy(w, d)' => worker'[w] = worker[w]
    PROVE  AttendedAt(d)'
<1> SUFFICES ASSUME InOrder(d)'
             PROVE  /\ \A w \in Workers : Busy(w, d)' => job'[d].state = "active"
                                                         /\ job'[d].owner = w
                    /\ status'[d] = "success" =>
                         /\ job'[d].state \in {"active", "completed"}
                         /\ \A w \in Workers : Busy(w, d)' => worker'[w].at = "complete"
  BY DEF AttendedAt
<1>1. \A w \in Workers : Busy(w, d)' => Busy(w, d) /\ worker'[w] = worker[w]
  BY DEF Busy
<1> QED
  BY <1>1 DEF AttendedAt

\* What leaves the order never comes back to it.
LEMMA OutOfOrder ==
    ASSUME DeliveryTypes, DeliveryStep, NEW d \in Deliveries, InOrder(d)'
    PROVE  InOrder(d)
<1>1. job[d].stalls <= job'[d].stalls /\ job[d].stalls \in Nat
  BY JobTypesStep DEF DeliveryTypes, JobRecords
<1>2. unrecorded \subseteq unrecorded'
  BY DEF DeliveryStep, CallStep, CallRejects, FindSubscriptions, UpdatePayload,
         EnqueueWebhookDelivery, CreateDelivery, CallFindsDeleted, CutShort,
         DeleteSubscription, WorkerStep, WorkerDies, TakeJob, Fetch, UpdateSuccess,
         UpdateFailure, Finish, StalledCheck, LockLost
<1> QED
  BY <1>1, <1>2 DEF InOrder

LEMMA CallAttends ==
    ASSUME DeliveryTypes, QueuedOnce, NEW d \in Deliveries, AttendedAt(d),
           InOrder(d)' => InOrder(d), NEW e \in Events, CallStep(e) \/ CallRejects(e)
    PROVE  AttendedAt(d)'
<1> USE DEF DeliveryTypes
<1>1. CASE EnqueueWebhookDelivery(e) /\ d = Of(e)
  <2>1. call[e].sub \in Subs /\ job[d].state = "none"
    BY <1>1 DEF EnqueueWebhookDelivery, QueuedOnce, Of, CallRecords
  <2>2. \A w \in Workers : ~Busy(w, d)'
    BY <1>1, <2>1 DEF QueuedOnce, Busy, EnqueueWebhookDelivery
  <2>3. InOrder(d)' => status'[d] # "success"
    BY <1>1, <2>1 DEF AttendedAt, EnqueueWebhookDelivery
  <2> QED
    BY <2>2, <2>3 DEF AttendedAt
<1>2. CASE EnqueueWebhookDelivery(e) /\ d # Of(e)
  <2>1. job'[d] = job[d] /\ status' = status /\ worker' = worker
    BY <1>2 DEF EnqueueWebhookDelivery
  <2> QED
    BY <2>1, LeftAlone
<1>3. ASSUME NEW s \in Subs, CreateDelivery(e, s)
      PROVE  AttendedAt(d)'
  <2>1. job' = job /\ worker' = worker /\ (status'[d] = "pending" \/ status'[d] = status[d])
    BY <1>3 DEF CreateDelivery
  <2> QED
    BY <2>1, LeftAlone
<1>4. CASE FindSubscriptions(e) \/ UpdatePayload(e) \/ CallFindsDeleted(e) \/ CallRejects(e)
  <2>1. job' = job /\ worker' = worker /\ status' = status
    BY <1>4 DEF FindSubscriptions, UpdatePayload, CallFindsDeleted, CallRejects, CutShort
  <2> QED
    BY <2>1, LeftAlone
<1> QED
  BY <1>1, <1>2, <1>3, <1>4 DEF CallStep

LEMMA WorkerAttends ==
    ASSUME DeliveryTypes, NEW d \in Deliveries, AttendedAt(d),
           InOrder(d)' => InOrder(d), NEW w \in Workers, WorkerStep(w) \/ WorkerDies(w)
    PROVE  AttendedAt(d)'
<1> USE DEF DeliveryTypes
<1>0. \A v \in Workers : v # w => worker'[v] = worker[v]
  BY DEF WorkerStep, WorkerDies, TakeJob, Fetch, UpdateSuccess, UpdateFailure, Finish
<1>1. CASE TakeJob(w, d)
  <2>1. job[d].state = "waiting" /\ worker'[w].at = "fetch" /\ status' = status
        /\ job'[d].state = "active" /\ job'[d].owner = w
    BY <1>1 DEF TakeJob, JobRecords
  <2> SUFFICES ASSUME InOrder(d)'
               PROVE  /\ \A v \in Workers : Busy(v, d)' => v = w
                      /\ status'[d] # "success"
    BY <2>1 DEF AttendedAt
  <2>2. \A v \in Workers : ~Busy(v, d)
    BY <2>1 DEF AttendedAt
  <2>3. \A v \in Workers : Busy(v, d)' => v = w
    BY <1>0, <2>2 DEF Busy
  <2>4. status[d] # "success"
    BY <2>1 DEF AttendedAt
  <2> QED
    BY <2>1, <2>3, <2>4
<1>2. ASSUME NEW k \in Deliveries, k # d, TakeJob(w, k)
      PROVE  AttendedAt(d)'
  <2>1. job'[d] = job[d] /\ status' = status /\ worker'[w].delivery = k
    BY <1>2 DEF TakeJob
  <2> QED
    BY <1>0, <1>2, <2>1, LeftAlone DEF Busy
<1>3. ASSUME worker[w].at # "idle", worker[w].delivery # d, worker'[w] = Idle
             \/ worker'[w].delivery = worker[w].delivery,
             job'[d] = job[d], status'[d] = status[d]
      PROVE  AttendedAt(d)'
  <2>1. ~Busy(w, d)'
    BY <1>3, IdleType DEF Busy
  <2> QED
    BY <1>0, <1>3, <2>1, LeftAlone
<1>4. CASE Fetch(w)
  <2>1. /\ worker'[w].delivery = worker[w].delivery /\ worker[w].at = "fetch"
        /\ job' = job /\ status' = status
    BY <1>4 DEF Fetch, WorkerRecords
  <2>2. CASE worker[w].delivery = d
    <3>1. Busy(w, d)
      BY <2>1, <2>2 DEF Busy
    <3>2. \A v \in Workers : Busy(v, d)' => Busy(v, d)
      BY <1>0, <3>1 DEF Busy
    <3>3. InOrder(d)' => status[d] # "success"
      BY <2>1, <3>1 DEF AttendedAt
    <3> QED
      BY <2>1, <3>2, <3>3 DEF AttendedAt
  <2> QED
    BY <1>3, <2>1, <2>2
<1>5. CASE UpdateSuccess(w)
  <2> DEFINE k == worker[w].delivery
  <2>1. /\ worker'[w].delivery = k /\ worker[w].at = "updateSuccess"
        /\ job' = job /\ k \in Deliveries
        /\ \/ status' = [status EXCEPT ![k] = "success"] /\ worker'[w].at = "complete"
           \/ status' = status /\ status[k] = "deleted"
           \/ k \in unrecorded' /\ (status' = [status EXCEPT ![k] = "success"]
                                    \/ status' = status)
    BY <1>5 DEF UpdateSuccess, WorkerRecords
  <2>2. CASE k = d
    <3>1. Busy(w, d)
      BY <2>1, <2>2 DEF Busy
    <3>2. \A v \in Workers : Busy(v, d)' => Busy(v, d)
      BY <1>0, <3>1 DEF Busy
    <3> SUFFICES ASSUME InOrder(d)'
                 PROVE  /\ \A v \in Workers : Busy(v, d) => job[d].state = "active"
                                                            /\ job[d].owner = v
                        /\ status'[d] = "success" =>
                             /\ job[d].state = "active"
                             /\ \A v \in Workers : Busy(v, d) => worker'[v].at = "complete"
      BY <2>1, <3>2 DEF AttendedAt
    <3>3. \A v \in Workers : Busy(v, d) => job[d].state = "active" /\ job[d].owner = v
      BY DEF AttendedAt
    <3>4. job[d].state = "active" /\ \A v \in Workers : Busy(v, d) => v = w
      BY <3>1, <3>3
    <3>5. d \notin unrecorded'
      BY DEF InOrder
    <3>6. status'[d] = "success" => worker'[w].at = "complete"
      BY <2>1, <2>2, <3>5
    <3> QED
      BY <3>3, <3>4, <3>6
  <2>3. CASE k # d
    <3>1. status'[d] = status[d]
      BY <2>1, <2>3
    <3> QED
      BY <1>3, <2>1, <2>3, <3>1
  <2> QED
    BY <2>2, <2>3
<1>6. CASE UpdateFailure(w)
  <2> DEFINE k == worker[w].delivery
  <2>1. /\ worker'[w].delivery = k /\ worker[w].at = "updateFailure"
        /\ job' = job /\ k \in Deliveries
        /\ \/ \E st \in {"deleted", "failed", "pending"} : status' = [status EXCEPT ![k] = st]
           \/ status' = status
    BY <1>6 DEF UpdateFailure, WorkerRecords
  <2>2. CASE k = d
    <3>1. Busy(w, d)
      BY <2>1, <2>2 DEF Busy
    <3>2. \A v \in Workers : Busy(v, d)' => Busy(v, d)
      BY <1>0, <3>1 DEF Busy
    <3>3. InOrder(d)' => status[d] # "success"
      BY <2>1, <3>1 DEF AttendedAt
    <3>4. status'[d] = "success" => status[d] = "success"
      BY <2>1, <2>2
    <3> QED
      BY <2>1, <3>2, <3>3, <3>4 DEF AttendedAt
  <2>3. CASE k # d
    <3>1. status'[d] = status[d]
      BY <2>1, <2>3
    <3> QED
      BY <1>3, <2>1, <2>3, <3>1
  <2> QED
    BY <2>2, <2>3
<1>7. CASE Finish(w)
  <2> DEFINE k == worker[w].delivery
  <2>1. /\ worker'[w] = Idle /\ worker[w].at \in {"complete", "retry"}
        /\ k \in Deliveries /\ status' = status
    BY <1>7 DEF Finish
  <2>2. CASE k = d
    <3>1. Busy(w, d)
      BY <2>1, <2>2 DEF Busy
    <3>2. \A v \in Workers : Busy(v, d)' => v # w /\ Busy(v, d)
      BY <1>0, <2>1, IdleType DEF Busy
    <3> SUFFICES ASSUME InOrder(d)'
                 PROVE  /\ \A v \in Workers : ~Busy(v, d)'
                        /\ status[d] = "success" => job'[d].state = "completed"
      BY <2>1 DEF AttendedAt
    <3>3. job[d].owner = w /\ \A v \in Workers : ~Busy(v, d)'
      BY <3>1, <3>2 DEF AttendedAt
    <3>4. status[d] = "success" => worker[w].at = "complete"
      BY <3>1 DEF AttendedAt
    <3>5. worker[w].at = "complete" => job'[d].state = "completed"
      BY <1>7, <2>2, <3>3 DEF Finish, JobRecords
    <3> QED
      BY <3>3, <3>4, <3>5
  <2>3. CASE k # d
    <3>1. job'[d] = job[d]
      BY <1>7, <2>3 DEF Finish
    <3> QED
      BY <1>3, <2>1, <2>3, <3>1
  <2> QED
    BY <2>2, <2>3
<1>8. CASE WorkerDies(w)
  <2>1. /\ worker'[w] = Idle /\ status' = status
        /\ job'[d] = IF job[d].owner = w THEN [job[d] EXCEPT !.owner = Nobody] ELSE job[d]
    BY <1>8 DEF WorkerDies
  <2>2. \A v \in Workers : Busy(v, d)' => v # w /\ Busy(v, d) /\ worker'[v] = worker[v]
    BY <1>0, <2>1, IdleType DEF Busy
  <2>3. job'[d].state = job[d].state
    BY <2>1 DEF JobRecords
  <2>4. \A v \in Workers : job[d].owner = v /\ v # w => job'[d].owner = v
    BY <2>1
  <2> QED
    BY <2>1, <2>2, <2>3, <2>4 DEF AttendedAt
<1> QED
  BY <1>1, <1>2, <1>4, <1>5, <1>6, <1>7, <1>8 DEF WorkerStep

LEMMA QueueAttends ==
    ASSUME DeliveryTypes, NEW d \in Deliveries, AttendedAt(d),
           InOrder(d)' => InOrder(d), NEW k \in Deliveries, StalledCheck(k) \/ LockLost(k)
    PROVE  AttendedAt(d)'
<1> USE DEF DeliveryTypes
<1>1. GiveBack(k) /\ UNCHANGED <<status, worker>>
  BY DEF StalledCheck, LockLost
<1>2. CASE k = d
  <2>1. job[d].stalls \in Nat /\ job'[d].stalls = job[d].stalls + 1
    BY <1>1, <1>2 DEF GiveBack, JobRecords
  <2>2. job'[d].stalls # 0
    BY <2>1
  <2> QED
    BY <2>2 DEF AttendedAt, InOrder
<1>3. CASE k # d
  <2>1. job'[d] = job[d]
    BY <1>1, <1>3 DEF GiveBack
  <2> QED
    BY <1>1, <2>1, LeftAlone
<1> QED
  BY <1>2, <1>3

LEMMA AttendedStep ==
    ASSUME DeliveryTypes, QueuedOnce, Attended, [PipelineNext]_pipelineVars
    PROVE  Attended'
<1>0. Attended <=> \A d \in Deliveries : AttendedAt(d)
  BY DEF Attended, AttendedAt
<1>1. Attended' <=> \A d \in Deliveries : AttendedAt(d)'
  BY DEF Attended, AttendedAt, Deliveries
<1>2. ASSUME DeliveryStep, NEW d \in Deliveries
      PROVE  AttendedAt(d)'
  <2>1. AttendedAt(d) /\ (InOrder(d)' => InOrder(d))
    BY <1>0, <1>2, OutOfOrder
  <2>2. ASSUME NEW s \in Subs, DeleteSubscription(s)
        PROVE  AttendedAt(d)'
    <3>1. job' = job /\ worker' = worker
          /\ (status'[d] = "deleted" \/ status'[d] = status[d])
      BY <2>2 DEF DeleteSubscription
    <3> QED
      BY <2>1, <3>1, LeftAlone
  <2> QED
    BY <1>2, <2>1, <2>2, CallAttends, WorkerAttends, QueueAttends DEF DeliveryStep
<1>3. ASSUME UNCHANGED <<status, job, worker, unrecorded>>
      PROVE  Attended'
  BY <1>3 DEF Attended, InOrder, Busy
<1>4. CASE \E t \in Ticks, l \in Ledgers : AnnounceEvent(t, l)
  BY <1>3, <1>4 DEF AnnounceEvent, QueueEventWebhooks
<1>5. CASE ApiDies \/ ServiceAlone \/ UNCHANGED pipelineVars
  BY <1>3, <1>5 DEF ApiDies, CallsDie, ServiceAlone, pipelineVars, deliveryVars
<1> QED
  BY <1>1, <1>2, <1>4, <1>5 DEF PipelineNext

----------------------------------------------------------------------------
(* The composition *)

\* eventIndexer.js inside the API server with its webhooks: the composed system
\* takes only steps of the indexer, as seen by the indexer's own variables; a
\* delivery is a stuttering step to it.  What holds of the indexer holds here.
THEOREM PipelineRunsService == PipelineSpec => ServiceSpec
<1>1. PipelineInit => ServiceInit
  BY DEF PipelineInit
<1>2. ASSUME [PipelineNext]_pipelineVars
      PROVE  [ServiceNext]_serviceVars
  <2>1. CASE \E t \in Ticks, l \in Ledgers : AnnounceEvent(t, l)
    BY <2>1 DEF AnnounceEvent, ServiceNext
  <2>2. CASE ServiceAlone
    BY <2>2 DEF ServiceAlone, ServiceNext
  <2>3. CASE (DeliveryStep /\ UNCHANGED serviceVars) \/ UNCHANGED pipelineVars
    BY <2>3 DEF pipelineVars
  <2>4. CASE ApiDies
    BY <2>4 DEF ApiDies, ServiceNext
  <2> QED
    BY <1>2, <2>1, <2>2, <2>3, <2>4 DEF PipelineNext
<1> QED
  BY <1>1, <1>2, PTL DEF PipelineSpec, ServiceSpec

LEMMA DeliveriesStart ==
    ASSUME PipelineInit
    PROVE  DeliveryTypes /\ QueuedOnce /\ Attended
<1> USE DEF PipelineInit, DeliveryInit
<1>1. NoJob \in JobRecords /\ NoJob.state = "none"
  BY DEF NoJob, JobRecords, JobStates
<1>2. DeliveryTypes
  BY <1>1, NoCallType, IdleType DEF DeliveryTypes, Statuses
<1>3. \A w \in Workers : worker[w].at = "idle"
  BY IdleType
<1>4. \A e \in Events : call[e].at = "none"
  BY NoCallType
<1>5. \A d \in Deliveries : job[d].state = "none" /\ status[d] = "none"
  BY <1>1
<1>6. QueuedOnce
  BY <1>3, <1>4, <1>5, PairType DEF QueuedOnce, Busy
<1>7. Attended
  BY <1>3, <1>5 DEF Attended, Busy
<1> QED
  BY <1>2, <1>6, <1>7

LEMMA DeliveryInvariant == PipelineSpec => [](DeliveryTypes /\ QueuedOnce /\ Attended)
<1>1. PipelineInit => DeliveryTypes /\ QueuedOnce /\ Attended
  BY DeliveriesStart
<1>2. ASSUME DeliveryTypes /\ QueuedOnce /\ Attended, ServiceTypeOK,
             [PipelineNext]_pipelineVars
      PROVE  (DeliveryTypes /\ QueuedOnce /\ Attended)'
  BY <1>2, DeliveryTypesStep, QueuedOnceStep, AttendedStep
<1>3. PipelineSpec => []ServiceTypeOK
  BY PipelineRunsService, TypeCorrect, PTL
<1> QED
  BY <1>1, <1>2, <1>3, PTL DEF PipelineSpec

\* webhookWorker.js: once a delivery is recorded as accepted, no later attempt
\* of its job writes pending or failed over it, for any number of workers, of
\* attempts and of deaths, unless BullMQ gave the job back or an update of it
\* failed.
THEOREM SuccessIsKept == PipelineSpec => SuccessStays
<1>1. ASSUME DeliveryTypes, QueuedOnce, Attended, [PipelineNext]_pipelineVars
      PROVE  [\A d \in Deliveries :
                 /\ status[d] = "success" /\ status'[d] # "success"
                 => \/ status'[d] = "deleted"
                    \/ job[d].stalls > 0 \/ d \in unrecorded]_deliveryVars
  <2> SUFFICES ASSUME NEW d \in Deliveries,
                      status[d] = "success", status'[d] # "success",
                      status'[d] # "deleted", InOrder(d)
               PROVE  FALSE
    BY <1>1 DEF InOrder, DeliveryTypes, JobRecords
  <2>1. \A w \in Workers : Busy(w, d) => worker[w].at = "complete"
    BY <1>1 DEF Attended
  <2>2. job[d].state # "none"
    BY <1>1 DEF Attended
  <2>3. ASSUME NEW e \in Events, CallStep(e) \/ CallRejects(e)
        PROVE  FALSE
    <3>1. PICK s \in Subs : CreateDelivery(e, s)
      BY <2>3 DEF CallStep, CallRejects, FindSubscriptions, UpdatePayload,
                  EnqueueWebhookDelivery, CallFindsDeleted, CutShort
    <3>2. d # <<e, s>>
      BY <1>1, <2>2, <3>1 DEF QueuedOnce, CreateDelivery
    <3> QED
      BY <1>1, <3>1, <3>2 DEF CreateDelivery, DeliveryTypes
  <2>4. ASSUME NEW w \in Workers, WorkerStep(w) \/ WorkerDies(w)
        PROVE  FALSE
    <3>1. UpdateSuccess(w) \/ UpdateFailure(w)
      BY <2>4 DEF WorkerStep, WorkerDies, TakeJob, Fetch, Finish
    <3>2. worker[w].delivery # d
      BY <2>1, <3>1 DEF Busy, UpdateSuccess, UpdateFailure
    <3> QED
      BY <1>1, <3>1, <3>2 DEF UpdateSuccess, UpdateFailure, DeliveryTypes
  <2>5. CASE DeliveryStep
    <3>1. ASSUME NEW s \in Subs, DeleteSubscription(s)
          PROVE  FALSE
      BY <3>1 DEF DeleteSubscription
    <3>2. ASSUME NEW k \in Deliveries, StalledCheck(k) \/ LockLost(k)
          PROVE  FALSE
      BY <3>2 DEF StalledCheck, LockLost
    <3> QED
      BY <2>3, <2>4, <2>5, <3>1, <3>2 DEF DeliveryStep
  <2>6. CASE ~DeliveryStep
    BY <1>1, <2>6 DEF PipelineNext, AnnounceEvent, QueueEventWebhooks, ApiDies, CallsDie,
                      ServiceAlone, pipelineVars, deliveryVars
  <2> QED
    BY <2>5, <2>6
<1> QED
  BY <1>1, DeliveryInvariant, PTL DEF PipelineSpec, SuccessStays
=============================================================================
