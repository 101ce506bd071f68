------------------------- MODULE LedgerIndexer_proofs -------------------------
(***************************************************************************)
(* Theorems about LedgerIndexer, for any number of nodes and of overlapping *)
(* ticks, any batch size and any number of crashes and failing calls.       *)
(***************************************************************************)
EXTENDS LedgerIndexer, TLAPS

Constants ==
    /\ MaxLedger \in Nat \ {0} /\ BatchSize \in Nat \ {0} /\ PageLimit \in Nat \ {0}
    /\ MaxApplied \in Nat \ {0}
    /\ NodeOf \in [Ticks -> Nodes]
    /\ None \notin Ticks

LEMMA ConstantFacts == Constants
  BY IndexerAssumption DEF Constants

----------------------------------------------------------------------------
(* Type correctness *)

LEMMA GotoType ==
    ASSUME pc \in [Ticks -> Steps], NEW t \in Ticks, NEW step \in Steps, Goto(t, step)
    PROVE  pc' \in [Ticks -> Steps]
  BY DEF Goto

LEMMA TypeOKStep ==
    ASSUME TypeOK, [Next]_vars
    PROVE  TypeOK'
<1> USE DEF TypeOK, tickVars, redisVars, countVars
<1>0. \A t \in Ticks :
        /\ NodeOf[t] \in Nodes /\ Cursor(t) \in 0 .. chain /\ latest[t] \in 0 .. chain
        /\ to[t] \in 0 .. chain /\ from[t] \in 0 .. chain /\ next[t] \in Nat
  BY ConstantFacts DEF Constants, Cursor
<1>1. ASSUME NEW t \in Ticks, Acquire(t)
      PROVE  TypeOK'
  <2>1. pc' \in [Ticks -> Steps]
    BY <1>1, GotoType DEF Acquire, Steps
  <2> QED
    BY <1>1, <2>1 DEF Acquire
<1>2. ASSUME NEW t \in Ticks, GetLatestLedger(t)
      PROVE  TypeOK'
  <2>1. pc' \in [Ticks -> Steps]
    BY <1>2, GotoType DEF GetLatestLedger, Steps
  <2>2. latest' \in [Ticks -> 0 .. chain]
    BY <1>2, <1>0 DEF GetLatestLedger, Ledgers
  <2> QED
    BY <1>2, <2>1, <2>2 DEF GetLatestLedger
<1>3. ASSUME NEW t \in Ticks, NextBatch(t)
      PROVE  TypeOK'
  <2>1. pc' \in [Ticks -> Steps]
    BY <1>3, GotoType DEF NextBatch, Steps
  <2>2. BatchSize \in Nat \ {0} /\ chain \in Nat
    BY ConstantFacts DEF Constants, Ledgers
  <2>3. CASE Cursor(t) < latest[t]
    <3>1. Cursor(t) + 1 \in 0 .. chain
      BY <1>0, <2>2, <2>3
    <3>2. (IF Cursor(t) + BatchSize < latest[t]
             THEN Cursor(t) + BatchSize ELSE latest[t]) \in 0 .. chain
      BY <1>0, <2>2, <2>3
    <3>3. from' \in [Ticks -> 0 .. chain] /\ to' \in [Ticks -> 0 .. chain]
      BY <1>3, <2>3, <3>1, <3>2 DEF NextBatch
    <3> QED
      BY <1>3, <2>1, <3>3 DEF NextBatch
  <2>4. CASE ~(Cursor(t) < latest[t])
    BY <1>3, <2>1, <2>4 DEF NextBatch
  <2> QED
    BY <2>3, <2>4
<1>4. ASSUME NEW t \in Ticks, AcquireLock(t)
      PROVE  TypeOK'
  <2>1. pc' \in [Ticks -> Steps]
    BY <1>4, GotoType DEF AcquireLock, Steps
  <2>2. batchLocks' \subseteq [from : Nat, to : Nat, owner : Ticks]
    BY <1>4, <1>0 DEF AcquireLock
  <2> QED
    BY <1>4, <2>1, <2>2 DEF AcquireLock
<1>5. ASSUME NEW t \in Ticks, SkipBatch(t)
      PROVE  TypeOK'
  <2>1. pc' \in [Ticks -> Steps]
    BY <1>5, GotoType DEF SkipBatch, Steps
  <2>2. cursor' \in [Nodes -> 0 .. chain]
    BY <1>5, <1>0 DEF SkipBatch
  <2>3. passed' \subseteq Nat
    <3>1. from[t] \in Nat /\ to[t] \in Nat
      BY <1>0 DEF Ledgers
    <3>2. from[t] .. to[t] \subseteq Nat
      BY <3>1
    <3> QED
      BY <1>5, <3>2 DEF SkipBatch
  <2>4. failures' \in Nat
    BY <1>5, <1>0 DEF SkipBatch
  <2> QED
    BY <1>5, <2>1, <2>2, <2>3, <2>4 DEF SkipBatch
<1>6. ASSUME NEW t \in Ticks, GetEvents(t)
      PROVE  TypeOK'
  <2>1. pc' \in [Ticks -> Steps]
    BY <1>6, GotoType DEF GetEvents, Steps
  <2>2. next' \in [Ticks -> Nat]
    BY <1>6, <1>0 DEF GetEvents
  <2> QED
    BY <1>6, <2>1, <2>2 DEF GetEvents
<1>7. ASSUME NEW t \in Ticks, DispatchEvent(t)
      PROVE  TypeOK'
  <2>1. pc' \in [Ticks -> Steps]
    BY <1>7, GotoType DEF DispatchEvent, Steps
  <2>2. next' \in [Ticks -> Nat]
    BY <1>7, <1>0 DEF DispatchEvent
  <2>3. applied' \in [Ledgers -> Nat]
    BY <1>7, <1>0 DEF DispatchEvent, WriteEvent
  <2> QED
    BY <1>7, <2>1, <2>2, <2>3 DEF DispatchEvent
<1>8. ASSUME NEW t \in Ticks, ReleaseLock(t)
      PROVE  TypeOK'
  <2>1. pc' \in [Ticks -> Steps]
    BY <1>8, GotoType DEF ReleaseLock, Steps
  <2>2. cursor' \in [Nodes -> 0 .. chain]
    BY <1>8, <1>0 DEF ReleaseLock
  <2>3. batchLocks' \subseteq batchLocks /\ failures' \in Nat
    BY <1>8, <1>0 DEF ReleaseLock
  <2>4. passed' \subseteq Nat
    <3>0. to[t] \in Nat /\ from[t] \in Nat /\ PageLimit \in Nat \ {0}
      BY <1>0, ConstantFacts DEF Constants, Ledgers
    <3>1. PageEnd(t) + 1 \in Nat
      BY <3>0 DEF PageEnd
    <3>2. PageEnd(t) + 1 .. to[t] \subseteq Nat
      BY <3>0, <3>1
    <3> QED
      BY <1>8, <3>2 DEF ReleaseLock
  <2> QED
    BY <1>8, <2>1, <2>2, <2>3, <2>4 DEF ReleaseLock
<1>9. ASSUME NEW t \in Ticks, SaveCursor(t)
      PROVE  TypeOK'
  <2>1. pc' \in [Ticks -> Steps]
    BY <1>9, GotoType DEF SaveCursor, Steps
  <2>2. saved' \in 0 .. chain
    BY <1>9, <1>0 DEF SaveCursor
  <2> QED
    BY <1>9, <2>1, <2>2 DEF SaveCursor
<1>10. ASSUME NEW t \in Ticks, Release(t)
      PROVE  TypeOK'
  <2>1. pc' \in [Ticks -> Steps]
    BY <1>10, <1>0 DEF Release, End, Steps
  <2>2. latest' \in [Ticks -> 0 .. chain] /\ next' \in [Ticks -> Nat]
    BY <1>10, <1>0 DEF Release, End, Ledgers
  <2>3. from' \in [Ticks -> 0 .. chain] /\ to' \in [Ticks -> 0 .. chain]
    BY <1>10, <1>0 DEF Release, End, Ledgers
  <2> QED
    BY <1>10, <2>1, <2>2, <2>3 DEF Release
<1>11. ASSUME NEW t \in Ticks, Fail(t)
      PROVE  TypeOK'
  <2>1. pc' \in [Ticks -> Steps]
    BY <1>11, GotoType DEF Fail, Steps
  <2>2. applied' \in [Ledgers -> Nat]
    BY <1>11, <1>0 DEF Fail, WriteEvent
  <2>3. saved' \in 0 .. chain
    BY <1>11, <1>0 DEF Fail
  <2>4. batchLocks' \subseteq batchLocks
    BY <1>11, <1>0 DEF Fail
  <2>5. failures' \in Nat
    BY <1>11, <1>0 DEF Fail
  <2> QED
    BY <1>11, <2>1, <2>2, <2>3, <2>4, <2>5 DEF Fail
<1>12. ASSUME NEW n \in Nodes, Crash(n)
      PROVE  TypeOK'
  <2>1. pc' \in [Ticks -> Steps]
    BY <1>12, <1>0 DEF Crash, End, Steps
  <2>2. latest' \in [Ticks -> 0 .. chain] /\ next' \in [Ticks -> Nat]
    BY <1>12, <1>0 DEF Crash, End, Ledgers
  <2>3. from' \in [Ticks -> 0 .. chain] /\ to' \in [Ticks -> 0 .. chain]
    BY <1>12, <1>0 DEF Crash, End, Ledgers
  <2>4. crashes' \in Nat
    BY <1>12, <1>0 DEF Crash
  <2> QED
    BY <1>12, <2>1, <2>2, <2>3, <2>4 DEF Crash
<1>13. ASSUME NEW n \in Nodes, Restart(n)
      PROVE  TypeOK'
  BY <1>13 DEF Restart
<1>14. CASE TickLockExpires \/ TickLockLost
  BY <1>14 DEF TickLockExpires, TickLockLost
<1>15. CASE BatchLockExpires
  BY <1>15 DEF BatchLockExpires
<1>16. CASE CloseLedger
  <2>1. chain \in Nat /\ chain' = chain + 1 /\ chain' \in Ledgers
    BY <1>16, ConstantFacts DEF CloseLedger, Ledgers, Constants
  <2>2. 0 .. chain \subseteq 0 .. chain'
    BY <2>1
  <2> QED
    BY <1>16, <2>1, <2>2 DEF CloseLedger
<1>17. CASE UNCHANGED vars
  BY <1>17 DEF vars
<1> QED
  BY <1>1, <1>2, <1>3, <1>4, <1>5, <1>6, <1>7, <1>8, <1>9, <1>10, <1>11, <1>12,
     <1>13, <1>14, <1>15, <1>16, <1>17 DEF Next, TickStep

\* Every reachable state is well typed; no cursor runs ahead of the network.
THEOREM TypeCorrect == Spec => []TypeOK
<1>1. Init => TypeOK
  BY ConstantFacts DEF Init, TypeOK, Constants, Ledgers, Steps
<1>2. TypeOK /\ [Next]_vars => TypeOK'
  BY TypeOKStep
<1> QED
  BY <1>1, <1>2, PTL DEF Spec

----------------------------------------------------------------------------
(* No cursor passes an event that is not in the database *)

\* Every ledger up to x is in the database, was skipped or was not on its page.
CoveredUpTo(x) == \A l \in Ledgers : l <= x => Covered(l)

\* How far each tick knows the ledgers to be covered, from what its node's
\* cursor was when it began its batch and from what it has dispatched since.
TickCovered(t) ==
    /\ pc[t] \in {"acquireLock", "getEvents"} => CoveredUpTo(from[t] - 1)
    /\ pc[t] = "dispatchEvent" => CoveredUpTo(next[t] - 1)
    /\ pc[t] = "releaseLock" => CoveredUpTo(PageEnd(t))
    /\ pc[t] = "saveCursor" => CoveredUpTo(to[t])

CoverageInv ==
    /\ CoveredUpTo(saved)
    /\ \A n \in Nodes : CoveredUpTo(cursor[n])
    /\ \A t \in Ticks : TickCovered(t)

\* Nothing is ever taken out of the database, nor out of the history.
LEMMA CoveredMonotone ==
    ASSUME TypeOK, [Next]_vars
    PROVE  \A x : CoveredUpTo(x) => CoveredUpTo(x)'
<1>1. \A l \in Ledgers : applied[l] > 0 => applied'[l] > 0
  <2>1. \A l \in Ledgers : applied[l] \in Nat
    BY DEF TypeOK
  <2>2. MaxApplied \in Nat
    BY ConstantFacts DEF Constants
  <2>3. ASSUME NEW x, WriteEvent(x)
        PROVE  \A l \in Ledgers : applied[l] > 0 => applied'[l] > 0
    <3>1. applied \in [Ledgers -> Nat]
      BY DEF TypeOK
    <3>2. \A l \in Ledgers : applied'[l] \in {applied[l], applied[l] + 1}
      BY <2>3, <3>1 DEF WriteEvent
    <3> QED
      BY <2>1, <3>2
  <2>4. CASE UNCHANGED applied
    BY <2>4
  <2> QED
    BY <2>3, <2>4
       DEF Next, TickStep, Acquire, GetLatestLedger, NextBatch, AcquireLock,
           SkipBatch, GetEvents, DispatchEvent, ReleaseLock, SaveCursor, Release,
           Fail, Crash, Restart, TickLockExpires, TickLockLost, BatchLockExpires,
           CloseLedger, vars
<1>2. passed \subseteq passed'
  BY DEF Next, TickStep, Acquire, GetLatestLedger, NextBatch, AcquireLock,
         SkipBatch, GetEvents, DispatchEvent, ReleaseLock, SaveCursor, Release,
         Fail, Crash, Restart, TickLockExpires, TickLockLost, BatchLockExpires,
         CloseLedger, vars
<1> QED
  BY <1>1, <1>2 DEF CoveredUpTo, Covered

\* A step of one tick leaves what the other ticks know untouched.
LEMMA OtherTicksCovered ==
    ASSUME TypeOK, [Next]_vars, NEW t \in Ticks, TickCovered(t),
           pc'[t] = pc[t], from'[t] = from[t], to'[t] = to[t], next'[t] = next[t]
    PROVE  TickCovered(t)'
  BY CoveredMonotone DEF TickCovered, PageEnd

LEMMA PageEndType ==
    ASSUME TypeOK, NEW t \in Ticks
    PROVE  PageEnd(t) \in Int
  BY ConstantFacts DEF TypeOK, Constants, PageEnd, Ledgers

LEMMA BatchTypes ==
    ASSUME TypeOK, NEW t \in Ticks
    PROVE  /\ from[t] \in Int /\ to[t] \in Int /\ next[t] \in Int
           /\ PageEnd(t) \in Int /\ \A l \in Ledgers : l \in Int
<1>1. PageEnd(t) \in Int
  BY PageEndType
<1>2. /\ from[t] \in Int /\ to[t] \in Int /\ next[t] \in Int
      /\ \A l \in Ledgers : l \in Int
  BY ConstantFacts DEF TypeOK, Constants, Ledgers
<1> QED
  BY <1>1, <1>2

LEMMA IdleTickCovered ==
    ASSUME NEW t \in Ticks, pc'[t] \in {"idle", "getLatestLedger", "nextBatch", "release"}
    PROVE  TickCovered(t)'
  BY DEF TickCovered

\* What the tick that takes the step knows after it.
LEMMA TickStepCovered ==
    ASSUME TypeOK, CoverageInv, [Next]_vars, NEW t \in Ticks, TickStep(t) \/ Fail(t)
    PROVE  TickCovered(t)'
<1> USE DEF TypeOK, Goto, tickVars
<1>1. \A x : CoveredUpTo(x) => CoveredUpTo(x)'
  BY CoveredMonotone
<1>2. TickCovered(t) /\ CoveredUpTo(Cursor(t))
  BY ConstantFacts DEF CoverageInv, Cursor, Constants
<1>3. CASE Acquire(t) \/ GetLatestLedger(t) \/ SaveCursor(t) \/ Fail(t)
  <2>1. pc'[t] \in {"getLatestLedger", "nextBatch", "release"}
    BY <1>3 DEF Acquire, GetLatestLedger, SaveCursor, Fail
  <2> QED
    BY <2>1, IdleTickCovered
<1>4. CASE Release(t)
  <2>1. pc'[t] = "idle"
    BY <1>4 DEF Release, End
  <2> QED
    BY <2>1, IdleTickCovered
<1>5. CASE NextBatch(t)
  <2>1. CASE pc'[t] = "release"
    BY <2>1, IdleTickCovered
  <2>2. CASE pc'[t] = "acquireLock" /\ from'[t] = Cursor(t) + 1
    <3>1. from'[t] - 1 = Cursor(t)
      <4>1. Cursor(t) \in Int
        BY ConstantFacts DEF Constants, Cursor
      <4> QED
        BY <2>2, <4>1
    <3> QED
      BY <1>1, <1>2, <2>2, <3>1 DEF TickCovered
  <2> QED
    BY <1>5, <2>1, <2>2 DEF NextBatch
<1>6. CASE AcquireLock(t)
  <2>1. pc[t] = "acquireLock" /\ pc'[t] = "getEvents" /\ from'[t] = from[t]
    BY <1>6 DEF AcquireLock, At
  <2> QED
    BY <1>1, <1>2, <2>1 DEF TickCovered
<1>7. CASE SkipBatch(t)
  <2>1. pc[t] = "acquireLock" /\ pc'[t] = "saveCursor" /\ to'[t] = to[t]
        /\ passed' = passed \cup (from[t] .. to[t])
    BY <1>7 DEF SkipBatch, At
  <2>2. from[t] \in Int /\ to[t] \in Int /\ \A l \in Ledgers : l \in Int
    BY BatchTypes
  <2>3. ASSUME NEW l \in Ledgers, l <= to[t]
        PROVE  Covered(l)'
    <3>1. CASE l < from[t]
      <4>1. CoveredUpTo(from[t] - 1) /\ l <= from[t] - 1
        BY <1>2, <2>1, <2>2, <3>1 DEF TickCovered
      <4> QED
        BY <1>1, <4>1 DEF CoveredUpTo
    <3>2. CASE l >= from[t]
      BY <2>1, <2>2, <2>3, <3>2 DEF Covered
    <3> QED
      BY <2>2, <3>1, <3>2
  <2> QED
    BY <2>1, <2>3 DEF TickCovered, CoveredUpTo
<1>8. CASE GetEvents(t)
  <2>1. pc[t] = "getEvents" /\ pc'[t] = "dispatchEvent" /\ next'[t] = from[t]
    BY <1>8 DEF GetEvents, At
  <2> QED
    BY <1>1, <1>2, <2>1 DEF TickCovered
<1>9. CASE DispatchEvent(t)
  <2>1. next[t] \in Int /\ PageEnd(t) \in Int /\ \A l \in Ledgers : l \in Int
    BY BatchTypes
  <2>2. CoveredUpTo(next[t] - 1)
    BY <1>2, <1>9 DEF DispatchEvent, At, TickCovered
  <2>3. CASE next[t] <= PageEnd(t)
    <3>1. /\ pc'[t] = "dispatchEvent" /\ next'[t] = next[t] + 1
          /\ WriteEvent(next[t])
      BY <1>9, <2>3 DEF DispatchEvent, At
    <3>2. ASSUME NEW l \in Ledgers, l <= next[t]
          PROVE  Covered(l)'
      <4>1. CASE l <= next[t] - 1
        BY <1>1, <2>2, <4>1 DEF CoveredUpTo
      <4>2. CASE l = next[t]
        <5>1. applied[l] \in Nat /\ MaxApplied \in Nat \ {0}
          BY ConstantFacts DEF Constants
        <5>2. applied'[l] = IF applied[l] < MaxApplied THEN applied[l] + 1 ELSE applied[l]
          BY <3>1, <4>2 DEF WriteEvent
        <5> QED
          BY <5>1, <5>2 DEF Covered
      <4> QED
        BY <2>1, <3>2, <4>1, <4>2
    <3>3. next'[t] - 1 = next[t]
      BY <2>1, <3>1
    <3> QED
      BY <3>1, <3>2, <3>3 DEF TickCovered, CoveredUpTo
  <2>4. CASE ~(next[t] <= PageEnd(t))
    <3>1. pc'[t] = "releaseLock" /\ PageEnd(t)' = PageEnd(t)
      BY <1>9, <2>4 DEF DispatchEvent, PageEnd
    <3>2. CoveredUpTo(PageEnd(t))
      BY <2>1, <2>2, <2>4 DEF CoveredUpTo
    <3> QED
      BY <1>1, <3>1, <3>2 DEF TickCovered
  <2> QED
    BY <2>3, <2>4
<1>10. CASE ReleaseLock(t)
  <2>1. /\ pc[t] = "releaseLock" /\ pc'[t] = "saveCursor" /\ to'[t] = to[t]
        /\ passed' = passed \cup (PageEnd(t) + 1 .. to[t])
    BY <1>10 DEF ReleaseLock, At
  <2>2. PageEnd(t) \in Int /\ to[t] \in Int /\ \A l \in Ledgers : l \in Int
    BY BatchTypes
  <2>3. ASSUME NEW l \in Ledgers, l <= to[t]
        PROVE  Covered(l)'
    <3>1. CASE l <= PageEnd(t)
      BY <1>1, <1>2, <2>1, <3>1 DEF TickCovered, CoveredUpTo
    <3>2. CASE l > PageEnd(t)
      BY <2>1, <2>2, <2>3, <3>2 DEF Covered
    <3> QED
      BY <2>2, <3>1, <3>2
  <2> QED
    BY <2>1, <2>3 DEF TickCovered, CoveredUpTo
<1> QED
  BY <1>3, <1>4, <1>5, <1>6, <1>7, <1>8, <1>9, <1>10 DEF TickStep

LEMMA CoverageInvStep ==
    ASSUME TypeOK, CoverageInv, [Next]_vars
    PROVE  CoverageInv'
<1> USE DEF TypeOK, tickVars
<1>1. \A x : CoveredUpTo(x) => CoveredUpTo(x)'
  BY CoveredMonotone
<1>2. /\ CoveredUpTo(saved) /\ \A n \in Nodes : CoveredUpTo(cursor[n])
      /\ \A t \in Ticks : TickCovered(t)
  BY DEF CoverageInv
<1>3. ASSUME NEW t \in Ticks, TickStep(t) \/ Fail(t)
      PROVE  CoverageInv'
  <2>1. TickCovered(t)'
    BY <1>3, TickStepCovered
  <2>2. ASSUME NEW x \in Ticks, x # t
        PROVE  TickCovered(x)'
    <3>1. /\ pc'[x] = pc[x] /\ from'[x] = from[x]
          /\ to'[x] = to[x] /\ next'[x] = next[x]
      BY <1>3, <2>2
         DEF TickStep, Acquire, GetLatestLedger, NextBatch, AcquireLock,
             SkipBatch, GetEvents, DispatchEvent, ReleaseLock, SaveCursor, Release,
             Fail, Goto, End
    <3> QED
      BY <1>2, <3>1, OtherTicksCovered
  <2>3. CoveredUpTo(saved)'
    <3>1. CASE pc[t] = "saveCursor" /\ saved' = to[t]
      BY <1>1, <1>2, <3>1 DEF TickCovered
    <3>2. CASE saved' = saved
      BY <1>1, <1>2, <3>2
    <3> QED
      BY <1>3, <3>1, <3>2
         DEF TickStep, Acquire, GetLatestLedger, NextBatch, AcquireLock,
             SkipBatch, GetEvents, DispatchEvent, ReleaseLock, SaveCursor, Release,
             Fail, At
  <2>4. \A n \in Nodes : CoveredUpTo(cursor[n])'
    <3>1. CASE /\ pc'[t] = "saveCursor" /\ to'[t] = to[t]
               /\ cursor' = [cursor EXCEPT ![NodeOf[t]] = to[t]]
      <4>1. CoveredUpTo(to[t])'
        BY <2>1, <3>1 DEF TickCovered
      <4> QED
        BY <1>1, <1>2, <3>1, <4>1
    <3>2. CASE cursor' = cursor
      BY <1>1, <1>2, <3>2
    <3> QED
      BY <1>3, <3>1, <3>2
         DEF TickStep, Acquire, GetLatestLedger, NextBatch, AcquireLock,
             SkipBatch, GetEvents, DispatchEvent, ReleaseLock, SaveCursor, Release,
             Fail, Goto
  <2> QED
    BY <2>1, <2>2, <2>3, <2>4 DEF CoverageInv
<1>4. ASSUME NEW n \in Nodes, Crash(n)
      PROVE  CoverageInv'
  <2>1. ASSUME NEW t \in Ticks
        PROVE  TickCovered(t)'
    <3>1. CASE NodeOf[t] = n
      <4>1. pc'[t] = "idle"
        BY <1>4, <3>1 DEF Crash, End
      <4> QED
        BY <4>1, IdleTickCovered
    <3>2. CASE NodeOf[t] # n
      <4>1. /\ pc'[t] = pc[t] /\ from'[t] = from[t]
            /\ to'[t] = to[t] /\ next'[t] = next[t]
        BY <1>4, <3>2 DEF Crash, End
      <4> QED
        BY <1>2, <4>1, OtherTicksCovered
    <3> QED
      BY <3>1, <3>2
  <2> QED
    BY <1>1, <1>2, <1>4, <2>1 DEF Crash, CoverageInv
<1>5. ASSUME NEW n \in Nodes, Restart(n)
      PROVE  CoverageInv'
  <2>1. \A t \in Ticks : TickCovered(t)'
    BY <1>2, <1>5, OtherTicksCovered DEF Restart
  <2> QED
    BY <1>1, <1>2, <1>5, <2>1 DEF Restart, CoverageInv
<1>6. CASE TickLockExpires \/ TickLockLost \/ BatchLockExpires \/ CloseLedger
           \/ UNCHANGED vars
  <2>1. UNCHANGED <<pc, tickVars, saved, cursor>>
    BY <1>6 DEF TickLockExpires, TickLockLost, BatchLockExpires, CloseLedger, vars
  <2>2. \A t \in Ticks : TickCovered(t)'
    BY <1>2, <2>1, OtherTicksCovered
  <2> QED
    BY <1>1, <1>2, <2>1, <2>2 DEF CoverageInv
<1> QED
  BY <1>3, <1>4, <1>5, <1>6 DEF Next

\* No interleaving of ticks, crashes, failing calls and expired locks moves a
\* cursor past an event that was neither written, nor in a skipped batch, nor
\* beyond the page of its batch.
THEOREM NoEventLost == Spec => []NothingLost
<1>1. Init => CoverageInv
  BY DEF Init, CoverageInv, TickCovered, CoveredUpTo, Ledgers
<1>2. TypeOK /\ CoverageInv /\ [Next]_vars => CoverageInv'
  BY CoverageInvStep
<1>3. TypeOK /\ CoverageInv => NothingLost
  BY DEF TypeOK, CoverageInv, CoveredUpTo, NothingLost
<1> QED
  BY <1>1, <1>2, <1>3, TypeCorrect, PTL DEF Spec

----------------------------------------------------------------------------
(* The tick lock *)

\* A tick that did not lose its lock holds it until it releases it.
THEOREM TicksExclude == Spec => []TickExclusion
<1> DEFINE DownIsIdle == \A t \in Ticks : NodeOf[t] \notin up => pc[t] = "idle"
           LockInv    == TickExclusion /\ DownIsIdle
<1> USE DEF TickExclusion, InTick
<1>1. Init => LockInv
  BY ConstantFacts DEF Init, Constants
<1>2. ASSUME TypeOK, LockInv, [Next]_vars
      PROVE  LockInv'
  <2> USE DEF TypeOK
  <2>1. ASSUME NEW t \in Ticks, Acquire(t)
        PROVE  LockInv'
    <3>1. None \notin Ticks
      BY ConstantFacts DEF Constants
    <3>2. /\ tickLock = None /\ tickLock' = t /\ UNCHANGED <<up, lost>>
          /\ NodeOf[t] \in up /\ \A x \in Ticks \ {t} : pc'[x] = pc[x]
      BY <2>1 DEF Acquire, At, Goto
    <3>3. \A x \in Ticks : InTick(x) => x \in lost
      BY <1>2, <3>1, <3>2
    <3>4. \A x \in Ticks : InTick(x)' /\ x \notin lost' => tickLock' = x
      BY <3>2, <3>3
    <3>5. \A x \in Ticks : NodeOf[x] \notin up' => pc'[x] = "idle"
      BY <1>2, <3>2
    <3> QED
      BY <3>4, <3>5
  <2>2. ASSUME NEW t \in Ticks, Release(t)
        PROVE  LockInv'
    BY <1>2, <2>2 DEF Release, At, End
  <2>3. ASSUME NEW t \in Ticks,
               \/ GetLatestLedger(t) \/ NextBatch(t) \/ AcquireLock(t)
               \/ SkipBatch(t) \/ GetEvents(t) \/ DispatchEvent(t) \/ ReleaseLock(t)
               \/ SaveCursor(t) \/ Fail(t)
        PROVE  LockInv'
    <3>1. UNCHANGED <<up, tickLock, lost>>
      BY <2>3
         DEF GetLatestLedger, NextBatch, AcquireLock, SkipBatch, GetEvents,
             DispatchEvent, ReleaseLock, SaveCursor, Fail, redisVars
    <3>2. InTick(t)
      BY <2>3
         DEF GetLatestLedger, NextBatch, AcquireLock, SkipBatch, GetEvents,
             DispatchEvent, ReleaseLock, SaveCursor, Fail, At
    <3>3. ASSUME NEW x \in Ticks \ {t}
          PROVE  pc'[x] = pc[x]
      <4>1. CASE UNCHANGED pc
        BY <4>1
      <4>2. CASE \E step : Goto(t, step)
        BY <4>2 DEF Goto
      <4> QED
        BY <2>3, <4>1, <4>2
           DEF GetLatestLedger, NextBatch, AcquireLock, SkipBatch, GetEvents,
               DispatchEvent, ReleaseLock, SaveCursor, Fail
    <3> QED
      BY <1>2, <3>1, <3>2, <3>3
  <2>4. ASSUME NEW n \in Nodes, Crash(n)
        PROVE  LockInv'
    BY <1>2, <2>4 DEF Crash, End, redisVars
  <2>5. ASSUME NEW n \in Nodes, Restart(n)
        PROVE  LockInv'
    BY <1>2, <2>5 DEF Restart, redisVars
  <2>6. CASE TickLockExpires
    BY <1>2, <2>6 DEF TickLockExpires
  <2>7. CASE TickLockLost
    BY <1>2, <2>7 DEF TickLockLost
  <2>8. CASE BatchLockExpires \/ CloseLedger \/ UNCHANGED vars
    BY <1>2, <2>8 DEF BatchLockExpires, CloseLedger, vars, redisVars
  <2> QED
    BY <1>2, <2>1, <2>2, <2>3, <2>4, <2>5, <2>6, <2>7, <2>8 DEF Next, TickStep
<1>3. LockInv => TickExclusion
  OBVIOUS
<1> QED
  BY <1>1, <1>2, <1>3, TypeCorrect, PTL DEF Spec

=============================================================================
