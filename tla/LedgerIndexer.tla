---------------------------- MODULE LedgerIndexer ----------------------------
(***************************************************************************)
(* backend/workers/escrowIndexer.js with backend/services/lockManager.js:   *)
(* processes of a cluster that copy the contract's events, ledger by        *)
(* ledger, into PostgreSQL.                                                 *)
(*                                                                         *)
(* Each node keeps its cursor in memory and reads the saved one only when   *)
(* it starts.  setInterval starts a tick whether or not the last one has    *)
(* returned, so a node runs several ticks that share its cursor; what keeps *)
(* ticks apart is a Redis key with a time to live.  A step is the code      *)
(* between two awaits.                                                      *)
(*                                                                         *)
(* One ledger carries one event: events are dispatched in the order of the  *)
(* ledgers, each in its own database write.  The RPC node answers a request *)
(* with one page of events, and the code never asks for a second one.       *)
(* Redis, PostgreSQL and the RPC node may fail a call; each kind of trouble *)
(* is bounded by a constant so that liveness can be stated.                 *)
(***************************************************************************)
EXTENDS Integers, FiniteSets

CONSTANTS
    Nodes,       \* processes that run startIndexer
    Ticks,       \* ticks that can be in flight; a tick's name is its lock token
    NodeOf,      \* the node a tick runs on
    MaxLedger,   \* ledgers the network closes
    BatchSize,   \* BATCH_SIZE
    PageLimit,   \* events the RPC node returns when no limit is asked for
    MaxApplied,  \* applications of one event are counted up to here
    MaxCrashes,  \* node crashes
    MaxFailures, \* failing RPC, database and batch lock calls
    MaxLosses    \* ticks at a time that run on although their lock expired

None == "none"

ASSUME IndexerAssumption ==
    /\ None \notin Ticks
    /\ NodeOf \in [Ticks -> Nodes]
    /\ MaxLedger \in Nat \ {0} /\ BatchSize \in Nat \ {0}
    /\ PageLimit \in Nat \ {0} /\ MaxApplied \in Nat \ {0}
    /\ MaxCrashes \in Nat /\ MaxFailures \in Nat /\ MaxLosses \in Nat

VARIABLES
    chain,       \* latest ledger of the network
    saved,       \* indexerState.lastProcessedLedger
    applied,     \* how often the event of each ledger was written to the database
    up,          \* nodes that run
    cursor,      \* cursor of each node
    pc,          \* the call each tick waits for
    latest,      \* result of getLatestLedger in each tick
    from, to,    \* the batch of each tick
    next,        \* the event each tick dispatches next
    tickLock,    \* owner of escrow_verifying_lock, or None
    batchLocks,  \* the keys indexer:ledger:<from>:<to> and their owners
    passed,      \* history: ledgers of a batch that was skipped or cut off by the page
    lost,        \* history: running ticks whose lock expired under them
    crashes, failures

tickVars == <<latest, from, to, next>>
redisVars == <<tickLock, batchLocks>>
countVars == <<crashes, failures>>
vars == <<chain, saved, applied, up, cursor, pc, tickVars, redisVars,
          passed, lost, countVars>>

----------------------------------------------------------------------------
Ledgers == 1 .. MaxLedger
Steps   == {"idle", "getLatestLedger", "nextBatch", "acquireLock", "getEvents",
            "dispatchEvent", "releaseLock", "saveCursor", "release"}
Cursor(t) == cursor[NodeOf[t]]

\* The tick waits for its call and its node runs.
At(t, step) == NodeOf[t] \in up /\ pc[t] = step
Goto(t, step) == pc' = [pc EXCEPT ![t] = step]

\* The ticks of S end; their locals are gone.
End(S) ==
    LET Clear(f, x) == [t \in Ticks |-> IF t \in S THEN x ELSE f[t]] IN
    /\ pc' = Clear(pc, "idle")
    /\ latest' = Clear(latest, 0)
    /\ from' = Clear(from, 0) /\ to' = Clear(to, 0) /\ next' = Clear(next, 0)

\* A tick that has started and not yet released its lock.
InTick(t) == NodeOf[t] \in up /\ pc[t] # "idle"

Init ==
    /\ chain = 1
    /\ saved = 0
    /\ applied = [l \in Ledgers |-> 0]
    /\ up = Nodes
    /\ cursor = [n \in Nodes |-> 0]
    /\ pc = [t \in Ticks |-> "idle"]
    /\ latest = [t \in Ticks |-> 0]
    /\ from = [t \in Ticks |-> 0] /\ to = [t \in Ticks |-> 0]
    /\ next = [t \in Ticks |-> 0]
    /\ tickLock = None /\ batchLocks = {}
    /\ passed = {} /\ lost = {}
    /\ crashes = 0 /\ failures = 0

----------------------------------------------------------------------------
(* One tick *)

\* LockManager.acquire: SET NX.  A tick that does not get the lock returns.
Acquire(t) ==
    /\ At(t, "idle")
    /\ tickLock = None
    /\ tickLock' = t
    /\ Goto(t, "getLatestLedger")
    /\ UNCHANGED <<chain, saved, applied, up, cursor, tickVars, batchLocks,
                   passed, lost, countVars>>

GetLatestLedger(t) ==
    /\ At(t, "getLatestLedger")
    /\ latest' = [latest EXCEPT ![t] = chain]
    /\ Goto(t, IF Cursor(t) >= chain THEN "release" ELSE "nextBatch")
    /\ UNCHANGED <<chain, saved, applied, up, cursor, from, to, next, redisVars,
                   passed, lost, countVars>>

\* Mutation of NextBatch: a batch is not cut off at the latest ledger.
NextBatchFullSize(t) ==
    /\ At(t, "nextBatch")
    /\ IF Cursor(t) < latest[t]
         THEN /\ from' = [from EXCEPT ![t] = Cursor(t) + 1]
              /\ to' = [to EXCEPT ![t] = Cursor(t) + BatchSize]
              /\ Goto(t, "acquireLock")
         ELSE UNCHANGED <<from, to>> /\ Goto(t, "release")
    /\ UNCHANGED <<chain, saved, applied, up, cursor, latest, next, redisVars,
                   passed, lost, countVars>>

\* Head of the while loop.
NextBatch(t) ==
    /\ At(t, "nextBatch")
    /\ IF Cursor(t) < latest[t]
         THEN /\ from' = [from EXCEPT ![t] = Cursor(t) + 1]
              /\ to' = [to EXCEPT ![t] =
                   IF Cursor(t) + BatchSize < latest[t]
                     THEN Cursor(t) + BatchSize ELSE latest[t]]
              /\ Goto(t, "acquireLock")
         ELSE UNCHANGED <<from, to>> /\ Goto(t, "release")
    /\ UNCHANGED <<chain, saved, applied, up, cursor, latest, next, redisVars,
                   passed, lost, countVars>>

\* acquireLock in processBatch: SET NX on the key of the range.
AcquireLock(t) ==
    /\ At(t, "acquireLock")
    /\ \A k \in batchLocks : <<k.from, k.to>> # <<from[t], to[t]>>
    /\ batchLocks' = batchLocks \cup {[from |-> from[t], to |-> to[t], owner |-> t]}
    /\ Goto(t, "getEvents")
    /\ UNCHANGED <<chain, saved, applied, up, cursor, tickVars, tickLock,
                   passed, lost, countVars>>

\* processBatch returns 0 without the lock: somebody holds it, or every SET
\* failed.  startIndexer does not look at the result and moves its cursor.
SkipBatch(t) ==
    /\ At(t, "acquireLock")
    /\ \/ /\ \E k \in batchLocks : <<k.from, k.to>> = <<from[t], to[t]>>
          /\ UNCHANGED failures
       \/ failures < MaxFailures /\ failures' = failures + 1
    /\ passed' = passed \cup (from[t] .. to[t])
    /\ cursor' = [cursor EXCEPT ![NodeOf[t]] = to[t]]
    /\ Goto(t, "saveCursor")
    /\ UNCHANGED <<chain, saved, applied, up, tickVars, redisVars, lost, crashes>>

\* The last ledger of the one page of events the tick gets for its batch.
PageEnd(t) ==
    IF to[t] < from[t] + PageLimit THEN to[t] ELSE from[t] + PageLimit - 1

\* One getEvents call without a limit or a cursor: what the tick will dispatch
\* is the first page, however many events the batch has.
GetEvents(t) ==
    /\ At(t, "getEvents")
    /\ next' = [next EXCEPT ![t] = from[t]]
    /\ Goto(t, "dispatchEvent")
    /\ UNCHANGED <<chain, saved, applied, up, cursor, latest, from, to, redisVars,
                   passed, lost, countVars>>

\* Handlers such as handleFundsReleased add to what they find in the database.
WriteEvent(l) ==
    applied' = [applied EXCEPT ![l] = IF @ < MaxApplied THEN @ + 1 ELSE @]

\* dispatchEvent writes one event; the loop of processBatch ends after the last
\* event of the page.
DispatchEvent(t) ==
    /\ At(t, "dispatchEvent")
    /\ IF next[t] <= PageEnd(t)
         THEN /\ WriteEvent(next[t])
              /\ next' = [next EXCEPT ![t] = @ + 1]
              /\ UNCHANGED pc
         ELSE UNCHANGED <<applied, next>> /\ Goto(t, "releaseLock")
    /\ UNCHANGED <<chain, saved, up, cursor, latest, from, to, redisVars,
                   passed, lost, countVars>>

\* releaseLock deletes the key only if it still holds the tick's token.  It
\* swallows the error when Redis does not answer.  processBatch returns, and its
\* caller moves the cursor to the end of the batch, not to the end of the page.
ReleaseLock(t) ==
    /\ At(t, "releaseLock")
    /\ \/ /\ batchLocks' = batchLocks \ {[from |-> from[t], to |-> to[t], owner |-> t]}
          /\ UNCHANGED failures
       \/ failures < MaxFailures /\ failures' = failures + 1 /\ UNCHANGED batchLocks
    /\ passed' = passed \cup (PageEnd(t) + 1 .. to[t])
    /\ cursor' = [cursor EXCEPT ![NodeOf[t]] = to[t]]
    /\ Goto(t, "saveCursor")
    /\ UNCHANGED <<chain, saved, applied, up, tickVars, tickLock, lost, crashes>>

\* saveCursor(cursor), whatever value another tick or node has saved meanwhile.
SaveCursor(t) ==
    /\ At(t, "saveCursor")
    /\ saved' = to[t]
    /\ Goto(t, "nextBatch")
    /\ UNCHANGED <<chain, applied, up, cursor, tickVars, redisVars, passed, lost,
                   countVars>>

\* Mutation of Release: the key is deleted without a look at its token.
ReleaseBlindly(t) ==
    /\ At(t, "release")
    /\ tickLock' = None
    /\ End({t})
    /\ lost' = lost \ {t}
    /\ UNCHANGED <<chain, saved, applied, up, cursor, batchLocks, passed, countVars>>

\* lock.release: compare and delete; it too swallows the error of a failing call.
Release(t) ==
    /\ At(t, "release")
    /\ \/ /\ tickLock' = IF tickLock = t THEN None ELSE tickLock
          /\ UNCHANGED failures
       \/ failures < MaxFailures /\ failures' = failures + 1 /\ UNCHANGED tickLock
    /\ End({t})
    /\ lost' = lost \ {t}
    /\ UNCHANGED <<chain, saved, applied, up, cursor, batchLocks, passed, crashes>>

\* Mutation of Fail: processBatch swallows the error, so its caller moves on.
FailSwallowed(t) ==
    /\ At(t, "getEvents") \/ At(t, "dispatchEvent")
    /\ failures < MaxFailures /\ failures' = failures + 1
    /\ Goto(t, "releaseLock")
    /\ UNCHANGED <<chain, saved, applied, up, cursor, tickVars, redisVars, passed,
                   lost, crashes>>

\* An RPC or database call throws; a write may have been committed all the same.
\* Inside processBatch the finally clause releases the batch lock; tick sleeps
\* with its lock and then releases it.
Fail(t) ==
    /\ \E step \in {"getLatestLedger", "getEvents", "dispatchEvent", "saveCursor"} :
          At(t, step)
    /\ failures < MaxFailures /\ failures' = failures + 1
    /\ batchLocks' = IF pc[t] \in {"getEvents", "dispatchEvent"}
         THEN batchLocks \ {[from |-> from[t], to |-> to[t], owner |-> t]}
         ELSE batchLocks
    /\ \/ UNCHANGED <<applied, saved>>
       \/ /\ pc[t] = "dispatchEvent" /\ next[t] <= PageEnd(t)
          /\ WriteEvent(next[t]) /\ UNCHANGED saved
       \/ pc[t] = "saveCursor" /\ saved' = to[t] /\ UNCHANGED applied
    /\ Goto(t, "release")
    /\ UNCHANGED <<chain, up, cursor, tickVars, tickLock, passed,
                   lost, crashes>>

TickStep(t) ==
    \/ Acquire(t) \/ GetLatestLedger(t) \/ NextBatch(t) \/ AcquireLock(t)
    \/ SkipBatch(t) \/ GetEvents(t) \/ DispatchEvent(t) \/ ReleaseLock(t)
    \/ SaveCursor(t) \/ Release(t)

----------------------------------------------------------------------------
(* Nodes, Redis and the network *)

\* A node dies with everything it has in memory; its keys stay in Redis.
Crash(n) ==
    /\ n \in up
    /\ crashes < MaxCrashes /\ crashes' = crashes + 1
    /\ up' = up \ {n}
    /\ End({t \in Ticks : NodeOf[t] = n})
    /\ lost' = {t \in lost : NodeOf[t] # n}
    /\ UNCHANGED <<chain, saved, applied, cursor, redisVars, passed, failures>>

\* startIndexer: loadCursor.
Restart(n) ==
    /\ n \notin up
    /\ up' = up \cup {n}
    /\ cursor' = [cursor EXCEPT ![n] = saved]
    /\ UNCHANGED <<chain, saved, applied, pc, tickVars, redisVars, passed, lost,
                   countVars>>

\* Mutation of TickLockExpires: the key is set without a time to live.
TickLockStays ==
    /\ tickLock # None /\ ~InTick(tickLock)
    /\ tickLock' = tickLock
    /\ UNCHANGED <<chain, saved, applied, up, cursor, pc, tickVars, batchLocks,
                   passed, lost, countVars>>

\* escrow_verifying_lock of a tick that died expires after its 300 s.
TickLockExpires ==
    /\ tickLock # None /\ ~InTick(tickLock)
    /\ tickLock' = None
    /\ UNCHANGED <<chain, saved, applied, up, cursor, pc, tickVars, batchLocks,
                   passed, lost, countVars>>

\* The owner runs but could not renew the lock in time.
TickLockLost ==
    /\ tickLock # None /\ InTick(tickLock)
    /\ Cardinality(lost) < MaxLosses
    /\ lost' = lost \cup {tickLock}
    /\ tickLock' = None
    /\ UNCHANGED <<chain, saved, applied, up, cursor, pc, tickVars, batchLocks,
                   passed, countVars>>

\* Batch locks live LOCK_TTL_MS and are not renewed.
BatchLockExpires ==
    \E k \in batchLocks :
       /\ batchLocks' = batchLocks \ {k}
       /\ UNCHANGED <<chain, saved, applied, up, cursor, pc, tickVars, tickLock,
                      passed, lost, countVars>>

CloseLedger ==
    /\ chain < MaxLedger
    /\ chain' = chain + 1
    /\ UNCHANGED <<saved, applied, up, cursor, pc, tickVars, redisVars, passed,
                   lost, countVars>>

Next ==
    \/ \E t \in Ticks : TickStep(t) \/ Fail(t)
    \/ \E n \in Nodes : Crash(n) \/ Restart(n)
    \/ TickLockExpires \/ TickLockLost \/ BatchLockExpires \/ CloseLedger

\* The event loop runs every tick on, a supervisor restarts a dead process,
\* Redis expires the keys of a dead owner and the network closes ledgers.
\* Crashes, failing calls and lost locks are never forced.
Fairness ==
    /\ \A t \in Ticks : WF_vars(TickStep(t))
    /\ \A n \in Nodes : WF_vars(Restart(n))
    /\ WF_vars(TickLockExpires) /\ WF_vars(CloseLedger)

Spec == Init /\ [][Next]_vars /\ Fairness

----------------------------------------------------------------------------
(* Properties *)

\* Type invariant; no cursor and no batch runs ahead of the network.
TypeOK ==
    /\ chain \in Ledgers /\ saved \in 0 .. chain
    /\ applied \in [Ledgers -> Nat]
    /\ up \subseteq Nodes
    /\ cursor \in [Nodes -> 0 .. chain]
    /\ pc \in [Ticks -> Steps]
    /\ latest \in [Ticks -> 0 .. chain]
    /\ from \in [Ticks -> 0 .. chain] /\ to \in [Ticks -> 0 .. chain]
    /\ next \in [Ticks -> Nat]
    /\ tickLock \in Ticks \cup {None}
    /\ batchLocks \subseteq [from : Nat, to : Nat, owner : Ticks]
    /\ passed \subseteq Nat
    /\ lost \subseteq Ticks
    /\ crashes \in Nat /\ failures \in Nat

\* The event is in the database, or was given up: its batch was skipped for want of
\* a lock, or it was not on the batch's first page.
Covered(l) == l \in passed \/ applied[l] > 0

\* Crash recovery: no interleaving of ticks, crashes, failing calls and expired
\* locks moves a cursor, saved or in memory, past an event that is not in the
\* database, except in the two ways the code itself passes over events on a run
\* without any fault: a skipped batch and a batch of more than one page.  (In
\* those two "Zero data loss" does not hold, see README.md.)
NothingLost ==
    \A l \in Ledgers :
       /\ l <= saved => Covered(l)
       /\ \A n \in up : l <= cursor[n] => Covered(l)

\* A tick that has not lost its lock is alone: nobody else's release, crash or
\* expiry takes the lock from it.
TickExclusion ==
    \A t \in Ticks : InTick(t) /\ t \notin lost => tickLock = t

\* "Locks auto-expire so a crashed node never blocks the cluster": in the end the
\* cluster has got past every ledger, with its event in the database unless it was
\* skipped or not on its page, whoever died with a lock.
EventuallyIndexed ==
    <>(\A l \in Ledgers : Covered(l))
=============================================================================
