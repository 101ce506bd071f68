---------------------------- MODULE ApiProcess_proofs ----------------------------
(***************************************************************************)
(* Theorems about the two components that live in the memory of one API     *)
(* process: ApiServer, for any number of requests, of failing cache         *)
(* commands and of starts of the process; and CircuitBreaker, for any       *)
(* callers, thresholds and times.  The components share no state.           *)
(***************************************************************************)
EXTENDS ApiServer, CircuitBreaker, SumTheorems

Steps == {"new", "getCached", "getLock", "setLock", "replay", "conflict", "done"}
         \cup InHandler

\* A request that has not come is not counted.
NewUntracked == \A r \in tracked : pc[r] # "new"

\* The bookkeeping of the requests.
RequestsTyped ==
    /\ pc \in [Requests -> Steps]
    /\ connected \subseteq tracked /\ tracked \subseteq Requests
    /\ inFlight = Cardinality(tracked)
    /\ NewUntracked

----------------------------------------------------------------------------
(* The counter of requests *)

\* Removing a request from the tracked ones and the counter.
LEMMA ReleaseCounts ==
    ASSUME NEW r \in Requests, tracked \subseteq Requests,
           inFlight = Cardinality(tracked), Release(r)
    PROVE  /\ tracked' = tracked \ {r} /\ inFlight' = Cardinality(tracked')
<1>1. IsFiniteSet(tracked)
  BY ServerAssumption, FS_Subset
<1>2. Cardinality(tracked \ {r}) = IF r \in tracked THEN Cardinality(tracked) - 1
                                   ELSE Cardinality(tracked)
  BY <1>1, FS_RemoveElement
<1> QED
  BY <1>2 DEF Release

LEMMA RequestsTypedStep ==
    ASSUME RequestsTyped, [Next]_vars
    PROVE  RequestsTyped'
<1> USE DEF RequestsTyped, NewUntracked, Goto, At
<1>1. ASSUME NEW r \in Requests, Arrive(r)
      PROVE  RequestsTyped'
  <2>1. CASE phase = "running"
    <3>1. /\ pc' = [pc EXCEPT ![r] = "getCached"] /\ r \notin tracked
          /\ connected' = connected \cup {r} /\ tracked' = tracked \cup {r}
          /\ inFlight' = inFlight + 1
      BY <1>1, <2>1 DEF Arrive
    <3>2. IsFiniteSet(tracked)
      BY ServerAssumption, FS_Subset
    <3>3. inFlight' = Cardinality(tracked')
      BY <3>1, <3>2, FS_AddElement
    <3>4. pc' \in [Requests -> Steps] /\ \A q \in tracked' : pc'[q] # "new"
      BY <3>1 DEF Steps
    <3> QED
      BY <3>1, <3>3, <3>4
  <2>2. CASE phase # "running"
    BY <1>1, <2>2 DEF Arrive, Steps
  <2> QED
    BY <2>1, <2>2
<1>2. ASSUME NEW r \in Requests, ClientLeaves(r)
      PROVE  RequestsTyped'
  <2>1. Release(r) /\ connected' = connected \ {r} /\ pc' = pc
    BY <1>2 DEF ClientLeaves
  <2>2. tracked' = tracked \ {r} /\ inFlight' = Cardinality(tracked')
    BY <2>1, ReleaseCounts
  <2> QED
    BY <2>1, <2>2
<1>3. ASSUME NEW r \in Requests, Respond(r)
      PROVE  RequestsTyped'
  <2>1. Release(r) /\ connected' = connected \ {r} /\ pc' = [pc EXCEPT ![r] = "done"]
    BY <1>3 DEF Respond
  <2>2. tracked' = tracked \ {r} /\ inFlight' = Cardinality(tracked')
    BY <2>1, ReleaseCounts
  <2> QED
    BY <2>1, <2>2 DEF Steps
<1>4. ASSUME NEW r \in Requests,
             \/ GetCached(r) \/ GetLock(r) \/ SetLock(r) \/ Handle(r)
             \/ InvalidateLock(r) \/ StoreResponse(r)
      PROVE  RequestsTyped'
  <2>1. UNCHANGED <<connected, tracked, inFlight>>
    BY <1>4 DEF GetCached, GetLock, SetLock, Handle, InvalidateLock, StoreResponse
  <2>2. PICK step \in Steps \ {"new"} : pc' = [pc EXCEPT ![r] = step]
    BY <1>4 DEF GetCached, GetLock, SetLock, Handle, InvalidateLock, StoreResponse,
                Steps, InHandler
  <2> QED
    BY <2>1, <2>2
<1>5. CASE Exit
  <2>1. /\ connected' = {} /\ tracked' = {} /\ inFlight' = 0
        /\ pc' = [r \in Requests |-> IF pc[r] = "new" THEN "new" ELSE "done"]
    BY <1>5 DEF Exit
  <2> QED
    BY <2>1, FS_EmptySet DEF Steps
<1>6. CASE \/ LockExpires \/ Signal \/ ServerClosed \/ Drained \/ CleanupTask \/ Start
           \/ UNCHANGED vars
  BY <1>6 DEF LockExpires, Signal, ServerClosed, Drained, CleanupTask, Start, vars,
              requestVars
<1> QED
  BY <1>1, <1>2, <1>3, <1>4, <1>5, <1>6
     DEF Next, RequestStep, ShutdownStep, ExitGracefully, ForceExit, Crash

LEMMA TypeOKStep ==
    ASSUME TypeOK, NewUntracked, [Next]_vars
    PROVE  TypeOK' /\ NewUntracked'
<1> USE DEF TypeOK, cacheVars, requestVars, shutdownVars, historyVars, Goto, At, Fault
<1>0. MaxFaults \in Nat /\ MaxStarts \in Nat \ {0} /\ faults \in Nat /\ starts \in Nat
  BY ServerAssumption
<1>1. RequestsTyped'
  BY RequestsTypedStep DEF RequestsTyped, Steps
<1>2. ASSUME NEW r \in Requests, Arrive(r)
      PROVE  TypeOK'
  BY <1>1, <1>2 DEF Arrive, RequestsTyped, Steps
<1>3. ASSUME NEW r \in Requests, ClientLeaves(r) \/ Respond(r)
      PROVE  TypeOK'
  BY <1>1, <1>3 DEF ClientLeaves, Respond, RequestsTyped, Steps
<1>4. ASSUME NEW r \in Requests,
             GetCached(r) \/ GetLock(r) \/ SetLock(r) \/ InvalidateLock(r)
      PROVE  TypeOK'
  <2>0. freed' \in BOOLEAN
    BY <1>4, Zenon DEF GetCached, GetLock, SetLock, InvalidateLock
  <2>1. faults' \in {faults, faults + 1} /\ (faults' = faults \/ faults < MaxFaults)
    BY <1>4 DEF GetCached, GetLock, SetLock, InvalidateLock
  <2>2. faults' \in 0 .. MaxFaults
    BY <1>0, <2>1
  <2>3. lock' \in {lock, TRUE, FALSE}
    BY <1>4, Zenon DEF GetCached, GetLock, SetLock, InvalidateLock
  <2>4. UNCHANGED <<tenanted, cached, outcome, phase, cleaned, forceTimer, answered, late,
                    erased, starts>>
    BY <1>4, Zenon DEF GetCached, GetLock, SetLock, InvalidateLock
  <2>5. lock' \in BOOLEAN
    BY <2>3
  <2> QED
    BY <1>0, <1>1, <2>0, <2>2, <2>4, <2>5 DEF RequestsTyped, Steps
<1>5. ASSUME NEW r \in Requests, Handle(r)
      PROVE  TypeOK'
  BY <1>1, <1>5 DEF Handle, RequestsTyped, Steps
<1>6. ASSUME NEW r \in Requests, StoreResponse(r)
      PROVE  TypeOK'
  <2>1. Key(r) \in {"global", "tenant"}
    BY DEF Key
  <2>2. cached' \subseteq {"global", "tenant"}
    BY <1>6, <2>1 DEF StoreResponse
  <2>3. erased' = (erased \/ "global" \in cached \ cached')
    BY <1>6, Zenon DEF StoreResponse
  <2>4. erased' \in BOOLEAN
    BY <2>3, Zenon
  <2>5. faults' \in {faults, faults + 1} /\ (faults' = faults \/ faults < MaxFaults)
    BY <1>6 DEF StoreResponse
  <2>6. faults' \in 0 .. MaxFaults
    BY <1>0, <2>5
  <2>7. UNCHANGED <<tenanted, lock, outcome, phase, cleaned, forceTimer, answered, late,
                    freed, starts>>
    BY <1>6, Zenon DEF StoreResponse
  <2> QED
    BY <1>1, <2>2, <2>4, <2>6, <2>7 DEF RequestsTyped, Steps
<1>7. CASE LockExpires \/ Signal \/ ServerClosed \/ Drained
  BY <1>1, <1>7 DEF LockExpires, Signal, ServerClosed, Drained, RequestsTyped, Steps
<1>8. CASE CleanupTask
  BY <1>1, <1>8 DEF CleanupTask, RequestsTyped, Steps
<1>9. CASE Exit
  BY <1>1, <1>9 DEF Exit, RequestsTyped, Steps
<1>10. CASE Start
  BY <1>0, <1>1, <1>10 DEF Start, RequestsTyped, Steps
<1>11. CASE UNCHANGED vars
  BY <1>1, <1>11 DEF vars, RequestsTyped, Steps
<1>12. TypeOK'
  BY <1>2, <1>3, <1>4, <1>5, <1>6, <1>7, <1>8, <1>9, <1>10, <1>11
     DEF Next, RequestStep, ShutdownStep, ExitGracefully, ForceExit, Crash
<1> QED
  BY <1>1, <1>12 DEF RequestsTyped

\* Type correctness; inFlightRequests counts the requests that are being served,
\* whichever of finish and close comes first for each of them.
THEOREM TypeCorrect == Spec => []TypeOK
<1>1. Init => TypeOK /\ NewUntracked
  <2>1. Cardinality({}) = 0
    BY FS_EmptySet
  <2>2. 0 \in 0 .. MaxFaults /\ 1 \in 1 .. MaxStarts
    BY ServerAssumption
  <2> SUFFICES ASSUME Init
               PROVE  TypeOK /\ NewUntracked
    OBVIOUS
  <2>3. /\ pc \in [Requests -> Steps] /\ outcome \in [Requests -> {"none", "ok", "failed", "refused"}]
        /\ connected \subseteq tracked /\ tracked \subseteq Requests /\ NewUntracked
        /\ late \subseteq Requests /\ inFlight = Cardinality(tracked)
    BY <2>1 DEF Init, Steps, NewUntracked
  <2>4. /\ tenanted \in BOOLEAN /\ cached \subseteq {"global", "tenant"}
        /\ lock \in BOOLEAN /\ forceTimer \in BOOLEAN
        /\ answered \in BOOLEAN /\ erased \in BOOLEAN /\ freed \in BOOLEAN
    BY Zenon DEF Init
  <2>5. /\ phase = "running" /\ cleaned \in 0 .. 4
        /\ faults \in 0 .. MaxFaults /\ starts \in 1 .. MaxStarts
    BY <2>2, SMT DEF Init
  <2> QED
    BY <2>3, <2>4, <2>5 DEF TypeOK, Steps
<1>2. TypeOK /\ NewUntracked /\ [Next]_vars => TypeOK' /\ NewUntracked'
  BY TypeOKStep
<1> QED
  BY <1>1, <1>2, PTL DEF Spec

----------------------------------------------------------------------------
(* The order of a shutdown *)

\* Once the connections are closed nobody can come, and only then is cleaned up.
ClosedBeforeCleanup ==
    /\ phase \in {"polling", "cleanup"} => connected = {}
    /\ cleaned > 0 => phase \in {"cleanup", "exited"}

LEMMA ClosedStep ==
    ASSUME TypeOK, ClosedBeforeCleanup, [Next]_vars
    PROVE  ClosedBeforeCleanup'
<1> USE DEF ClosedBeforeCleanup, requestVars, shutdownVars
<1>1. ASSUME NEW r \in Requests, Arrive(r)
      PROVE  ClosedBeforeCleanup'
  BY <1>1 DEF Arrive
<1>2. ASSUME NEW r \in Requests, ClientLeaves(r) \/ Respond(r)
      PROVE  ClosedBeforeCleanup'
  BY <1>2 DEF ClientLeaves, Respond
<1>3. ASSUME NEW r \in Requests,
             \/ GetCached(r) \/ GetLock(r) \/ SetLock(r) \/ Handle(r)
             \/ InvalidateLock(r) \/ StoreResponse(r)
      PROVE  ClosedBeforeCleanup'
  BY <1>3 DEF GetCached, GetLock, SetLock, Handle, InvalidateLock, StoreResponse
<1>4. CASE LockExpires \/ Signal \/ ServerClosed \/ Drained
  BY <1>4 DEF LockExpires, Signal, ServerClosed, Drained
<1>5. CASE CleanupTask \/ Start
  BY <1>5 DEF CleanupTask, Start
<1>6. CASE Exit
  BY <1>6 DEF Exit
<1>7. CASE UNCHANGED vars
  BY <1>7 DEF vars
<1> QED
  BY <1>1, <1>2, <1>3, <1>4, <1>5, <1>6, <1>7
     DEF Next, RequestStep, ShutdownStep, ExitGracefully, ForceExit, Crash

\* The database is disconnected only when nobody waits for an answer.
THEOREM DrainedBeforeDisconnect == Spec => []DisconnectAfterDrain
<1>1. Init => ClosedBeforeCleanup
  BY DEF Init, ClosedBeforeCleanup
<1>2. TypeOK /\ ClosedBeforeCleanup => DisconnectAfterDrain
  BY DEF TypeOK, ClosedBeforeCleanup, DisconnectAfterDrain, Disconnected, Up
<1> QED
  BY <1>1, <1>2, ClosedStep, TypeCorrect, PTL DEF Spec

----------------------------------------------------------------------------
(* Idempotency *)

Undisturbed == ~tenanted /\ faults = 0 /\ ~erased
Shielded    == tenanted /\ faults = 0 /\ ~freed

\* Only a request in its handler has an outcome, and late requests come late.
OutcomesTyped ==
    /\ \A r \in Requests : pc[r] \notin InHandler => outcome[r] = "none"
    /\ late # {} => answered

\* Outside a tenant: a handler that has succeeded has its answer stored before
\* it sends it; so whoever comes after the answer finds it.
ReplayReady ==
    Undisturbed =>
       /\ \A r \in Requests : pc[r] = "send" /\ outcome[r] = "ok" => "global" \in cached
       /\ answered => "global" \in cached
       /\ \A r \in late : pc[r] \in {"getCached", "replay", "done"}

\* Behind tenantMiddleware: the lock that a handler was started under stays, so
\* whoever comes after its answer finds that.
LockReady ==
    Shielded =>
       /\ \A r \in Requests : pc[r] \in InHandler => lock
       /\ answered => lock
       /\ \A r \in late : pc[r] \in {"getCached", "getLock", "replay", "conflict", "done"}

IdempotencyInv == OutcomesTyped /\ ReplayReady /\ LockReady

LEMMA IdempotencyStep ==
    ASSUME TypeOK, NewUntracked, IdempotencyInv, [Next]_vars
    PROVE  IdempotencyInv'
<1> USE DEF IdempotencyInv, OutcomesTyped, ReplayReady, LockReady, Undisturbed, Shielded,
            Goto, At, InHandler
<1>0. /\ faults \in Nat /\ faults + 1 # 0 /\ late \subseteq Requests
      /\ pc \in [Requests -> Steps]
      /\ outcome \in [Requests -> {"none", "ok", "failed", "refused"}]
  BY ServerAssumption DEF TypeOK, Steps
<1>1. ASSUME NEW r \in Requests, Arrive(r)
      PROVE  IdempotencyInv'
  <2>1. /\ UNCHANGED <<tenanted, cached, lock, outcome, answered, erased, freed, faults>>
        /\ pc[r] = "new"
    BY <1>1 DEF Arrive, cacheVars
  <2>2. PICK step \in {"getCached", "done"} : pc' = [pc EXCEPT ![r] = step]
    BY <1>1 DEF Arrive
  <2>3. late' = IF answered THEN late \cup {r} ELSE late
    BY <1>1 DEF Arrive
  <2> QED
    BY <1>0, <2>1, <2>2, <2>3
<1>2. ASSUME NEW r \in Requests, ClientLeaves(r)
      PROVE  IdempotencyInv'
  BY <1>2 DEF ClientLeaves, cacheVars, historyVars
<1>3. ASSUME NEW r \in Requests, GetCached(r)
      PROVE  IdempotencyInv'
  <2>1. /\ UNCHANGED <<tenanted, cached, lock, outcome, answered, late, erased, freed>>
        /\ pc[r] = "getCached"
    BY <1>3 DEF GetCached, cacheVars, historyVars
  <2>2. \/ pc' = [pc EXCEPT ![r] = "replay"] /\ faults' = faults
        \/ pc' = [pc EXCEPT ![r] = "getLock"] /\ faults' = faults /\ "global" \notin cached
        \/ pc' = [pc EXCEPT ![r] = "getLock"] /\ faults' = faults + 1
    BY <1>3 DEF GetCached, Fault
  <2>3. OutcomesTyped' /\ LockReady'
    BY <1>0, <2>1, <2>2
  <2>4. ReplayReady'
    BY <1>0, <2>1, <2>2
  <2> QED
    BY <2>3, <2>4
<1>4. ASSUME NEW r \in Requests, GetLock(r)
      PROVE  IdempotencyInv'
  <2>1. /\ UNCHANGED <<tenanted, cached, lock, outcome, answered, late, erased, freed>>
        /\ pc[r] = "getLock"
    BY <1>4 DEF GetLock, cacheVars, historyVars
  <2>2. \/ pc' = [pc EXCEPT ![r] = "conflict"] /\ faults' = faults
        \/ pc' = [pc EXCEPT ![r] = "setLock"] /\ faults' = faults /\ ~lock
        \/ pc' = [pc EXCEPT ![r] = "setLock"] /\ faults' = faults + 1
    BY <1>4, Zenon DEF GetLock, Fault
  <2>3. OutcomesTyped' /\ ReplayReady'
    BY <1>0, <2>1, <2>2
  <2>4. LockReady'
    BY <1>0, <2>1, <2>2
  <2> QED
    BY <2>3, <2>4
<1>5. ASSUME NEW r \in Requests, SetLock(r)
      PROVE  IdempotencyInv'
  <2>1. /\ UNCHANGED <<tenanted, cached, outcome, answered, late, erased, freed>>
        /\ pc[r] = "setLock" /\ pc' = [pc EXCEPT ![r] = "handler"]
    BY <1>5 DEF SetLock, historyVars
  <2>2. \/ lock' /\ faults' = faults
        \/ faults' = faults + 1
    BY <1>5, Zenon DEF SetLock, Fault
  <2> QED
    BY <1>0, <2>1, <2>2
<1>6. ASSUME NEW r \in Requests, Handle(r)
      PROVE  IdempotencyInv'
  <2>1. /\ UNCHANGED <<tenanted, cached, lock, answered, late, erased, freed, faults>>
        /\ pc[r] = "handler" /\ pc' = [pc EXCEPT ![r] = "invalidateLock"]
    BY <1>6 DEF Handle, cacheVars, historyVars
  <2>2. PICK o \in {"ok", "failed", "refused"} : outcome' = [outcome EXCEPT ![r] = o]
    BY <1>6 DEF Handle
  <2> QED
    BY <1>0, <2>1, <2>2
<1>7. ASSUME NEW r \in Requests, InvalidateLock(r)
      PROVE  IdempotencyInv'
  <2>1. /\ UNCHANGED <<tenanted, cached, outcome, answered, late, erased>>
        /\ pc[r] = "invalidateLock" /\ pc' = [pc EXCEPT ![r] = "store"]
    BY <1>7 DEF InvalidateLock
  <2>2. faults' = faults \/ faults' = faults + 1
    BY <1>7 DEF InvalidateLock, Fault
  <2>3. Shielded' => Shielded /\ (lock => lock')
    <3>1. tenanted /\ Key(r) = "global" => outcome[r] = "refused"
      BY DEF Key
    <3>2. freed' = (freed \/ (lock /\ ~lock' /\ outcome[r] = "refused"))
      BY <1>7, Zenon DEF InvalidateLock
    <3>3. \/ Key(r) = "global" /\ faults' = faults
          \/ lock' = lock /\ faults' = faults
          \/ lock' = lock /\ faults' = faults + 1
      BY <1>7, Zenon DEF InvalidateLock, Fault
    <3> QED
      BY <1>0, <2>1, <3>1, <3>2, <3>3, Zenon
  <2> QED
    BY <1>0, <2>1, <2>2, <2>3
<1>8. ASSUME NEW r \in Requests, StoreResponse(r)
      PROVE  IdempotencyInv'
  <2>1. /\ UNCHANGED <<tenanted, lock, outcome, answered, late, freed>>
        /\ pc[r] = "store" /\ pc' = [pc EXCEPT ![r] = "send"]
    BY <1>8 DEF StoreResponse
  <2>2. \/ /\ cached' = IF outcome[r] = "ok" THEN cached \cup {Key(r)}
                                             ELSE cached \ {Key(r)}
           /\ faults' = faults
        \/ cached' = cached /\ faults' = faults + 1
    BY <1>8, Zenon DEF StoreResponse, Fault
  <2>3. erased' = (erased \/ "global" \in cached \ cached')
    BY <1>8, Zenon DEF StoreResponse
  <2>4. Undisturbed' => /\ Undisturbed
                        /\ outcome[r] = "ok" => "global" \in cached'
                        /\ "global" \in cached => "global" \in cached'
    <3>1. ~tenanted => Key(r) = "global"
      BY DEF Key
    <3>2. ASSUME Undisturbed'
          PROVE  /\ ~tenanted /\ faults = 0 /\ faults' = faults
                 /\ ~erased /\ "global" \notin cached \ cached'
      BY <1>0, <2>1, <2>2, <2>3, <3>2, Zenon
    <3> QED
      BY <2>2, <3>1, <3>2
  <2>5. Shielded' => Shielded
    BY <1>0, <2>1, <2>2, Zenon
  <2> QED
    BY <1>0, <2>1, <2>4, <2>5
<1>9. ASSUME NEW r \in Requests, Respond(r)
      PROVE  IdempotencyInv'
  <2>1. /\ UNCHANGED <<tenanted, cached, lock, late, erased, freed, faults>>
        /\ pc[r] \in {"replay", "conflict", "send"}
        /\ pc' = [pc EXCEPT ![r] = "done"] /\ outcome' = [outcome EXCEPT ![r] = "none"]
    BY <1>9 DEF Respond, cacheVars
  <2>2. answered' = (answered \/ (r \in connected /\ outcome[r] = "ok"))
    BY <1>9, Zenon DEF Respond
  <2>3. answered' => answered \/ outcome[r] = "ok"
    BY <2>2, Zenon
  <2>4. answered => answered'
    BY <2>2, Zenon
  <2> QED
    BY <1>0, <2>1, <2>3, <2>4
<1>10. CASE Exit
  <2>1. /\ UNCHANGED <<tenanted, cached, lock, answered, late, erased, freed, faults>>
        /\ pc' = [r \in Requests |-> IF pc[r] = "new" THEN "new" ELSE "done"]
        /\ outcome' = [r \in Requests |-> "none"]
    BY <1>10 DEF Exit, cacheVars, historyVars
  <2> QED
    BY <1>0, <2>1
<1>11. CASE LockExpires
  <2>1. UNCHANGED <<tenanted, cached, pc, outcome, answered, late, erased, faults>>
    BY <1>11 DEF LockExpires, requestVars
  <2>2. freed' = (freed \/ tenanted)
    BY <1>11, Zenon DEF LockExpires
  <2>3. ~Shielded'
    BY <2>1, <2>2, Zenon
  <2> QED
    BY <2>1, <2>3
<1>12. CASE \/ Signal \/ ServerClosed \/ Drained \/ CleanupTask \/ Start
            \/ UNCHANGED vars
  BY <1>12 DEF Signal, ServerClosed, Drained, CleanupTask, Start, vars,
               cacheVars, requestVars, historyVars
<1> QED
  BY <1>1, <1>2, <1>3, <1>4, <1>5, <1>6, <1>7, <1>8, <1>9, <1>10, <1>11, <1>12
     DEF Next, RequestStep, ShutdownStep, ExitGracefully, ForceExit, Crash

LEMMA IdempotencyInvariant == Spec => []IdempotencyInv
<1>1. Init => NewUntracked /\ IdempotencyInv
  BY DEF Init, NewUntracked, IdempotencyInv, OutcomesTyped, ReplayReady, LockReady,
         Undisturbed, Shielded, InHandler
<1>2. TypeOK /\ NewUntracked /\ IdempotencyInv /\ [Next]_vars
      => NewUntracked' /\ IdempotencyInv'
  BY IdempotencyStep, TypeOKStep
<1> QED
  BY <1>1, <1>2, TypeCorrect, PTL DEF Spec

\* Outside a tenant a retry that comes after the 2xx answer is answered from the
\* cache, across restarts, expired locks and overlapping duplicates.
THEOREM AnswersReplayed == Spec => []ReplayedOutsideTenants
<1>1. IdempotencyInv => ReplayedOutsideTenants
  BY DEF IdempotencyInv, ReplayReady, Undisturbed, ReplayedOutsideTenants, InHandler
<1> QED
  BY <1>1, IdempotencyInvariant, PTL

\* Behind tenantMiddleware nothing but the lock that was left behind keeps a retry
\* from running the handler again; it does so until it expires or is taken away.
THEOREM RetriesShielded == Spec => []LockShieldsRetries
<1>1. IdempotencyInv => LockShieldsRetries
  BY DEF IdempotencyInv, LockReady, Shielded, LockShieldsRetries, InHandler
<1> QED
  BY <1>1, IdempotencyInvariant, PTL

----------------------------------------------------------------------------
(* The circuit breaker *)

\* The count of probes is of results since the last failure, and only a
\* half-open breaker counts: a failure of an older call that ends between two
\* probes opens the breaker and so resets the count.
CountWithinStreak ==
    /\ state \in {"CLOSED", "OPEN", "HALF_OPEN"}
    /\ successCount \in Nat /\ streak \in 0 .. SuccessThreshold
    /\ successCount <= streak
    /\ state # "HALF_OPEN" => successCount = 0

\* Nobody but a caller of retryDatabaseOperation sleeps.
OnlyRetriersSleep ==
    /\ doing \in [Callers -> {"idle", "running", "sleeping"}]
    /\ \A c \in Callers : doing[c] = "sleeping" => c \in RetryCallers

LEMMA ThresholdFact == SuccessThreshold \in Nat \ {0}
  BY BreakerAssumption

----------------------------------------------------------------------------
(* The breaker: what a step does to the breaker *)

LEMMA ExecuteCounts ==
    ASSUME CountWithinStreak, NEW c \in Callers, NEW n, Execute(c, n)
    PROVE  /\ CountWithinStreak'
           /\ state' = IF state = "OPEN" THEN "HALF_OPEN" ELSE state
<1>1. CASE state = "OPEN"
  BY <1>1, ThresholdFact DEF CountWithinStreak, Execute, TransitionTo
<1>2. CASE state # "OPEN"
  BY <1>2, ThresholdFact DEF CountWithinStreak, Execute
<1> QED
  BY <1>1, <1>2

LEMMA OnSuccessCounts ==
    ASSUME CountWithinStreak, OnSuccess
    PROVE  /\ CountWithinStreak'
           /\ state' # state => /\ state = "HALF_OPEN" /\ state' = "CLOSED"
                                /\ streak' >= SuccessThreshold
<1> USE ThresholdFact DEF CountWithinStreak
<1>1. streak' = IF streak < SuccessThreshold THEN streak + 1 ELSE streak
  BY DEF OnSuccess
<1>2. CASE state = "HALF_OPEN" /\ successCount + 1 >= SuccessThreshold
  <2>1. state' = "CLOSED" /\ successCount' = 0
    BY <1>2 DEF OnSuccess, TransitionTo
  <2> QED
    BY <1>1, <1>2, <2>1
<1>3. CASE state = "HALF_OPEN" /\ ~(successCount + 1 >= SuccessThreshold)
  <2>1. state' = state /\ successCount' = successCount + 1
    BY <1>3 DEF OnSuccess
  <2> QED
    BY <1>1, <1>3, <2>1
<1>4. CASE state # "HALF_OPEN"
  <2>1. state' = state /\ successCount' = successCount
    BY <1>4 DEF OnSuccess
  <2> QED
    BY <1>1, <1>4, <2>1
<1> QED
  BY <1>2, <1>3, <1>4

LEMMA OnFailureCounts ==
    ASSUME CountWithinStreak, OnFailure
    PROVE  CountWithinStreak' /\ state' \in {state, "OPEN"}
<1>1. CASE \/ state = "HALF_OPEN"
           \/ state = "CLOSED" /\ Recent(failures') >= FailureThreshold
  BY <1>1, ThresholdFact DEF CountWithinStreak, OnFailure, TransitionTo
<1>2. CASE ~(\/ state = "HALF_OPEN"
             \/ state = "CLOSED" /\ Recent(failures') >= FailureThreshold)
  BY <1>2, ThresholdFact DEF CountWithinStreak, OnFailure
<1> QED
  BY <1>1, <1>2

LEMMA CountStep ==
    ASSUME CountWithinStreak, [BreakerNext]_circuitVars
    PROVE  /\ CountWithinStreak'
           /\ state = "HALF_OPEN" /\ state' = "CLOSED" => streak' >= SuccessThreshold
<1>1. ASSUME NEW c \in Callers, RetryDatabaseOperation(c) \/ CallDirectly(c)
      PROVE  CountWithinStreak' /\ ~(state = "HALF_OPEN" /\ state' = "CLOSED")
  BY <1>1, ExecuteCounts DEF RetryDatabaseOperation, CallDirectly
<1>2. ASSUME NEW c \in Callers, Succeed(c)
      PROVE  /\ CountWithinStreak'
             /\ state = "HALF_OPEN" /\ state' = "CLOSED" => streak' >= SuccessThreshold
  BY <1>2, OnSuccessCounts DEF Succeed
<1>3. ASSUME NEW c \in Callers, Fail(c)
      PROVE  CountWithinStreak' /\ ~(state = "HALF_OPEN" /\ state' = "CLOSED")
  BY <1>3, OnFailureCounts DEF Fail
<1>4. ASSUME NEW c \in Callers, Retry(c)
      PROVE  CountWithinStreak' /\ ~(state = "HALF_OPEN" /\ state' = "CLOSED")
  <2>1. CASE Execute(c, attempt[c] + 1)
    BY <2>1, ExecuteCounts
  <2>2. CASE UNCHANGED <<breakerVars, healthy, streak>>
    BY <2>2 DEF breakerVars, CountWithinStreak
  <2> QED
    BY <1>4, <2>1, <2>2 DEF Retry
<1>5. CASE Tick \/ HealthChanges \/ UNCHANGED circuitVars
  BY <1>5 DEF Tick, HealthChanges, breakerVars, circuitVars, CountWithinStreak
<1> QED
  BY <1>1, <1>2, <1>3, <1>4, <1>5 DEF BreakerNext, CallStep

\* "after successThreshold consecutive successes": the breaker closes only when
\* the last successThreshold results were successes, whoever's they are.
THEOREM ClosesOnlyOnStreak == BreakerSpec => ClosesOnStreak
<1>1. BreakerInit => CountWithinStreak
  BY ThresholdFact DEF BreakerInit, CountWithinStreak
<1>2. CountWithinStreak /\ [BreakerNext]_circuitVars => CountWithinStreak'
  BY CountStep
<1>3. CountWithinStreak /\ [BreakerNext]_circuitVars
      => [state = "HALF_OPEN" /\ state' = "CLOSED" => streak' >= SuccessThreshold]_circuitVars
  BY CountStep
<1> QED
  BY <1>1, <1>2, <1>3, PTL DEF BreakerSpec, ClosesOnStreak

----------------------------------------------------------------------------
(* Who takes the breaker out of OPEN *)

LEMMA SleepStep ==
    ASSUME OnlyRetriersSleep, [BreakerNext]_circuitVars
    PROVE  OnlyRetriersSleep'
<1> USE DEF OnlyRetriersSleep
<1>1. ASSUME NEW c \in Callers, RetryDatabaseOperation(c) \/ CallDirectly(c)
      PROVE  OnlyRetriersSleep'
  BY <1>1 DEF RetryDatabaseOperation, CallDirectly, Execute
<1>2. ASSUME NEW c \in Callers, Succeed(c)
      PROVE  OnlyRetriersSleep'
  BY <1>2 DEF Succeed, Leave
<1>3. ASSUME NEW c \in Callers, Fail(c)
      PROVE  OnlyRetriersSleep'
  BY <1>3 DEF Fail, Leave
<1>4. ASSUME NEW c \in Callers, Retry(c)
      PROVE  OnlyRetriersSleep'
  BY <1>4 DEF Retry, Execute, Leave
<1>5. CASE Tick \/ HealthChanges \/ UNCHANGED circuitVars
  BY <1>5 DEF Tick, HealthChanges, callerVars, circuitVars
<1> QED
  BY <1>1, <1>2, <1>3, <1>4, <1>5 DEF BreakerNext, CallStep

LEMMA ProbeStep ==
    ASSUME OnlyRetriersSleep, CountWithinStreak, [BreakerNext]_circuitVars,
           state = "OPEN", \A c \in RetryCallers : doing[c] = "idle"
    PROVE  \/ state' = "OPEN"
           \/ \E c \in DirectCallers : doing[c] = "idle" /\ doing'[c] = "running"
<1>1. ASSUME NEW c \in Callers, RetryDatabaseOperation(c)
      PROVE  FALSE
  BY <1>1 DEF RetryDatabaseOperation
<1>2. ASSUME NEW c \in Callers, CallDirectly(c)
      PROVE  c \in DirectCallers /\ doing[c] = "idle" /\ doing'[c] = "running"
  BY <1>2 DEF CallDirectly, Execute, OnlyRetriersSleep
<1>3. ASSUME NEW c \in Callers, Succeed(c)
      PROVE  state' = "OPEN"
  BY <1>3, OnSuccessCounts DEF Succeed
<1>4. ASSUME NEW c \in Callers, Fail(c)
      PROVE  state' = "OPEN"
  BY <1>4, OnFailureCounts DEF Fail
<1>5. ASSUME NEW c \in Callers, Retry(c)
      PROVE  FALSE
  BY <1>5 DEF Retry, OnlyRetriersSleep
<1>6. CASE Tick \/ HealthChanges \/ UNCHANGED circuitVars
  BY <1>6 DEF Tick, HealthChanges, breakerVars, circuitVars
<1> QED
  BY <1>1, <1>2, <1>3, <1>4, <1>5, <1>6 DEF BreakerNext, CallStep

\* retryDatabaseOperation alone never takes a breaker out of OPEN.
THEOREM RetriersNeverProbe == BreakerSpec => OnlyDirectCallsProbe
<1>1. BreakerInit => OnlyRetriersSleep /\ CountWithinStreak
  BY ThresholdFact DEF BreakerInit, OnlyRetriersSleep, CountWithinStreak
<1>2. OnlyRetriersSleep /\ CountWithinStreak /\ [BreakerNext]_circuitVars
      => OnlyRetriersSleep' /\ CountWithinStreak'
  BY SleepStep, CountStep
<1>3. OnlyRetriersSleep /\ CountWithinStreak /\ [BreakerNext]_circuitVars
      => [/\ state = "OPEN" /\ \A c \in RetryCallers : doing[c] = "idle"
          => \/ state' = "OPEN"
             \/ \E c \in DirectCallers : doing[c] = "idle" /\ doing'[c] = "running"]_circuitVars
  BY ProbeStep
<1> QED
  BY <1>1, <1>2, <1>3, PTL DEF BreakerSpec, OnlyDirectCallsProbe

----------------------------------------------------------------------------
(* The window of failures *)

FailuresTyped == failures \in [Ages -> Nat]

LEMMA WindowFact ==
    /\ WindowSize - 1 \in Nat /\ Ages = 0 .. (WindowSize - 1) /\ 0 \in Ages
    /\ IsFiniteSet(Ages) /\ FailureThreshold \in Nat \ {0}
  <1>1. WindowSize \in Nat \ {0} /\ FailureThreshold \in Nat \ {0}
    BY BreakerAssumption
  <1>2. IsFiniteSet(0 .. (WindowSize - 1))
    BY <1>1, FS_Interval
  <1> QED  BY <1>1, <1>2 DEF Ages

LEMMA RecentIsSum ==
    ASSUME NEW f \in [Ages -> Nat]
    PROVE  Recent(f) = Sum(f, Ages) /\ Recent(f) \in Nat
  <1>1. Recent(f) = Sum(f, Ages)
    BY DEF Recent, FoldFunction, Sum
  <1>2. Sum(f, Ages) \in Nat
    BY WindowFact, SumType
  <1> QED  BY <1>1, <1>2

LEMMA NothingRecent == NoFailures \in [Ages -> Nat] /\ Recent(NoFailures) = 0
  <1>1. NoFailures \in [Ages -> Nat] /\ \A a \in Ages : NoFailures[a] = 0
    BY DEF NoFailures
  <1>2. Sum(NoFailures, Ages) = 0 * Cardinality(Ages)
    BY <1>1, WindowFact, SumConstant
  <1>3. Cardinality(Ages) \in Nat
    BY WindowFact, FS_CardinalityType
  <1>4. 0 * Cardinality(Ages) = 0
    BY <1>3
  <1> QED  BY <1>1, <1>2, <1>4, RecentIsSum

\* Time passing forgets the oldest failures and keeps the others.
LEMMA TickForgets ==
    ASSUME FailuresTyped, Tick
    PROVE  FailuresTyped' /\ Recent(failures') <= Recent(failures)
  <1>1. failures' = [a \in Ages |-> IF a = 0 THEN 0 ELSE failures[a - 1]]
    BY DEF Tick
  <1>2. \A a \in Ages : a # 0 => a - 1 \in Ages /\ a \in 1 .. (WindowSize - 1)
    BY WindowFact
  <1>3. failures' \in [Ages -> Nat]
    BY <1>1, <1>2 DEF FailuresTyped
  <1> DEFINE n == WindowSize - 1
  <1>4. Ages = 0 .. n /\ n \in Nat /\ n \in Ages
    BY WindowFact
  <1>5. /\ \A i \in 0 .. n : failures[i] \in Int
        /\ failures'[0] = 0 /\ \A i \in 1 .. n : failures'[i] = failures[i - 1]
    <2>1. \A i \in 1 .. n : i \in Ages /\ i # 0
      BY <1>4
    <2> QED  BY <1>1, <1>4, <2>1, WindowFact, SMTT(20) DEF FailuresTyped
  <1> HIDE DEF n
  <1>6. Sum(failures', 0 .. n) = Sum(failures, 0 .. n) - failures[n]
    BY <1>4, <1>5, SumShifted
  <1>7. Sum(failures', Ages) = Sum(failures, Ages) - failures[n] /\ failures[n] \in Nat
    BY <1>4, <1>6 DEF FailuresTyped
  <1>8. /\ Recent(failures) = Sum(failures, Ages) /\ Recent(failures) \in Nat
        /\ Recent(failures') = Sum(failures', Ages) /\ Recent(failures') \in Nat
    BY <1>3, RecentIsSum DEF FailuresTyped
  <1> QED  BY <1>3, <1>7, <1>8 DEF FailuresTyped

LEMMA WindowStep ==
    ASSUME FailuresTyped, ClosedBelowThreshold, [BreakerNext]_circuitVars
    PROVE  FailuresTyped' /\ ClosedBelowThreshold'
  <1>1. ASSUME UNCHANGED failures, state' = "CLOSED" => state = "CLOSED"
        PROVE  FailuresTyped' /\ ClosedBelowThreshold'
    BY <1>1 DEF FailuresTyped, ClosedBelowThreshold
  <1>2. ASSUME NEW c, NEW n, Execute(c, n)
        PROVE  FailuresTyped' /\ ClosedBelowThreshold'
    <2>1. UNCHANGED failures /\ (state' = "CLOSED" => state = "CLOSED")
      BY <1>2 DEF Execute, TransitionTo
    <2> QED  BY <1>1, <2>1
  <1>3. ASSUME OnSuccess PROVE FailuresTyped' /\ ClosedBelowThreshold'
    <2>1. \/ failures' = NoFailures
          \/ UNCHANGED failures /\ state' = state
      BY <1>3 DEF OnSuccess
    <2>2. CASE failures' = NoFailures
      BY <2>2, NothingRecent, WindowFact DEF FailuresTyped, ClosedBelowThreshold
    <2> QED  BY <1>1, <2>1, <2>2
  <1>4. ASSUME OnFailure PROVE FailuresTyped' /\ ClosedBelowThreshold'
    <2>1. failures' \in [Ages -> Nat]
      BY <1>4, WindowFact DEF OnFailure, FailuresTyped
    <2>2. Recent(failures') \in Nat
      BY <2>1, RecentIsSum
    <2>3. state' = "CLOSED" => ~(Recent(failures') >= FailureThreshold)
      BY <1>4 DEF OnFailure, TransitionTo
    <2> QED  BY <2>1, <2>2, <2>3, WindowFact DEF FailuresTyped, ClosedBelowThreshold
  <1>5. CASE Tick
    <2>1. state' = state
      BY <1>5 DEF Tick
    <2>2. /\ FailuresTyped' /\ Recent(failures') <= Recent(failures)
          /\ Recent(failures) \in Nat /\ Recent(failures') \in Nat
      BY <1>5, TickForgets, RecentIsSum DEF FailuresTyped
    <2> QED  BY <2>1, <2>2, WindowFact DEF ClosedBelowThreshold
  <1>6. CASE HealthChanges \/ UNCHANGED circuitVars
    BY <1>1, <1>6 DEF HealthChanges, breakerVars, circuitVars
  <1>7. ASSUME NEW c \in Callers, CallStep(c)
        PROVE  FailuresTyped' /\ ClosedBelowThreshold'
    <2>1. CASE RetryDatabaseOperation(c) \/ CallDirectly(c)
      BY <1>2, <2>1 DEF RetryDatabaseOperation, CallDirectly
    <2>2. CASE Succeed(c)
      BY <1>3, <2>2 DEF Succeed
    <2>3. CASE Fail(c)
      BY <1>4, <2>3 DEF Fail
    <2>4. CASE Retry(c)
      <3>1. Execute(c, attempt[c] + 1) \/ UNCHANGED breakerVars
        BY <2>4 DEF Retry
      <3> QED  BY <1>1, <1>2, <3>1 DEF breakerVars
    <2> QED  BY <1>7, <2>1, <2>2, <2>3, <2>4 DEF CallStep
  <1> QED  BY <1>5, <1>6, <1>7 DEF BreakerNext

\* A closed breaker never holds a full window of failures, whatever calls from
\* before it last closed still end and in whatever order their results come.
THEOREM NeverClosedAtThreshold == BreakerSpec => []ClosedBelowThreshold
  <1>1. BreakerInit => FailuresTyped /\ ClosedBelowThreshold
    BY NothingRecent, WindowFact DEF BreakerInit, FailuresTyped, ClosedBelowThreshold
  <1>2. FailuresTyped /\ ClosedBelowThreshold /\ [BreakerNext]_circuitVars
        => FailuresTyped' /\ ClosedBelowThreshold'
    BY WindowStep
  <1> QED  BY <1>1, <1>2, PTL DEF BreakerSpec
=============================================================================
