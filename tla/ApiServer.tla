------------------------------- MODULE ApiServer -------------------------------
(***************************************************************************)
(* The HTTP server of backend/server.js: api/middleware/idempotency.js over *)
(* lib/cache.js, and lib/gracefulShutdown.js, which counts the requests.    *)
(*                                                                         *)
(* All requests are POSTs to one endpoint with one Idempotency-Key: a       *)
(* client and its retries.  The cache is Redis and outlives the process; a  *)
(* command that fails reads as a miss, or is lost.  A step is the code      *)
(* between two awaits.  A client may go away; its handler runs on.          *)
(*                                                                         *)
(* services/cacheService.js prefixes a key with the tenant of the context   *)
(* it is called in.  The middleware is mounted before tenantMiddleware: it  *)
(* looks its keys up outside any tenant, and what a handler behind          *)
(* tenantMiddleware makes it write goes under the tenant's keys.            *)
(*                                                                         *)
(* Not here: the 24-hour expiry of a stored response.                       *)
(***************************************************************************)
EXTENDS Integers, FiniteSets

CONSTANTS
    Requests,    \* numbered in the order they arrive in
    MaxFaults,   \* failing cache commands
    MaxStarts    \* times the process is started

ASSUME ServerAssumption ==
    /\ IsFiniteSet(Requests) /\ Requests \subseteq Nat
    /\ MaxFaults \in Nat /\ MaxStarts \in Nat \ {0}

VARIABLES
    tenanted,   \* the endpoint is behind tenantMiddleware
    cached,     \* the scopes under which the response of the key is stored
    lock,       \* idempotency:lock of the key, outside any tenant
    pc,         \* where each request is
    outcome,    \* the answer its handler has given and that is not yet sent
    connected,  \* requests whose client is still there
    tracked,    \* requests that trackInFlightRequests has not released
    inFlight,   \* inFlightRequests
    phase,      \* how far runGracefulShutdown is
    cleaned,    \* cleanup tasks that have run
    forceTimer, \* forceExitTimer is armed
    answered,   \* history: a client has its 2xx answer
    late,       \* history: requests that came after that
    erased,     \* history: a failing duplicate erased a response that can be looked up
    freed,      \* history: a lock that nobody would have released expired, or a
                \*   refused duplicate released it
    faults, starts

cacheVars    == <<tenanted, cached, lock>>
requestVars  == <<pc, outcome, connected, tracked, inFlight>>
shutdownVars == <<phase, cleaned, forceTimer>>
historyVars  == <<answered, late, erased, freed>>
vars == <<cacheVars, requestVars, shutdownVars, historyVars, faults, starts>>

CleanupTasks == <<"bullmq-workers", "compliance-scheduler", "prisma", "redis">>

Up == phase # "exited"
Disconnected == cleaned >= 3  \* prisma.$disconnect has run
InHandler == {"handler", "invalidateLock", "store", "send"}

\* The scope of the keys that res.json writes.  A request that the API gateway or
\* tenantMiddleware refuses (401, 403, 404, 429) is answered outside the tenant.
Key(r) == IF tenanted /\ outcome[r] # "refused" THEN "tenant" ELSE "global"

Init ==
    /\ tenanted \in BOOLEAN
    /\ cached = {} /\ lock = FALSE
    /\ pc = [r \in Requests |-> "new"]
    /\ outcome = [r \in Requests |-> "none"]
    /\ connected = {} /\ tracked = {} /\ inFlight = 0
    /\ phase = "running" /\ cleaned = 0 /\ forceTimer = FALSE
    /\ answered = FALSE /\ late = {} /\ erased = FALSE /\ freed = FALSE
    /\ faults = 0 /\ starts = 1

Fault == faults < MaxFaults /\ faults' = faults + 1
Goto(r, step) == pc' = [pc EXCEPT ![r] = step]

----------------------------------------------------------------------------
(* trackInFlightRequests *)

\* A new request is counted, or answered 503 once the server drains.
Arrive(r) ==
    /\ Up /\ pc[r] = "new" /\ \A q \in Requests : q < r => pc[q] # "new"
    /\ phase = "running" \/ phase = "closing"  \* afterwards nobody listens
    /\ IF phase = "running"
         THEN /\ Goto(r, "getCached")
              /\ connected' = connected \cup {r}
              /\ tracked' = tracked \cup {r} /\ inFlight' = inFlight + 1
         ELSE Goto(r, "done") /\ UNCHANGED <<connected, tracked, inFlight>>
    /\ late' = IF answered THEN late \cup {r} ELSE late
    /\ UNCHANGED <<cacheVars, outcome, shutdownVars, answered, erased, freed,
                   faults, starts>>

\* Mutation of Release: finish and close both count.
ReleaseTwice(r) ==
    /\ tracked' = tracked \ {r}
    /\ inFlight' = inFlight - 1

\* finish or close, whichever comes first.
Release(r) ==
    /\ tracked' = tracked \ {r}
    /\ inFlight' = IF r \in tracked THEN inFlight - 1 ELSE inFlight

\* The client closes the connection; the code of its request does not notice.
ClientLeaves(r) ==
    /\ Up /\ r \in connected
    /\ connected' = connected \ {r}
    /\ Release(r)
    /\ UNCHANGED <<cacheVars, pc, outcome, shutdownVars, historyVars,
                   faults, starts>>

----------------------------------------------------------------------------
(* idempotencyMiddleware *)

At(r, step) == Up /\ pc[r] = step

\* cache.get(key): a stored response is replayed.
GetCached(r) ==
    /\ At(r, "getCached")
    /\ \/ "global" \in cached /\ Goto(r, "replay") /\ UNCHANGED faults
       \/ "global" \notin cached /\ Goto(r, "getLock") /\ UNCHANGED faults
       \/ "global" \in cached /\ Fault /\ Goto(r, "getLock")
    /\ UNCHANGED <<cacheVars, outcome, connected, tracked, inFlight, shutdownVars, historyVars, starts>>

\* cache.get(lockKey): 409 while it is set.
GetLock(r) ==
    /\ At(r, "getLock")
    /\ \/ lock /\ Goto(r, "conflict") /\ UNCHANGED faults
       \/ ~lock /\ Goto(r, "setLock") /\ UNCHANGED faults
       \/ lock /\ Fault /\ Goto(r, "setLock")
    /\ UNCHANGED <<cacheVars, outcome, connected, tracked, inFlight, shutdownVars, historyVars, starts>>

\* cache.set(lockKey), whether or not somebody has set it meanwhile.
SetLock(r) ==
    /\ At(r, "setLock")
    /\ \/ lock' = TRUE /\ UNCHANGED faults
       \/ Fault /\ UNCHANGED lock
    /\ Goto(r, "handler")
    /\ UNCHANGED <<tenanted, cached, outcome, connected, tracked, inFlight,
                   shutdownVars, historyVars, starts>>

\* The route handler runs and calls res.json, or a middleware before it does.
Handle(r) ==
    /\ At(r, "handler")
    /\ \E answer \in {"ok", "failed"} \cup (IF tenanted THEN {"refused"} ELSE {}) :
          outcome' = [outcome EXCEPT ![r] = answer]
    /\ Goto(r, "invalidateLock")
    /\ UNCHANGED <<cacheVars, connected, tracked, inFlight, shutdownVars,
                   historyVars, faults, starts>>

\* Mutation of InvalidateLock: it deletes the key that SetLock has set.
InvalidateLockUnscoped(r) ==
    /\ At(r, "invalidateLock")
    /\ lock' = FALSE
    /\ freed' = (freed \/ (lock /\ outcome[r] = "refused"))
    /\ Goto(r, "store")
    /\ UNCHANGED <<tenanted, cached, outcome, connected, tracked, inFlight,
                   shutdownVars, answered, late, erased, faults, starts>>

\* cache.invalidate(lockKey).  Under the tenant's key there is no lock: the one
\* that SetLock set stays until it expires.
InvalidateLock(r) ==
    /\ At(r, "invalidateLock")
    /\ \/ Key(r) = "global" /\ lock' = FALSE /\ UNCHANGED faults
       \/ Key(r) = "tenant" /\ UNCHANGED <<lock, faults>>
       \/ Fault /\ UNCHANGED lock
    /\ freed' = (freed \/ (lock /\ ~lock' /\ outcome[r] = "refused"))
    /\ Goto(r, "store")
    /\ UNCHANGED <<tenanted, cached, outcome, connected, tracked, inFlight,
                   shutdownVars, answered, late, erased, starts>>

\* Mutation of StoreResponse: the write is not awaited before the answer.
StoreResponseLater(r) ==
    /\ At(r, "store")
    /\ Goto(r, "send")
    /\ UNCHANGED <<cacheVars, outcome, connected, tracked, inFlight, shutdownVars, historyVars, faults, starts>>

\* A 2xx answer is stored; any other removes what is stored.
StoreResponse(r) ==
    /\ At(r, "store")
    /\ \/ /\ cached' = IF outcome[r] = "ok" THEN cached \cup {Key(r)}
                                            ELSE cached \ {Key(r)}
          /\ UNCHANGED faults
       \/ Fault /\ UNCHANGED cached
    /\ erased' = (erased \/ "global" \in cached \ cached')
    /\ Goto(r, "send")
    /\ UNCHANGED <<tenanted, lock, outcome, connected, tracked, inFlight,
                   shutdownVars, answered, late, freed, starts>>

\* The answer goes out, and the response has finished.
Respond(r) ==
    /\ Up /\ pc[r] \in {"replay", "conflict", "send"}
    /\ answered' = (answered \/ (r \in connected /\ outcome[r] = "ok"))
    /\ Goto(r, "done")
    /\ outcome' = [outcome EXCEPT ![r] = "none"]
    /\ connected' = connected \ {r}
    /\ Release(r)
    /\ UNCHANGED <<cacheVars, shutdownVars, late, erased, freed, faults,
                   starts>>

RequestStep(r) ==
    \/ GetCached(r) \/ GetLock(r) \/ SetLock(r)
    \/ Handle(r) \/ InvalidateLock(r) \/ StoreResponse(r) \/ Respond(r)

\* LOCK_TTL_SECONDS is over.
LockExpires ==
    /\ lock /\ lock' = FALSE
    /\ freed' = (freed \/ tenanted)
    /\ UNCHANGED <<tenanted, cached, requestVars, shutdownVars, answered, late,
                   erased, faults, starts>>

----------------------------------------------------------------------------
(* runGracefulShutdown *)

\* Mutation of Signal: the cleanup does not wait for the requests.
SignalSkipsDrain ==
    /\ phase = "running"
    /\ phase' = "cleanup" /\ forceTimer' = TRUE
    /\ UNCHANGED <<cacheVars, requestVars, cleaned, historyVars, faults, starts>>

\* SIGTERM or SIGINT: draining, the force-exit timer, server.close().
Signal ==
    /\ phase = "running"
    /\ phase' = "closing" /\ forceTimer' = TRUE
    /\ UNCHANGED <<cacheVars, requestVars, cleaned, historyVars, faults, starts>>

\* server.close calls back when the last connection is gone; a WebSocket or an
\* idle connection may keep it from ever doing so.
ServerClosed ==
    /\ phase = "closing" /\ connected = {}
    /\ phase' = "polling"
    /\ UNCHANGED <<cacheVars, requestVars, cleaned, forceTimer, historyVars,
                   faults, starts>>

\* The poll ends at zero.  Its deadline is later than the force-exit timer, so
\* it never ends the poll.
Drained ==
    /\ phase = "polling" /\ inFlight <= 0
    /\ phase' = "cleanup"
    /\ UNCHANGED <<cacheVars, requestVars, cleaned, forceTimer, historyVars,
                   faults, starts>>

\* The next task ends, well or not.
CleanupTask ==
    /\ phase = "cleanup" /\ cleaned < 4
    /\ cleaned' = cleaned + 1
    /\ UNCHANGED <<cacheVars, requestVars, phase, forceTimer, historyVars,
                   faults, starts>>

\* The process is gone with every request in it.
Exit ==
    /\ phase' = "exited" /\ forceTimer' = FALSE
    /\ pc' = [r \in Requests |-> IF pc[r] = "new" THEN "new" ELSE "done"]
    /\ connected' = {} /\ tracked' = {} /\ inFlight' = 0
    /\ outcome' = [r \in Requests |-> "none"]
    /\ UNCHANGED <<cacheVars, cleaned, historyVars, faults, starts>>

ExitGracefully == phase = "cleanup" /\ cleaned = 4 /\ Exit

\* Mutation of ForceExit: the timer does not survive server.close().
ForceExitWhilePolling == forceTimer /\ phase = "polling" /\ Exit

ForceExit == forceTimer /\ Exit
Crash     == Up /\ Exit

Start ==
    /\ ~Up /\ starts < MaxStarts
    /\ starts' = starts + 1
    /\ phase' = "running" /\ cleaned' = 0
    /\ UNCHANGED <<cacheVars, requestVars, forceTimer, historyVars, faults>>

ShutdownStep == ServerClosed \/ Drained \/ CleanupTask \/ ExitGracefully

Next ==
    \/ \E r \in Requests : Arrive(r) \/ ClientLeaves(r) \/ RequestStep(r)
    \/ LockExpires \/ Signal \/ ShutdownStep \/ ForceExit \/ Crash
    \/ Start

\* Only the timer is sure to come: a handler, a client, a WebSocket and a cleanup
\* task may each take for ever.
Spec == Init /\ [][Next]_vars /\ WF_vars(ForceExit)

----------------------------------------------------------------------------
(* Properties *)

\* Type invariant; the counter of gracefulShutdown counts the tracked requests,
\* and no client waits for one that is not tracked.
TypeOK ==
    /\ tenanted \in BOOLEAN /\ cached \subseteq {"global", "tenant"}
    /\ lock \in BOOLEAN /\ forceTimer \in BOOLEAN
    /\ answered \in BOOLEAN /\ erased \in BOOLEAN /\ freed \in BOOLEAN
    /\ pc \in [Requests -> {"new", "getCached", "getLock", "setLock", "replay",
                            "conflict", "done"} \cup InHandler]
    /\ outcome \in [Requests -> {"none", "ok", "failed", "refused"}]
    /\ connected \subseteq tracked /\ tracked \subseteq Requests
    /\ inFlight = Cardinality(tracked)
    /\ phase \in {"running", "closing", "polling", "cleanup", "exited"}
    /\ cleaned \in 0 .. 4
    /\ late \subseteq Requests
    /\ faults \in 0 .. MaxFaults /\ starts \in 1 .. MaxStarts

\* "the cached response is returned immediately without re-executing the route
\* handler": once a client has its 2xx answer, no retry that comes later runs the
\* handler again; unless the cache failed, or a duplicate that ran beside the first
\* one failed and erased the response.  The code does not keep this promise under
\* /api, because it stores the response where it does not look for it.
AnsweredIsReplayed ==
    faults = 0 /\ ~erased => \A r \in late : pc[r] \notin InHandler

\* It keeps it for the endpoints that are not behind tenantMiddleware, across
\* restarts of the process, expired locks and requests that overlap.
ReplayedOutsideTenants ==
    ~tenanted /\ faults = 0 /\ ~erased => \A r \in late : pc[r] \notin InHandler

\* Under /api what keeps a retry from running the handler again is the lock that
\* nobody releases, and only until it expires or a duplicate that is refused
\* takes it away.
LockShieldsRetries ==
    tenanted /\ faults = 0 /\ ~freed => \A r \in late : pc[r] \notin InHandler

\* The database is disconnected only when nobody waits for an answer any more:
\* a handler that still runs then belongs to a client that has left.
DisconnectAfterDrain == Disconnected /\ Up => connected = {}

\* A process that was told to stop is gone in the end, whatever its clients,
\* its WebSockets and its cleanup tasks do.
ShutdownEnds == phase = "closing" ~> phase = "exited"
=============================================================================
