---------------------------- MODULE CircuitBreaker ----------------------------
(***************************************************************************)
(* backend/lib/circuitBreaker.js and its user backend/lib/retryUtils.js:    *)
(* one breaker shared by operations that go through retryDatabaseOperation  *)
(* and by operations that call execute directly, as the tests do and as the *)
(* runbooks tell the reader to.                                             *)
(*                                                                         *)
(* The code compares the clock with stored instants.  The model keeps how   *)
(* old each recent failure is, and how long a wait still lasts; Tick moves  *)
(* all of them at once.  A timer fires when its time has come or later.     *)
(*                                                                         *)
(* A call that the breaker rejects changes nothing, so it is no step.       *)
(***************************************************************************)
EXTENDS Integers, FiniteSets, Functions

CONSTANTS
    RetryCallers,      \* callers of retryDatabaseOperation
    DirectCallers,     \* callers of CircuitBreaker.execute
    FailureThreshold, SuccessThreshold,
    Timeout,           \* units of time the breaker stays open
    WindowSize,        \* units of time a failure is remembered
    RetryAttempts, RetryDelay  \* RETRY_ATTEMPTS, RETRY_DELAY_MS; the backoff is 2

Callers == RetryCallers \cup DirectCallers

ASSUME BreakerAssumption ==
    /\ RetryCallers \cap DirectCallers = {}
    /\ {FailureThreshold, SuccessThreshold, Timeout, WindowSize, RetryAttempts,
        RetryDelay} \subseteq Nat \ {0}

VARIABLES
    state,         \* _state
    failures,      \* _failureTimestamps: how many of each age below windowSize
    successCount,  \* _successCount
    untilProbe,    \* _nextAttemptAt, from now
    doing,         \* idle, running its operation, or sleeping before a retry
    attempt,       \* attempt of each caller
    sleep,         \* what is left of its sleep
    healthy,       \* the dependency answers
    streak         \* history: results since the last failure, up to the threshold

breakerVars == <<state, failures, successCount, untilProbe>>
callerVars  == <<doing, attempt, sleep>>
circuitVars == <<breakerVars, callerVars, healthy, streak>>

Ages   == 0 .. WindowSize - 1
Recent(f) == FoldFunction(+, 0, f)  \* _countRecentFailures
NoFailures == [a \in Ages |-> 0]

BreakerInit ==
    /\ state = "CLOSED" /\ failures = NoFailures
    /\ successCount = 0 /\ untilProbe = 0
    /\ doing = [c \in Callers |-> "idle"]
    /\ attempt = [c \in Callers |-> 0]
    /\ sleep = [c \in Callers |-> 0]
    /\ healthy = TRUE
    /\ streak = 0

----------------------------------------------------------------------------
(* The breaker *)

\* Mutation of TransitionTo: the count of successes survives.
TransitionToKeepsCount(new) ==
    /\ state' = new
    /\ untilProbe' = IF new = "OPEN" THEN Timeout
                     ELSE IF new = "CLOSED" THEN 0 ELSE untilProbe
    /\ UNCHANGED successCount

\* _transitionTo another state, but for the failures, which CLOSED clears.
TransitionTo(new) ==
    /\ state' = new
    /\ successCount' = 0
    /\ untilProbe' = IF new = "OPEN" THEN Timeout
                     ELSE IF new = "CLOSED" THEN 0 ELSE untilProbe

\* Mutation of OnSuccess: closing keeps the failures that opened the breaker.
OnSuccessKeepsFailures ==
    /\ streak' = IF streak < SuccessThreshold THEN streak + 1 ELSE streak
    /\ UNCHANGED failures
    /\ IF state # "HALF_OPEN" THEN UNCHANGED <<state, successCount, untilProbe>>
       ELSE IF successCount + 1 >= SuccessThreshold THEN TransitionTo("CLOSED")
       ELSE successCount' = successCount + 1 /\ UNCHANGED <<state, untilProbe>>

OnSuccess ==
    LET closes == state = "HALF_OPEN" /\ successCount + 1 >= SuccessThreshold IN
    /\ streak' = IF streak < SuccessThreshold THEN streak + 1 ELSE streak
    /\ failures' = IF closes THEN NoFailures ELSE failures
    /\ IF closes THEN TransitionTo("CLOSED")
       ELSE /\ successCount' = IF state = "HALF_OPEN" THEN successCount + 1
                               ELSE successCount
            /\ UNCHANGED <<state, untilProbe>>

\* A breaker that is open already is left as it is, its probe time included.
OnFailure ==
    /\ streak' = 0
    /\ failures' = [failures EXCEPT ![0] = @ + 1]
    /\ IF \/ state = "HALF_OPEN"
          \/ state = "CLOSED" /\ Recent(failures') >= FailureThreshold
         THEN TransitionTo("OPEN")
         ELSE UNCHANGED <<state, successCount, untilProbe>>

\* execute up to the await: the operation runs unless the breaker stays open.
Execute(c, n) ==
    /\ state = "OPEN" => untilProbe = 0
    /\ IF state = "OPEN" THEN TransitionTo("HALF_OPEN")
       ELSE UNCHANGED <<state, successCount, untilProbe>>
    /\ doing' = [doing EXCEPT ![c] = "running"]
    /\ attempt' = [attempt EXCEPT ![c] = n]
    /\ sleep' = [sleep EXCEPT ![c] = 0]
    /\ UNCHANGED <<failures, healthy, streak>>

Leave(c) ==
    /\ doing' = [doing EXCEPT ![c] = "idle"]
    /\ attempt' = [attempt EXCEPT ![c] = 0]
    /\ sleep' = [sleep EXCEPT ![c] = 0]

----------------------------------------------------------------------------
(* The callers *)

\* Mutation of RetryDatabaseOperation: execute decides, as it was written to.
RetryDatabaseOperationUntested(c) ==
    /\ c \in RetryCallers /\ doing[c] = "idle"
    /\ Execute(c, 1)

\* retryDatabaseOperation fails fast on the state alone, whatever the time is.
RetryDatabaseOperation(c) ==
    /\ c \in RetryCallers /\ doing[c] = "idle"
    /\ state # "OPEN"
    /\ Execute(c, 1)

CallDirectly(c) ==
    /\ c \in DirectCallers /\ doing[c] = "idle"
    /\ Execute(c, 1)

Succeed(c) ==
    /\ doing[c] = "running" /\ healthy
    /\ OnSuccess
    /\ Leave(c)
    /\ UNCHANGED healthy

\* The operation fails; a retry follows unless it was the last attempt or the
\* error is not a transient one.
Fail(c) ==
    /\ doing[c] = "running" /\ ~healthy
    /\ OnFailure
    /\ \/ Leave(c)
       \/ /\ c \in RetryCallers /\ attempt[c] < RetryAttempts
          /\ doing' = [doing EXCEPT ![c] = "sleeping"]
          /\ sleep' = [sleep EXCEPT ![c] = RetryDelay * (2 ^ (attempt[c] - 1))]
          /\ UNCHANGED attempt
    /\ UNCHANGED healthy

\* The next round of the loop.  CircuitOpenError ends it.
Retry(c) ==
    /\ doing[c] = "sleeping" /\ sleep[c] = 0
    /\ \/ Execute(c, attempt[c] + 1)
       \/ /\ state = "OPEN" /\ untilProbe > 0
          /\ Leave(c)
          /\ UNCHANGED <<breakerVars, healthy, streak>>

Less(n) == IF n > 0 THEN n - 1 ELSE 0

Tick ==
    /\ failures' = [a \in Ages |-> IF a = 0 THEN 0 ELSE failures[a - 1]]
    /\ untilProbe' = Less(untilProbe)
    /\ sleep' = [c \in Callers |-> Less(sleep[c])]
    /\ UNCHANGED <<state, successCount, doing, attempt, healthy, streak>>

HealthChanges == healthy' = ~healthy /\ UNCHANGED <<breakerVars, callerVars, streak>>

CallStep(c) ==
    \/ RetryDatabaseOperation(c) \/ CallDirectly(c)
    \/ Succeed(c) \/ Fail(c) \/ Retry(c)

BreakerNext == (\E c \in Callers : CallStep(c)) \/ Tick \/ HealthChanges

BreakerSpec == BreakerInit /\ [][BreakerNext]_circuitVars

----------------------------------------------------------------------------
(* Properties *)

\* A closed breaker has always fewer than failureThreshold failures in its
\* window: results of calls that began before it last closed included, and old
\* failures never open it anew.
ClosedBelowThreshold == state = "CLOSED" => Recent(failures) < FailureThreshold

\* "after successThreshold consecutive successes": however calls from before
\* the opening end among the probes, the breaker closes only when the last
\* successThreshold results were all successes.
ClosesOnStreak ==
    [][state = "HALF_OPEN" /\ state' = "CLOSED" => streak' >= SuccessThreshold]_circuitVars

\* The test on the state keeps retryDatabaseOperation out of an open breaker
\* for good: once none of its operations is in flight, only a direct call ever
\* takes the breaker out of OPEN.  (The repository has no such caller outside the
\* tests, so what the header calls "OPEN -> HALF_OPEN after timeout ms has elapsed"
\* does not happen, see README.md.)
OnlyDirectCallsProbe ==
    [][/\ state = "OPEN" /\ \A c \in RetryCallers : doing[c] = "idle"
       => \/ state' = "OPEN"
          \/ \E c \in DirectCallers : doing[c] = "idle" /\ doing'[c] = "running"]_circuitVars
=============================================================================
