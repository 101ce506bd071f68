----------------------------- MODULE LoginSessions -----------------------------
(***************************************************************************)
(* backend/api/controllers/authController.js, sessionController.js and      *)
(* services/sessionService.js: one wallet that logs in, refreshes, logs out *)
(* and signs out its other devices, over the tables user_sessions,          *)
(* login_history and login_lockouts.                                        *)
(*                                                                         *)
(* Challenges and sessions are numbered in the order they are made; a token *)
(* is the number of its session.  A step is the code between two awaits;    *)
(* any of them may fail, and the process may die.                           *)
(*                                                                         *)
(* A request that is refused without a change is no step.  Not here: the    *)
(* expiry of a token, which leaves its row alone.                           *)
(***************************************************************************)
EXTENDS Integers, Sequences

CONSTANTS
    Requests,       \* requests that can be in flight
    Threshold,      \* FAILED_LOGIN_LOCKOUT_THRESHOLD
    MaxChallenges,  \* challenges that are asked for
    MaxSessions     \* sessions that are recorded

ASSUME SessionAssumption ==
    /\ Threshold \in Nat \ {0}
    /\ MaxChallenges \in Nat /\ MaxSessions \in Nat

VARIABLES
    nonce,    \* nonceStore.get(address); 0: none
    issued,   \* challenges handed out
    timers,   \* challenges whose timer has not fired
    recent,   \* the newest rows of login_history, at most Threshold
    locked,   \* login_lockouts has a row that is not over
    live,     \* rows of user_sessions
    created,  \* sessions recorded so far
    login,    \* the challenge that each session goes back to
    request,  \* where each request is
    forked,   \* history: logins refreshed twice at once
    excused   \* history: the lockout is over or could not be written

nonceVars   == <<nonce, issued, timers>>
lockoutVars == <<recent, locked>>
sessionVars == <<live, created, login>>
vars == <<nonceVars, lockoutVars, sessionVars, request, forked, excused>>

NoRequest  == [at |-> "none", login |-> 0, session |-> 0]
Sessions   == 1 .. created
At(r, step)   == request[r].at = step
Goto(r, step) == request' = [request EXCEPT ![r].at = step]
Done(r)       == request' = [request EXCEPT ![r] = NoRequest]
Refuse(r)     == request' = [request EXCEPT ![r] = [NoRequest EXCEPT !.at = "recordFailed"]]
Begin(r, step, l, s) ==
    /\ At(r, "none")
    /\ request' = [request EXCEPT ![r] = [at |-> step, login |-> l, session |-> s]]

Init ==
    /\ nonce = 0 /\ issued = 0 /\ timers = {}
    /\ recent = <<>> /\ locked = FALSE
    /\ live = {} /\ created = 0 /\ login = [s \in 1 .. MaxSessions |-> 0]
    /\ request = [r \in Requests |-> NoRequest]
    /\ forked = {} /\ excused = FALSE

----------------------------------------------------------------------------
(* getNonce *)

GetNonce ==
    /\ issued < MaxChallenges
    /\ issued' = issued + 1
    /\ nonce' = issued' /\ timers' = timers \cup {issued'}
    /\ UNCHANGED <<lockoutVars, sessionVars, request, forked, excused>>

\* The timer of a challenge removes whatever is stored for the address.
NonceTimer(n) ==
    /\ n \in timers
    /\ timers' = timers \ {n} /\ nonce' = 0
    /\ UNCHANGED <<issued, lockoutVars, sessionVars, request, forked, excused>>

----------------------------------------------------------------------------
(* verifySignatureAndLogin; l is the challenge the client has signed, if any *)

Logged(entry) ==
    recent' = IF Len(recent) < Threshold THEN <<entry>> \o recent
              ELSE <<entry>> \o SubSeq(recent, 1, Threshold - 1)

AllFailed(attempts) ==
    /\ Len(attempts) = Threshold
    /\ \A i \in 1 .. Threshold : attempts[i] # "success"

\* getActiveLockout
GetActiveLockout(r, l) ==
    /\ l \in 0 .. issued
    /\ IF locked THEN Begin(r, "recordLocked", 0, 0) ELSE Begin(r, "verify", l, 0)
    /\ UNCHANGED <<nonceVars, lockoutVars, sessionVars, forked, excused>>

\* A row that cannot be written is left out.
RecordLocked(r) ==
    /\ At(r, "recordLocked")
    /\ Logged("locked") \/ UNCHANGED recent
    /\ Done(r)
    /\ UNCHANGED <<nonceVars, locked, sessionVars, forked, excused>>

\* A signature of the stored challenge is accepted once.  Any other, or one that
\* comes too late, uses it up as well; a request without a signature does not.
VerifySignature(r) ==
    /\ At(r, "verify")
    /\ \/ /\ nonce # 0 /\ nonce = request[r].login
          /\ nonce' = 0 /\ Goto(r, "recordSuccess")
       \/ nonce' \in {0, nonce} /\ Refuse(r)
    /\ UNCHANGED <<issued, timers, lockoutVars, sessionVars, forked, excused>>

\* Mutation of RecordFailed: decided on the attempts before this one.
RecordFailedAfterwards(r) ==
    /\ At(r, "recordFailed")
    /\ Logged("failed") \/ UNCHANGED recent
    /\ IF AllFailed(recent) THEN Goto(r, "lock") ELSE Done(r)
    /\ UNCHANGED <<nonceVars, locked, sessionVars, forked, excused>>

\* recordFailedLoginAttempt: the attempt, then the newest attempts, then the row.
RecordFailed(r) ==
    /\ At(r, "recordFailed")
    /\ Logged("failed") \/ UNCHANGED recent
    /\ Goto(r, "findRecent")
    /\ UNCHANGED <<nonceVars, locked, sessionVars, forked, excused>>

FindRecent(r) ==
    /\ At(r, "findRecent")
    /\ IF AllFailed(recent) THEN Goto(r, "lock") ELSE Done(r)
    /\ UNCHANGED <<nonceVars, lockoutVars, sessionVars, forked, excused>>

Lock(r) ==
    /\ At(r, "lock")
    /\ locked' = TRUE /\ excused' = FALSE
    /\ Done(r)
    /\ UNCHANGED <<nonceVars, recent, sessionVars, forked>>

LockoutEnds ==
    /\ locked /\ locked' = FALSE
    /\ excused' = TRUE
    /\ UNCHANGED <<nonceVars, recent, sessionVars, request, forked>>

RecordSuccess(r) ==
    /\ At(r, "recordSuccess")
    /\ \/ Logged("success") /\ excused' = FALSE
       \/ UNCHANGED <<recent, excused>>
    /\ Goto(r, "recordSession")
    /\ UNCHANGED <<nonceVars, locked, sessionVars, forked>>

\* recordSession; the client gets a token for it.
RecordSession(r) ==
    /\ At(r, "recordSession") /\ created < MaxSessions
    /\ created' = created + 1 /\ live' = live \cup {created'}
    /\ login' = [login EXCEPT ![created'] = request[r].login]
    /\ Done(r)
    /\ UNCHANGED <<nonceVars, lockoutVars, forked, excused>>

----------------------------------------------------------------------------
(* refreshToken, logout and the session controller *)

\* Mutation of CheckSession: a token whose signature is good is refreshed.
CheckSessionUnread(r, s) ==
    /\ Begin(r, "revokeOld", login[s], s)
    /\ UNCHANGED <<nonceVars, lockoutVars, sessionVars, forked, excused>>

\* isSessionValid of refreshToken.
CheckSession(r, s) ==
    /\ s \in live
    /\ Begin(r, "revokeOld", login[s], s)
    /\ forked' = IF \E q \in Requests : At(q, "revokeOld") /\ request[q].session = s
                 THEN forked \cup {login[s]} ELSE forked
    /\ UNCHANGED <<nonceVars, lockoutVars, sessionVars, excused>>

\* Mutation of RevokeOld: the old session is left to expire.
RevokeOldLater(r) ==
    /\ At(r, "revokeOld")
    /\ Goto(r, "recordSession")
    /\ UNCHANGED <<nonceVars, lockoutVars, sessionVars, forked, excused>>

\* revokeSessionByJti, then recordSession as in a login.
RevokeOld(r) ==
    /\ At(r, "revokeOld")
    /\ live' = live \ {request[r].session}
    /\ request' = [request EXCEPT ![r].at = "recordSession", ![r].session = 0]
    /\ UNCHANGED <<nonceVars, lockoutVars, created, login, forked, excused>>

Logout(s) ==
    /\ s \in Sessions
    /\ live' = live \ {s}
    /\ UNCHANGED <<nonceVars, lockoutVars, created, login, request, forked, excused>>

\* authMiddleware lets the request pass.
Authenticate(r, s) ==
    /\ s \in live
    /\ Begin(r, "revokeSession", 0, 0) \/ Begin(r, "revokeAllExcept", 0, s)
    /\ UNCHANGED <<nonceVars, lockoutVars, sessionVars, forked, excused>>

RevokeSession(r) ==
    /\ At(r, "revokeSession")
    /\ \E s \in Sessions : live' = live \ {s}
    /\ Done(r)
    /\ UNCHANGED <<nonceVars, lockoutVars, created, login, forked, excused>>

RevokeAllExcept(r) ==
    /\ At(r, "revokeAllExcept")
    /\ live' = live \cap {request[r].session}
    /\ Done(r)
    /\ UNCHANGED <<nonceVars, lockoutVars, created, login, forked, excused>>

----------------------------------------------------------------------------
\* An await rejects and the request ends there.
Fail(r) ==
    /\ ~At(r, "none")
    /\ Done(r)
    /\ excused' = (excused \/ At(r, "findRecent") \/ At(r, "lock"))
    /\ UNCHANGED <<nonceVars, lockoutVars, sessionVars, forked>>

\* The nonces and their timers are gone with the process.
Crash ==
    /\ nonce' = 0 /\ timers' = {}
    /\ request' = [r \in Requests |-> NoRequest]
    /\ excused' = TRUE
    /\ UNCHANGED <<issued, lockoutVars, sessionVars, forked>>

LoginStep(r) ==
    \/ \E l \in 0 .. MaxChallenges : GetActiveLockout(r, l)
    \/ RecordLocked(r) \/ VerifySignature(r) \/ RecordFailed(r) \/ FindRecent(r)
    \/ Lock(r) \/ RecordSuccess(r) \/ RecordSession(r)

SessionStep(r) ==
    \/ \E s \in Sessions : CheckSession(r, s) \/ Authenticate(r, s)
    \/ RevokeOld(r) \/ RevokeSession(r) \/ RevokeAllExcept(r)

Next ==
    \/ \E r \in Requests : LoginStep(r) \/ SessionStep(r) \/ Fail(r)
    \/ \E s \in Sessions : Logout(s)
    \/ \E n \in 1 .. MaxChallenges : NonceTimer(n)
    \/ GetNonce \/ LockoutEnds \/ Crash

Spec == Init /\ [][Next]_vars

----------------------------------------------------------------------------
(* Properties *)

\* The sessions that go back to one login, and whether it can still have one.
Line(l)  == {s \in Sessions : login[s] = l}
Alive(l) ==
    \/ Line(l) \cap live # {}
    \/ \E r \in Requests : /\ At(r, "revokeOld") \/ At(r, "recordSession")
                           /\ request[r].login = l

\* A login that has been signed out, by logout, by revocation or from another
\* device, stays out: unless a refresh had read its session before, nothing
\* records a session for it again, and its challenge starts no other login.
SignedOutStays == [][\A l \in 1 .. issued : Line(l) # {} /\ ~Alive(l) => ~Alive(l)']_vars

\* Refreshing moves a login from one session to the next: it never has two,
\* unless two refreshes of one token overlapped.
OneSessionPerLogin ==
    \A s, u \in live : s # u /\ login[s] = login[u] => login[s] \in forked

\* "locks the address after 5 in a row": when the newest attempts have all
\* failed, the last one on its signature, the address is locked as soon as the
\* requests that recorded them are through, however they interleave with each
\* other and with logins; unless the lockout is over or could not be written.
FiveFailuresLock ==
    /\ AllFailed(recent) /\ recent[1] = "failed"
    /\ \A r \in Requests : ~At(r, "findRecent") /\ ~At(r, "lock")
    => locked \/ excused
=============================================================================
