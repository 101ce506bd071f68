-------------------------- MODULE LoginSessions_proofs --------------------------
(***************************************************************************)
(* Theorems about LoginSessions, for any number of requests, of challenges, *)
(* of sessions, of failures and of deaths of the process.                   *)
(***************************************************************************)
EXTENDS LoginSessions, TLAPS

Steps == {"none", "recordLocked", "verify", "recordSuccess", "recordFailed", "findRecent",
          "lock", "recordSession", "revokeOld", "revokeSession", "revokeAllExcept"}

SessionTypes ==
    /\ issued \in Nat /\ nonce \in 0 .. issued
    /\ created \in 0 .. MaxSessions /\ live \subseteq Sessions
    /\ login \in [1 .. MaxSessions -> 0 .. issued]
    /\ request \in [Requests -> [at : Steps, login : 0 .. issued, session : Nat]]

\* A request that will record a session for a login, or may come to do so.
Carries(r, l) ==
    /\ request[r].login = l
    /\ request[r].at \in {"recordSuccess", "revokeOld", "recordSession"}

\* A challenge that has not been used has no session and nobody to record one.
Unused(l) == Line(l) = {} /\ \A r \in Requests : ~Carries(r, l)

ChallengeOnce ==
    /\ nonce # 0 => Unused(nonce)
    /\ \A r \in Requests : At(r, "recordSuccess") =>
         /\ Line(request[r].login) = {}
         /\ \A q \in Requests \ {r} : ~Carries(q, request[r].login)

RefreshKnowsSession ==
    \A r \in Requests : At(r, "revokeOld") =>
       request[r].session \in Sessions /\ login[request[r].session] = request[r].login

\* A login that was never refreshed twice at once is in one place: a live
\* session, which one refresh may have read, or a session about to be recorded.
Placed(r) ==
    request[r].login \notin forked =>
      /\ At(r, "recordSession") => \A s \in live : login[s] # request[r].login
      /\ At(r, "revokeOld") =>
           \A s \in live : login[s] = request[r].login => s = request[r].session
      /\ At(r, "recordSession") \/ At(r, "revokeOld") =>
           \A q \in Requests \ {r} : ~Carries(q, request[r].login)

OnePlace == OneSessionPerLogin /\ \A r \in Requests : Placed(r)

SessionInv == SessionTypes /\ ChallengeOnce /\ RefreshKnowsSession /\ OnePlace

----------------------------------------------------------------------------
(* The ways a request moves *)

RequestRecords == [at : Steps, login : 0 .. issued, session : Nat]

LEMMA GotoRequest ==
    ASSUME SessionTypes, NEW r \in Requests, NEW step \in Steps, Goto(r, step)
    PROVE  /\ request' \in [Requests -> RequestRecords]
           /\ request'[r].at = step /\ request'[r].login = request[r].login
           /\ request'[r].session = request[r].session
           /\ \A q \in Requests \ {r} : request'[q] = request[q]
  BY DEF SessionTypes, Goto, RequestRecords

LEMMA DoneRequest ==
    ASSUME SessionTypes, NEW r \in Requests, Done(r)
    PROVE  /\ request' \in [Requests -> RequestRecords] /\ request'[r].at = "none"
           /\ \A q \in Requests \ {r} : request'[q] = request[q]
<1>1. NoRequest \in RequestRecords
  BY DEF NoRequest, RequestRecords, Steps, SessionTypes
<1> QED
  BY <1>1 DEF SessionTypes, Done, NoRequest, RequestRecords

LEMMA RefuseRequest ==
    ASSUME SessionTypes, NEW r \in Requests, Refuse(r)
    PROVE  /\ request' \in [Requests -> RequestRecords] /\ request'[r].at = "recordFailed"
           /\ \A q \in Requests \ {r} : request'[q] = request[q]
<1>1. [NoRequest EXCEPT !.at = "recordFailed"] \in RequestRecords
      /\ [NoRequest EXCEPT !.at = "recordFailed"].at = "recordFailed"
  BY DEF NoRequest, RequestRecords, Steps, SessionTypes
<1> QED
  BY <1>1 DEF SessionTypes, Refuse, RequestRecords

LEMMA BeginRequest ==
    ASSUME SessionTypes, NEW r \in Requests, NEW step \in Steps, NEW l \in 0 .. issued,
           NEW s \in Nat, Begin(r, step, l, s)
    PROVE  /\ request' \in [Requests -> RequestRecords]
           /\ request[r].at = "none"
           /\ request'[r].at = step /\ request'[r].login = l /\ request'[r].session = s
           /\ \A q \in Requests \ {r} : request'[q] = request[q]
  BY DEF SessionTypes, Begin, At, RequestRecords

\* A request that is not at a step that carries a login is in its place.
LEMMA NothingToPlace ==
    ASSUME NEW r \in Requests, request[r].at \notin {"recordSession", "revokeOld"}
    PROVE  Placed(r)
  BY DEF Placed, At

\* A request that does not move keeps its place while sessions are deleted and
\* the others carry what they carried.
LEMMA PlaceKept ==
    ASSUME NEW r \in Requests, Placed(r), request'[r] = request[r],
           forked \subseteq forked', live' \subseteq live, login' = login,
           \A q \in Requests \ {r}, k \in {request[r].login} : Carries(q, k)' => Carries(q, k)
    PROVE  Placed(r)'
  BY DEF Placed, At

LEMMA OneSessionKept ==
    ASSUME OneSessionPerLogin, forked \subseteq forked', live' \subseteq live, login' = login
    PROVE  OneSessionPerLogin'
  BY DEF OneSessionPerLogin

LEMMA TypesKept ==
    ASSUME SessionTypes, UNCHANGED <<issued, created, login>>,
           nonce' \in {0, nonce}, live' \subseteq live, request' \in [Requests -> RequestRecords]
    PROVE  SessionTypes'
  BY DEF SessionTypes, RequestRecords, Sessions, At

LEMMA LineKept ==
    ASSUME UNCHANGED <<created, login>>, NEW k
    PROVE  Line(k)' = Line(k)
  BY DEF Line, Sessions

\* A request moves to a step at which it carries no login.
LEMMA RequestMoves ==
    ASSUME SessionInv, NEW r \in Requests, UNCHANGED <<issued, created, login, forked>>,
           nonce' \in {0, nonce}, live' \subseteq live,
           request' \in [Requests -> RequestRecords],
           request'[r].at \notin {"recordSuccess", "revokeOld", "recordSession"},
           \A q \in Requests \ {r} : request'[q] = request[q]
    PROVE  SessionInv'
<1>1. SessionTypes'
  BY TypesKept DEF SessionInv
<1>2. \A q \in Requests : \A k : Carries(q, k)' => q # r /\ Carries(q, k)
  BY DEF Carries
<1>3. \A k : Line(k)' = Line(k)
  BY LineKept
<1>4. ChallengeOnce'
  <2>1. nonce' # 0 => Unused(nonce)'
    BY <1>2, <1>3 DEF SessionInv, ChallengeOnce, Unused
  <2>2. ASSUME NEW q \in Requests, At(q, "recordSuccess")'
        PROVE  /\ Line(request[q].login)' = {}
               /\ request'[q] = request[q]
               /\ \A p \in Requests \ {q} : ~Carries(p, request[q].login)'
    BY <1>2, <1>3, <2>2 DEF SessionInv, ChallengeOnce, At
  <2> QED
    BY <1>3, <2>1, <2>2 DEF ChallengeOnce
<1>5. RefreshKnowsSession'
  BY DEF SessionInv, RefreshKnowsSession, Sessions, At
<1>6. OnePlace'
  <2>1. OneSessionPerLogin'
    BY OneSessionKept DEF SessionInv, OnePlace
  <2>2. ASSUME NEW q \in Requests
        PROVE  Placed(q)'
    <3>1. CASE q = r
      BY <3>1 DEF Placed, At
    <3>2. CASE q # r
      BY <1>2, <3>2, PlaceKept DEF SessionInv, OnePlace
    <3> QED
      BY <3>1, <3>2
  <2> QED
    BY <2>1, <2>2 DEF OnePlace
<1> QED
  BY <1>1, <1>4, <1>5, <1>6 DEF SessionInv

\* Sessions are deleted, or the stored challenge is; no request moves.
LEMMA SessionsDeleted ==
    ASSUME SessionInv, live' \subseteq live, nonce' \in {0, nonce},
           UNCHANGED <<issued, created, login, request, forked>>
    PROVE  SessionInv'
<1>1. \A k : Line(k)' = Line(k)
  BY LineKept
<1>2. \A q \in Requests : \A k : Carries(q, k)' = Carries(q, k)
  BY DEF Carries
<1>3. SessionTypes'
  BY TypesKept DEF SessionInv, SessionTypes, RequestRecords, At
<1>4. ChallengeOnce'
  <2>1. nonce' # 0 => Unused(nonce)'
    BY <1>1, <1>2 DEF SessionInv, ChallengeOnce, Unused
  <2> QED
    BY <1>1, <1>2, <2>1 DEF SessionInv, ChallengeOnce, At
<1>5. RefreshKnowsSession'
  BY DEF SessionInv, RefreshKnowsSession, Sessions, At
<1>6. OnePlace'
  BY <1>2, OneSessionKept, PlaceKept DEF SessionInv, OnePlace
<1> QED
  BY <1>3, <1>4, <1>5, <1>6 DEF SessionInv

----------------------------------------------------------------------------
(* Each step *)

LEMMA GetNonceStep ==
    ASSUME SessionInv, GetNonce
    PROVE  SessionInv'
<1>1. /\ issued' = issued + 1 /\ nonce' = issued + 1 /\ issued \in Nat
      /\ UNCHANGED <<created, live, login, request, forked>>
  BY DEF GetNonce, sessionVars, SessionInv, SessionTypes
<1>2. 0 .. issued \subseteq 0 .. issued + 1
  BY <1>1
<1>3. \A q \in Requests : request[q].login \in 0 .. issued
  BY DEF SessionInv, SessionTypes
<1>4. \A s \in Sessions : login[s] \in 0 .. issued
  BY SessionAssumption DEF SessionInv, SessionTypes, Sessions
<1>5. SessionTypes'
  <2>1. \A q \in Requests : request[q] \in [at : Steps, login : 0 .. issued + 1, session : Nat]
    BY <1>2 DEF SessionInv, SessionTypes
  <2>2. request' \in [Requests -> [at : Steps, login : 0 .. issued', session : Nat]]
    BY <1>1, <2>1 DEF SessionInv, SessionTypes
  <2>3. login' \in [1 .. MaxSessions -> 0 .. issued']
    BY <1>1, <1>2 DEF SessionInv, SessionTypes
  <2>4. /\ created' \in 0 .. MaxSessions /\ live' \subseteq Sessions'
    BY <1>1 DEF SessionInv, SessionTypes, Sessions, At
  <2> QED
    BY <1>1, <2>2, <2>3, <2>4 DEF SessionTypes
<1>6. \A k : Line(k)' = Line(k)
  BY <1>1, LineKept
<1>7. \A q \in Requests : \A k : Carries(q, k)' = Carries(q, k)
  BY <1>1 DEF Carries
<1>8. Unused(issued + 1)
  BY <1>1, <1>3, <1>4 DEF Unused, Line, Carries
<1>9. ChallengeOnce'
  BY <1>1, <1>6, <1>7, <1>8 DEF SessionInv, ChallengeOnce, Unused, At
<1>10. RefreshKnowsSession'
  BY <1>1 DEF SessionInv, RefreshKnowsSession, At, Sessions
<1>11. OnePlace'
  BY <1>1, <1>7, PlaceKept, OneSessionKept DEF SessionInv, OnePlace
<1> QED
  BY <1>5, <1>9, <1>10, <1>11 DEF SessionInv

\* The challenge of a good signature is unused, and is gone with this step.
LEMMA SignatureStep ==
    ASSUME SessionInv, NEW r \in Requests, At(r, "verify"), nonce = request[r].login, nonce # 0,
           nonce' = 0, UNCHANGED <<issued, created, live, login, forked>>,
           Goto(r, "recordSuccess")
    PROVE  SessionInv'
<1> DEFINE l == request[r].login
<1>1. Unused(l)
  BY DEF SessionInv, SessionTypes, ChallengeOnce
<1>2. /\ request' \in [Requests -> RequestRecords]
      /\ request'[r].at = "recordSuccess" /\ request'[r].login = l
      /\ \A q \in Requests \ {r} : request'[q] = request[q]
  <2>1. "recordSuccess" \in Steps /\ SessionTypes
    BY DEF Steps, SessionInv
  <2> QED
    BY <2>1, GotoRequest
<1>3. \A q \in Requests : \A k : Carries(q, k)' =>
         (Carries(q, k) /\ q # r) \/ (q = r /\ k = l)
  BY <1>2 DEF Carries
<1>4. \A k : Line(k)' = Line(k)
  BY LineKept
<1>5. SessionTypes'
  BY <1>2, TypesKept DEF SessionInv
<1>6. ASSUME NEW q \in Requests \ {r}, request[q].at \in {"recordSuccess", "revokeOld", "recordSession"}
      PROVE  Carries(q, request[q].login) /\ request[q].login # l
  BY <1>1, <1>6 DEF Unused, Carries
<1>7. ASSUME NEW q \in Requests, At(q, "recordSuccess")'
      PROVE  /\ Line(request[q].login)' = {}
             /\ \A p \in Requests \ {q} : ~Carries(p, request[q].login)'
  <2>1. CASE q = r
    BY <1>1, <1>2, <1>3, <1>4, <2>1 DEF Unused
  <2>2. CASE q # r
    <3>1. At(q, "recordSuccess") /\ request'[q] = request[q]
      BY <1>2, <1>7, <2>2 DEF At
    <3>2. request[q].login # l
      BY <1>6, <2>2, <3>1 DEF At
    <3>3. /\ Line(request[q].login) = {}
          /\ \A p \in Requests \ {q} : ~Carries(p, request[q].login)
      BY <3>1 DEF SessionInv, ChallengeOnce
    <3>4. \A p \in Requests \ {q}, k \in {request[q].login} : ~Carries(p, k)'
      BY <1>3, <3>2, <3>3
    <3> QED
      BY <1>4, <3>1, <3>3, <3>4
  <2> QED
    BY <2>1, <2>2
<1>8. ChallengeOnce'
  BY <1>7 DEF ChallengeOnce
<1>9. RefreshKnowsSession'
  BY <1>2 DEF SessionInv, RefreshKnowsSession, At, Sessions
<1>10. OnePlace'
  <2>1. OneSessionPerLogin'
    BY OneSessionKept DEF SessionInv, OnePlace
  <2>2. ASSUME NEW q \in Requests
        PROVE  Placed(q)'
    <3>1. CASE q = r
      BY <1>2, <3>1 DEF Placed, At
    <3>2. CASE q # r /\ request[q].at \in {"revokeOld", "recordSession"}
      <4>1. request[q].login # l
        BY <1>6, <3>2
      <4>2. request'[q] = request[q] /\ Placed(q)
        BY <1>2, <3>2 DEF SessionInv, OnePlace
      <4>3. \A p \in Requests \ {q}, k \in {request[q].login} : Carries(p, k)' => Carries(p, k)
        BY <1>3, <4>1
      <4> QED
        BY <4>2, <4>3, PlaceKept
    <3>3. CASE q # r /\ request[q].at \notin {"revokeOld", "recordSession"}
      BY <1>2, <3>3 DEF Placed, At
    <3> QED
      BY <3>1, <3>2, <3>3
  <2> QED
    BY <2>1, <2>2 DEF OnePlace
<1> QED
  BY <1>5, <1>8, <1>9, <1>10 DEF SessionInv

LEMMA RecordSuccessStep ==
    ASSUME SessionInv, NEW r \in Requests, RecordSuccess(r)
    PROVE  SessionInv'
<1> DEFINE l == request[r].login
<1>1. At(r, "recordSuccess") /\ UNCHANGED <<nonce, issued, created, live, login, forked>>
  BY DEF RecordSuccess, nonceVars, sessionVars
<1>2. /\ request' \in [Requests -> RequestRecords]
      /\ request'[r].at = "recordSession" /\ request'[r].login = l
      /\ \A q \in Requests \ {r} : request'[q] = request[q]
  <2>1. "recordSession" \in Steps /\ SessionTypes /\ Goto(r, "recordSession")
    BY DEF Steps, SessionInv, RecordSuccess
  <2> QED
    BY <2>1, GotoRequest
<1>3. Line(l) = {} /\ \A q \in Requests \ {r} : ~Carries(q, l)
  BY <1>1 DEF SessionInv, ChallengeOnce
<1>4. \A q \in Requests : \A k : Carries(q, k)' = Carries(q, k)
  BY <1>1, <1>2 DEF Carries, At
<1>5. \A k : Line(k)' = Line(k)
  BY <1>1, LineKept
<1>6. SessionTypes'
  BY <1>1, <1>2, TypesKept DEF SessionInv
<1>7. ChallengeOnce'
  <2>1. nonce' # 0 => Unused(nonce)'
    BY <1>1, <1>4, <1>5 DEF SessionInv, ChallengeOnce, Unused
  <2>2. ASSUME NEW q \in Requests, At(q, "recordSuccess")'
        PROVE  At(q, "recordSuccess") /\ request'[q] = request[q]
    BY <1>2, <2>2 DEF At
  <2> QED
    BY <1>4, <1>5, <2>1, <2>2 DEF SessionInv, ChallengeOnce
<1>8. RefreshKnowsSession'
  BY <1>1, <1>2 DEF SessionInv, RefreshKnowsSession, At, Sessions
<1>9. \A s \in live : login[s] # l
  BY <1>3 DEF SessionInv, SessionTypes, Line
<1>10. Placed(r)'
  BY <1>1, <1>2, <1>3, <1>4, <1>9 DEF Placed, At
<1>11. \A q \in Requests \ {r} : Placed(q)'
  BY <1>1, <1>2, <1>4, PlaceKept DEF SessionInv, OnePlace
<1>12. OneSessionPerLogin'
  BY <1>1, OneSessionKept DEF SessionInv, OnePlace
<1> QED
  BY <1>6, <1>7, <1>8, <1>10, <1>11, <1>12 DEF SessionInv, OnePlace

LEMMA RecordSessionStep ==
    ASSUME SessionInv, NEW r \in Requests, RecordSession(r)
    PROVE  SessionInv'
<1> DEFINE l == request[r].login
           n == created + 1
<1>1. /\ At(r, "recordSession") /\ created' = n /\ live' = live \cup {n}
      /\ login' = [login EXCEPT ![n] = l]
      /\ UNCHANGED <<nonce, issued, forked>>
  BY DEF RecordSession, nonceVars
<1>2. /\ request' \in [Requests -> RequestRecords] /\ request'[r].at = "none"
      /\ \A q \in Requests \ {r} : request'[q] = request[q]
  BY DoneRequest DEF RecordSession, SessionInv
<1>3. n \in 1 .. MaxSessions /\ Sessions' = Sessions \cup {n} /\ n \notin Sessions
  BY <1>1, SessionAssumption DEF RecordSession, SessionInv, SessionTypes, Sessions
<1>4. login'[n] = l /\ \A s \in Sessions : login'[s] = login[s]
  BY <1>1, <1>3, SessionAssumption DEF Sessions, SessionInv, SessionTypes
<1>5. l \in 0 .. issued /\ Carries(r, l)
  BY <1>1 DEF SessionInv, SessionTypes, Carries, At
<1>6. \A q \in Requests : \A k : Carries(q, k)' => q # r /\ Carries(q, k)
  BY <1>2 DEF Carries
<1>7. \A k : k # l => Line(k)' = Line(k)
  BY <1>3, <1>4 DEF Line
<1>8. SessionTypes'
  <2>1. login' \in [1 .. MaxSessions -> 0 .. issued']
    BY <1>1, <1>5 DEF SessionInv, SessionTypes
  <2>2. created' \in 0 .. MaxSessions /\ live' \subseteq Sessions'
    BY <1>1, <1>3 DEF SessionInv, SessionTypes
  <2> QED
    BY <1>1, <1>2, <2>1, <2>2 DEF SessionInv, SessionTypes, RequestRecords
<1>9. ChallengeOnce'
  <2>1. nonce' # 0 => Unused(nonce)'
    <3>1. nonce # 0 => Unused(nonce) /\ nonce # l
      BY <1>5 DEF SessionInv, ChallengeOnce, Unused
    <3> QED
      BY <1>1, <1>6, <1>7, <3>1 DEF Unused
  <2>2. ASSUME NEW q \in Requests, At(q, "recordSuccess")'
        PROVE  /\ Line(request[q].login)' = {}
               /\ \A p \in Requests \ {q} : ~Carries(p, request[q].login)'
    <3>1. q # r /\ At(q, "recordSuccess") /\ request'[q] = request[q]
      BY <1>2, <2>2 DEF At
    <3>2. /\ Line(request[q].login) = {}
          /\ \A p \in Requests \ {q} : ~Carries(p, request[q].login)
      BY <3>1 DEF SessionInv, ChallengeOnce
    <3>3. request[q].login # l
      BY <1>5, <3>1, <3>2
    <3> QED
      BY <1>6, <1>7, <3>1, <3>2, <3>3
  <2> QED
    BY <2>1, <2>2 DEF ChallengeOnce
<1>10. RefreshKnowsSession'
  BY <1>2, <1>3, <1>4 DEF SessionInv, RefreshKnowsSession, At
<1>11. l \notin forked => /\ \A s \in live : login[s] # l
                          /\ \A q \in Requests \ {r} : ~Carries(q, l)
  BY <1>1 DEF SessionInv, OnePlace, Placed
<1>12. \A s \in live : s \in Sessions /\ login'[s] = login[s]
  BY <1>4 DEF SessionInv, SessionTypes
<1>13. OneSessionPerLogin'
  <2>1. ASSUME NEW s \in live', NEW u \in live', s # u, login'[s] = login'[u],
               login'[s] \notin forked
        PROVE  FALSE
    <3>1. CASE s \in live /\ u \in live
      BY <1>12, <2>1, <3>1 DEF SessionInv, OnePlace, OneSessionPerLogin
    <3>2. CASE s = n \/ u = n
      BY <1>1, <1>4, <1>11, <1>12, <2>1, <3>2
    <3> QED
      BY <1>1, <3>1, <3>2
  <2> QED
    BY <1>1, <2>1 DEF OneSessionPerLogin
<1>14. ASSUME NEW q \in Requests
       PROVE  Placed(q)'
  <2>1. CASE q = r
    BY <1>2, <2>1 DEF Placed, At
  <2>2. CASE q # r /\ (request[q].at \notin {"recordSession", "revokeOld"} \/ request[q].login \in forked)
    BY <1>1, <1>2, <2>2 DEF Placed, At
  <2>3. CASE q # r /\ request[q].at \in {"recordSession", "revokeOld"} /\ request[q].login \notin forked
    <3>1. Carries(q, request[q].login) /\ Placed(q) /\ request'[q] = request[q]
      BY <1>2, <2>3 DEF Carries, SessionInv, OnePlace
    <3>2. request[q].login # l
      BY <1>11, <2>3, <3>1
    <3>3. \A s \in live' : login'[s] = request[q].login => s \in live /\ login[s] = request[q].login
      BY <1>1, <1>4, <1>12, <3>2
    <3>4. \A p \in Requests \ {q} : ~Carries(p, request[q].login)
      BY <2>3, <3>1 DEF Placed, At
    <3>5. \A p \in Requests \ {q} : ~Carries(p, request[q].login)'
      BY <1>6, <3>1, <3>4
    <3> QED
      BY <1>1, <2>3, <3>1, <3>3, <3>5 DEF Placed, At
  <2> QED
    BY <2>1, <2>2, <2>3
<1> QED
  BY <1>8, <1>9, <1>10, <1>13, <1>14 DEF SessionInv, OnePlace

LEMMA CheckSessionStep ==
    ASSUME SessionInv, NEW r \in Requests, NEW s \in Sessions, CheckSession(r, s)
    PROVE  SessionInv'
<1> DEFINE l == login[s]
<1>1. /\ s \in live /\ UNCHANGED <<nonce, issued, created, live, login>>
      /\ forked \subseteq forked' /\ s \in Line(l)
      /\ (\E q \in Requests : At(q, "revokeOld") /\ request[q].session = s) => l \in forked'
  BY DEF CheckSession, nonceVars, sessionVars, Line
<1>2. /\ request' \in [Requests -> RequestRecords]
      /\ request[r].at = "none"
      /\ request'[r].at = "revokeOld" /\ request'[r].login = l /\ request'[r].session = s
      /\ \A q \in Requests \ {r} : request'[q] = request[q]
  <2>1. "revokeOld" \in Steps /\ l \in 0 .. issued /\ s \in Nat
    BY SessionAssumption DEF Steps, SessionInv, SessionTypes, Sessions
  <2> QED
    BY <2>1, BeginRequest DEF CheckSession, SessionInv
<1>3. \A q \in Requests : \A k : Carries(q, k)' => (q # r /\ Carries(q, k)) \/ (q = r /\ k = l)
  BY <1>2 DEF Carries
<1>4. \A k : Line(k)' = Line(k)
  BY <1>1, LineKept
<1>5. SessionTypes'
  BY <1>1, <1>2, TypesKept DEF SessionInv
<1>6. ChallengeOnce'
  <2>1. nonce' # 0 => Unused(nonce)'
    BY <1>1, <1>3, <1>4 DEF SessionInv, ChallengeOnce, Unused
  <2>2. ASSUME NEW q \in Requests, At(q, "recordSuccess")'
        PROVE  /\ Line(request[q].login)' = {}
               /\ \A p \in Requests \ {q} : ~Carries(p, request[q].login)'
    <3>1. q # r /\ At(q, "recordSuccess") /\ request'[q] = request[q]
      BY <1>2, <2>2 DEF At
    <3>2. /\ Line(request[q].login) = {}
          /\ \A p \in Requests \ {q} : ~Carries(p, request[q].login)
      BY <3>1 DEF SessionInv, ChallengeOnce
    <3>3. request[q].login # l
      BY <1>1, <3>2
    <3> QED
      BY <1>3, <1>4, <3>1, <3>2, <3>3
  <2> QED
    BY <2>1, <2>2 DEF ChallengeOnce
<1>7. RefreshKnowsSession'
  BY <1>1, <1>2 DEF SessionInv, RefreshKnowsSession, At, Sessions
<1>8. ASSUME NEW q \in Requests \ {r}, Carries(q, l)
      PROVE  l \in forked'
  <2>1. ~At(q, "recordSuccess")
    BY <1>1, <1>8 DEF SessionInv, ChallengeOnce, Carries
  <2>2. CASE At(q, "recordSession")
    BY <1>1, <1>8, <2>2 DEF SessionInv, OnePlace, Placed, Carries
  <2>3. CASE At(q, "revokeOld")
    BY <1>1, <1>8, <2>3 DEF SessionInv, OnePlace, Placed, Carries
  <2> QED
    BY <1>8, <2>1, <2>2, <2>3 DEF Carries, At
<1>9. OneSessionPerLogin'
  BY <1>1, OneSessionKept DEF SessionInv, OnePlace
<1>10. Placed(r)'
  <2>1. l \notin forked => \A t \in live : login[t] = l => t = s
    BY <1>1 DEF SessionInv, OnePlace, OneSessionPerLogin
  <2>2. \A q \in Requests \ {r}, k \in {l} : Carries(q, k)' => Carries(q, k)
    BY <1>3
  <2>3. l \notin forked' => \A q \in Requests \ {r}, k \in {l} : ~Carries(q, k)'
    BY <1>8, <2>2
  <2>4. l \notin forked' => \A q \in Requests \ {r} : ~Carries(q, request[r].login)'
    BY <1>1, <1>2, <2>3 DEF Carries
  <2> QED
    BY <1>1, <1>2, <2>1, <2>4 DEF Placed, At
<1>11. ASSUME NEW q \in Requests \ {r}
       PROVE  Placed(q)'
  <2>1. CASE request[q].at \notin {"recordSession", "revokeOld"}
    BY <1>2, <2>1 DEF Placed, At
  <2>2. CASE request[q].at \in {"recordSession", "revokeOld"} /\ request[q].login = l
    <3>1. l \in forked'
      BY <1>8, <2>2 DEF Carries
    <3> QED
      BY <1>2, <2>2, <3>1 DEF Placed
  <2>3. CASE request[q].login # l
    <3>1. \A p \in Requests \ {q}, k \in {request[q].login} : Carries(p, k)' => Carries(p, k)
      BY <1>3, <2>3
    <3> QED
      BY <1>1, <1>2, <3>1, PlaceKept DEF SessionInv, OnePlace
  <2> QED
    BY <2>1, <2>2, <2>3
<1> QED
  BY <1>5, <1>6, <1>7, <1>9, <1>10, <1>11 DEF SessionInv, OnePlace

LEMMA RevokeOldStep ==
    ASSUME SessionInv, NEW r \in Requests, RevokeOld(r)
    PROVE  SessionInv'
<1> DEFINE l == request[r].login
<1>1. /\ At(r, "revokeOld") /\ UNCHANGED <<nonce, issued, created, login, forked>>
      /\ live' = live \ {request[r].session}
  BY DEF RevokeOld, nonceVars
<1>2. /\ request' \in [Requests -> RequestRecords]
      /\ request'[r].at = "recordSession" /\ request'[r].login = l
      /\ \A q \in Requests \ {r} : request'[q] = request[q]
  BY DEF RevokeOld, SessionInv, SessionTypes, RequestRecords, Steps
<1>3. \A q \in Requests : \A k : Carries(q, k)' = Carries(q, k)
  BY <1>1, <1>2 DEF Carries, At
<1>4. \A k : Line(k)' = Line(k)
  BY <1>1, LineKept
<1>5. SessionTypes'
  BY <1>1, <1>2, TypesKept DEF SessionInv
<1>6. ChallengeOnce'
  <2>1. nonce' # 0 => Unused(nonce)'
    BY <1>1, <1>3, <1>4 DEF SessionInv, ChallengeOnce, Unused
  <2>2. ASSUME NEW q \in Requests, At(q, "recordSuccess")'
        PROVE  At(q, "recordSuccess") /\ request'[q] = request[q]
    BY <1>2, <2>2 DEF At
  <2> QED
    BY <1>3, <1>4, <2>1, <2>2 DEF SessionInv, ChallengeOnce
<1>7. RefreshKnowsSession'
  BY <1>1, <1>2 DEF SessionInv, RefreshKnowsSession, At, Sessions
<1>8. Placed(r)'
  <2>1. Placed(r)
    BY DEF SessionInv, OnePlace
  <2> QED
    BY <1>1, <1>2, <1>3, <2>1 DEF Placed, At
<1>9. \A q \in Requests \ {r} : Placed(q)'
  BY <1>1, <1>2, <1>3, PlaceKept DEF SessionInv, OnePlace
<1>10. OneSessionPerLogin'
  BY <1>1, OneSessionKept DEF SessionInv, OnePlace
<1> QED
  BY <1>5, <1>6, <1>7, <1>8, <1>9, <1>10 DEF SessionInv, OnePlace

LEMMA SessionInvInit == Init => SessionInv
<1> SUFFICES ASSUME Init PROVE SessionInv
  OBVIOUS
<1> USE DEF Init, NoRequest, At
<1>1. SessionTypes
  BY SessionAssumption DEF SessionTypes, Sessions, Steps
<1>2. ChallengeOnce /\ RefreshKnowsSession
  BY DEF ChallengeOnce, RefreshKnowsSession
<1>3. OnePlace
  BY DEF OnePlace, OneSessionPerLogin, Placed
<1> QED
  BY <1>1, <1>2, <1>3 DEF SessionInv

LEMMA LoginStepInv ==
    ASSUME SessionInv, NEW r \in Requests, LoginStep(r)
    PROVE  SessionInv'
<1> SUFFICES ASSUME SessionTypes PROVE SessionInv'
  BY DEF SessionInv
<1>1. ASSUME NEW l \in 0 .. MaxChallenges, GetActiveLockout(r, l)
      PROVE  SessionInv'
  <2>1. l \in 0 .. issued /\ 0 \in 0 .. issued
    BY <1>1 DEF GetActiveLockout, SessionTypes
  <2>2. UNCHANGED <<nonce, issued, created, live, login, forked>>
    BY <1>1 DEF GetActiveLockout, nonceVars, sessionVars
  <2>3. CASE Begin(r, "recordLocked", 0, 0)
    <3>1. "recordLocked" \in Steps
      BY DEF Steps
    <3> QED
      BY <2>1, <2>2, <2>3, <3>1, BeginRequest, RequestMoves
  <2>4. CASE Begin(r, "verify", l, 0)
    <3>1. "verify" \in Steps
      BY DEF Steps
    <3> QED
      BY <2>1, <2>2, <2>4, <3>1, BeginRequest, RequestMoves
  <2> QED
    BY <1>1, <2>3, <2>4 DEF GetActiveLockout
<1>2. ASSUME Done(r), UNCHANGED <<nonce, issued, created, live, login, forked>>
      PROVE  SessionInv'
  BY <1>2, DoneRequest, RequestMoves
<1>3. ASSUME NEW step \in {"findRecent", "lock"}, Goto(r, step),
             UNCHANGED <<nonce, issued, created, live, login, forked>>
      PROVE  SessionInv'
  <2>1. step \in Steps /\ step \notin {"verify", "recordSuccess", "revokeOld", "recordSession"}
    BY <1>3 DEF Steps
  <2> QED
    BY <1>3, <2>1, GotoRequest, RequestMoves
<1>4. ASSUME VerifySignature(r)
      PROVE  SessionInv'
  <2>1. At(r, "verify") /\ UNCHANGED <<issued, created, live, login, forked>>
    BY <1>4 DEF VerifySignature, sessionVars
  <2>2. CASE nonce # 0 /\ nonce = request[r].login /\ nonce' = 0 /\ Goto(r, "recordSuccess")
    BY <2>1, <2>2, SignatureStep
  <2>3. CASE nonce' \in {0, nonce} /\ Refuse(r)
    BY <2>1, <2>3, RefuseRequest, RequestMoves
  <2> QED
    BY <1>4, <2>2, <2>3 DEF VerifySignature
<1>5. RecordLocked(r) => SessionInv'
  BY <1>2 DEF RecordLocked, nonceVars, sessionVars
<1>6. RecordFailed(r) => SessionInv'
  BY <1>3 DEF RecordFailed, nonceVars, sessionVars
<1>7. FindRecent(r) => SessionInv'
  BY <1>2, <1>3 DEF FindRecent, nonceVars, sessionVars
<1>8. Lock(r) => SessionInv'
  BY <1>2 DEF Lock, nonceVars, sessionVars
<1> QED
  BY <1>1, <1>4, <1>5, <1>6, <1>7, <1>8, RecordSuccessStep, RecordSessionStep DEF LoginStep

LEMMA SessionStepInv ==
    ASSUME SessionInv, NEW r \in Requests, SessionStep(r)
    PROVE  SessionInv'
<1> SUFFICES ASSUME SessionTypes PROVE SessionInv'
  BY DEF SessionInv
<1>1. ASSUME NEW s \in Sessions, Authenticate(r, s)
      PROVE  SessionInv'
  <2>1. 0 \in 0 .. issued /\ s \in Nat /\ {"revokeSession", "revokeAllExcept"} \subseteq Steps
    BY SessionAssumption DEF SessionTypes, Sessions, Steps
  <2>2. UNCHANGED <<nonce, issued, created, live, login, forked>>
    BY <1>1 DEF Authenticate, nonceVars, sessionVars
  <2>3. CASE Begin(r, "revokeSession", 0, 0)
    BY <2>1, <2>2, <2>3, BeginRequest, RequestMoves
  <2>4. CASE Begin(r, "revokeAllExcept", 0, s)
    BY <2>1, <2>2, <2>4, BeginRequest, RequestMoves
  <2> QED
    BY <1>1, <2>3, <2>4 DEF Authenticate
<1>2. ASSUME Done(r), live' \subseteq live, UNCHANGED <<nonce, issued, created, login, forked>>
      PROVE  SessionInv'
  BY <1>2, DoneRequest, RequestMoves
<1>3. RevokeSession(r) => SessionInv'
  BY <1>2 DEF RevokeSession, nonceVars
<1>4. RevokeAllExcept(r) => SessionInv'
  <2> SUFFICES ASSUME RevokeAllExcept(r) PROVE SessionInv'
    OBVIOUS
  <2>1. live' \subseteq live
    BY DEF RevokeAllExcept
  <2> QED
    BY <1>2, <2>1 DEF RevokeAllExcept, nonceVars
<1> QED
  BY <1>1, <1>3, <1>4, CheckSessionStep, RevokeOldStep DEF SessionStep

LEMMA CrashStep ==
    ASSUME SessionInv, Crash
    PROVE  SessionInv'
<1>1. /\ nonce' = 0 /\ UNCHANGED <<issued, created, live, login, forked>>
      /\ request' = [r \in Requests |-> NoRequest]
  BY DEF Crash, sessionVars
<1>2. \A r \in Requests : request'[r].at = "none"
  BY <1>1 DEF NoRequest
<1>3. request' \in [Requests -> RequestRecords]
  BY <1>1 DEF NoRequest, RequestRecords, Steps, SessionInv, SessionTypes
<1>4. SessionTypes'
  BY <1>1, <1>2, <1>3, TypesKept DEF SessionInv
<1>5. ChallengeOnce' /\ RefreshKnowsSession'
  BY <1>1, <1>2 DEF ChallengeOnce, RefreshKnowsSession, At
<1>6. OnePlace'
  BY <1>1, <1>2, OneSessionKept DEF SessionInv, OnePlace, Placed, At
<1> QED
  BY <1>4, <1>5, <1>6 DEF SessionInv

LEMMA SessionInvStep ==
    ASSUME SessionInv, [Next]_vars
    PROVE  SessionInv'
<1>1. ASSUME NEW r \in Requests, Fail(r)
      PROVE  SessionInv'
  <2>1. Done(r) /\ UNCHANGED <<nonce, issued, created, live, login, forked>> /\ SessionTypes
    BY <1>1 DEF Fail, nonceVars, sessionVars, SessionInv
  <2> QED
    BY <2>1, DoneRequest, RequestMoves
<1>2. ASSUME NEW s \in Sessions, Logout(s)
      PROVE  SessionInv'
  <2>1. live' \subseteq live /\ UNCHANGED <<nonce, issued, created, login, request, forked>>
    BY <1>2 DEF Logout, nonceVars
  <2> QED
    BY <2>1, SessionsDeleted
<1>3. ASSUME NEW n \in 1 .. MaxChallenges, NonceTimer(n)
      PROVE  SessionInv'
  <2>1. nonce' = 0 /\ UNCHANGED <<issued, created, live, login, request, forked>>
    BY <1>3 DEF NonceTimer, sessionVars
  <2> QED
    BY <2>1, SessionsDeleted
<1>4. LockoutEnds \/ UNCHANGED vars => SessionInv'
  BY SessionsDeleted DEF LockoutEnds, vars, nonceVars, sessionVars
<1> QED
  BY <1>1, <1>2, <1>3, <1>4, GetNonceStep, LoginStepInv, SessionStepInv, CrashStep DEF Next

----------------------------------------------------------------------------
(* The theorems *)

LEMMA SessionInvAlways == Spec => []SessionInv
  BY SessionInvInit, SessionInvStep, PTL DEF Spec

\* However refreshes, logouts, failures and deaths of the process interleave, a
\* login has one session at a time unless two refreshes of one token overlapped.
THEOREM OneSession == Spec => []OneSessionPerLogin
<1>1. SessionInv => OneSessionPerLogin
  BY DEF SessionInv, OnePlace
<1> QED
  BY <1>1, SessionInvAlways, PTL

\* A request on the way from one session of a login to the next.
Heads(r, l) == request[r].login = l /\ (At(r, "revokeOld") \/ At(r, "recordSession"))

\* A request that moves to a step without a session keeps nothing alive.
LEMMA NobodyRevived ==
    ASSUME NEW l, NEW r \in Requests, live' \subseteq live, UNCHANGED <<created, login>>,
           request'[r].at \notin {"revokeOld", "recordSession"},
           \A q \in Requests \ {r} : request'[q] = request[q], Alive(l)'
    PROVE  Alive(l)
<1>1. Line(l)' = Line(l)
  BY LineKept
<1>2. \A q \in Requests : Heads(q, l)' => Heads(q, l)
  BY DEF Heads, At
<1> QED
  BY <1>1, <1>2 DEF Alive, Heads

\* Only a signature that was accepted brings a login to life.
LEMMA Revived ==
    ASSUME SessionInv, [Next]_vars, NEW l, Alive(l)'
    PROVE  Alive(l) \/ \E q \in Requests : At(q, "recordSuccess") /\ request[q].login = l
<1> SUFFICES ASSUME SessionTypes
             PROVE  Alive(l) \/ \E q \in Requests : At(q, "recordSuccess") /\ request[q].login = l
  BY DEF SessionInv
<1>1. ASSUME live' \subseteq live, UNCHANGED <<created, login, request>>
      PROVE  Alive(l)
  BY <1>1, LineKept DEF Alive, At
<1>2. ASSUME NEW r \in Requests, Done(r), live' \subseteq live, UNCHANGED <<created, login>>
      PROVE  Alive(l)
  BY <1>2, DoneRequest, NobodyRevived
<1>3. ASSUME NEW r \in Requests, NEW step \in Steps \ {"revokeOld", "recordSession"}, Goto(r, step),
             UNCHANGED <<created, live, login>>
      PROVE  Alive(l)
  BY <1>3, GotoRequest, NobodyRevived
<1>4. ASSUME NEW r \in Requests, NEW step \in Steps \ {"revokeOld", "recordSession"},
             NEW k \in 0 .. issued, NEW s \in Nat, Begin(r, step, k, s),
             UNCHANGED <<created, live, login>>
      PROVE  Alive(l)
  BY <1>4, BeginRequest, NobodyRevived
<1>5. ASSUME NEW r \in Requests, LoginStep(r)
      PROVE  Alive(l) \/ \E q \in Requests : At(q, "recordSuccess") /\ request[q].login = l
  <2>1. ASSUME NEW k \in 0 .. MaxChallenges, GetActiveLockout(r, k)
        PROVE  Alive(l)
    <3>1. k \in 0 .. issued /\ 0 \in 0 .. issued
          /\ {"recordLocked", "verify"} \subseteq Steps \ {"revokeOld", "recordSession"}
      BY <2>1 DEF GetActiveLockout, SessionTypes, Steps
    <3> QED
      BY <1>4, <2>1, <3>1 DEF GetActiveLockout, sessionVars
  <2>2. VerifySignature(r) \/ RecordFailed(r) => Alive(l)
    <3>1. {"recordSuccess", "findRecent"} \subseteq Steps \ {"revokeOld", "recordSession"}
      BY DEF Steps
    <3>2. Refuse(r) /\ UNCHANGED <<created, live, login>> => Alive(l)
      BY RefuseRequest, NobodyRevived
    <3> QED
      BY <1>3, <3>1, <3>2 DEF VerifySignature, RecordFailed, sessionVars
  <2>3. FindRecent(r) => Alive(l)
    <3>1. "lock" \in Steps \ {"revokeOld", "recordSession"}
      BY DEF Steps
    <3> QED
      BY <1>2, <1>3, <3>1 DEF FindRecent, sessionVars
  <2>4. RecordLocked(r) \/ Lock(r) => Alive(l)
    BY <1>2 DEF RecordLocked, Lock, sessionVars
  <2>5. ASSUME RecordSuccess(r)
        PROVE  Alive(l) \/ (At(r, "recordSuccess") /\ request[r].login = l)
    <3>1. /\ request'[r].login = request[r].login
          /\ \A q \in Requests \ {r} : request'[q] = request[q]
      BY <2>5, GotoRequest DEF RecordSuccess, Steps
    <3>2. Line(l)' = Line(l) /\ live' = live /\ At(r, "recordSuccess")
      BY <2>5, LineKept DEF RecordSuccess, sessionVars
    <3> QED
      BY <3>1, <3>2 DEF Alive, At
  <2>6. ASSUME RecordSession(r)
        PROVE  Alive(l)
    <3>1. /\ At(r, "recordSession") /\ created' = created + 1 /\ live' = live \cup {created + 1}
          /\ login' = [login EXCEPT ![created + 1] = request[r].login]
      BY <2>6 DEF RecordSession
    <3>2. CASE request[r].login = l
      BY <3>1, <3>2 DEF Alive
    <3>3. CASE request[r].login # l
      <4>1. created + 1 \in 1 .. MaxSessions /\ created + 1 \notin Sessions
            /\ Sessions' = Sessions \cup {created + 1}
        BY <2>6, <3>1, SessionAssumption DEF RecordSession, SessionTypes, Sessions
      <4>2. Line(l)' \cap live' = Line(l) \cap live
        BY <3>1, <3>3, <4>1 DEF Line, SessionTypes
      <4>3. \A q \in Requests : Heads(q, l)' => Heads(q, l)
        BY <2>6, DoneRequest DEF RecordSession, Heads, At
      <4> QED
        BY <4>2, <4>3 DEF Alive, Heads
    <3> QED
      BY <3>2, <3>3
  <2> QED
    BY <1>5, <2>1, <2>2, <2>3, <2>4, <2>5, <2>6 DEF LoginStep
<1>6. ASSUME NEW r \in Requests, SessionStep(r)
      PROVE  Alive(l)
  <2>1. ASSUME NEW s \in Sessions, CheckSession(r, s)
        PROVE  Alive(l)
    <3>1. login[s] \in 0 .. issued /\ s \in Nat /\ "revokeOld" \in Steps
      BY SessionAssumption DEF SessionTypes, Sessions, Steps
    <3>2. /\ request'[r].login = login[s]
          /\ \A q \in Requests \ {r} : request'[q] = request[q]
      BY <2>1, <3>1, BeginRequest DEF CheckSession
    <3>3. Line(l)' = Line(l) /\ live' = live /\ s \in live
      BY <2>1, LineKept DEF CheckSession, sessionVars
    <3> QED
      BY <3>2, <3>3 DEF Alive, At, Line
  <2>2. ASSUME NEW s \in Sessions, Authenticate(r, s)
        PROVE  Alive(l)
    <3>1. s \in Nat /\ 0 \in 0 .. issued
          /\ {"revokeSession", "revokeAllExcept"} \subseteq Steps \ {"revokeOld", "recordSession"}
      BY SessionAssumption DEF SessionTypes, Sessions, Steps
    <3> QED
      BY <1>4, <2>2, <3>1 DEF Authenticate, sessionVars
  <2>3. ASSUME RevokeOld(r)
        PROVE  Alive(l)
    <3>1. /\ At(r, "revokeOld") /\ request'[r].login = request[r].login
          /\ \A q \in Requests \ {r} : request'[q] = request[q]
      BY <2>3 DEF RevokeOld, SessionTypes
    <3>2. Line(l)' = Line(l) /\ live' \subseteq live
      BY <2>3, LineKept DEF RevokeOld
    <3> QED
      BY <3>1, <3>2 DEF Alive, At
  <2>4. RevokeSession(r) => Alive(l)
    BY <1>2 DEF RevokeSession
  <2>5. RevokeAllExcept(r) => Alive(l)
    <3> SUFFICES ASSUME RevokeAllExcept(r) PROVE Alive(l)
      OBVIOUS
    <3>1. live' \subseteq live
      BY DEF RevokeAllExcept
    <3> QED
      BY <1>2, <3>1 DEF RevokeAllExcept
  <2> QED
    BY <1>6, <2>1, <2>2, <2>3, <2>4, <2>5 DEF SessionStep
<1>7. ASSUME NEW r \in Requests, Fail(r)
      PROVE  Alive(l)
  BY <1>2, <1>7 DEF Fail, sessionVars
<1>8. Crash => Alive(l)
  <2> SUFFICES ASSUME Crash PROVE Alive(l)
    OBVIOUS
  <2>1. Line(l)' = Line(l) /\ live' = live
    BY LineKept DEF Crash, sessionVars
  <2>2. \A q \in Requests : ~At(q, "revokeOld")' /\ ~At(q, "recordSession")'
    BY DEF Crash, At, NoRequest
  <2> QED
    BY <2>1, <2>2 DEF Alive
<1>9. \A s \in Sessions : Logout(s) => Alive(l)
  <2> TAKE s \in Sessions
  <2> SUFFICES ASSUME Logout(s) PROVE Alive(l)
    OBVIOUS
  <2>1. live' \subseteq live
    BY DEF Logout
  <2> QED
    BY <1>1, <2>1 DEF Logout
<1>10. GetNonce \/ LockoutEnds \/ (\E n \in 1 .. MaxChallenges : NonceTimer(n)) => Alive(l)
  BY <1>1 DEF GetNonce, LockoutEnds, NonceTimer, sessionVars
<1>11. UNCHANGED vars => Alive(l)
  BY <1>1 DEF vars, sessionVars
<1> QED
  BY <1>5, <1>6, <1>7, <1>8, <1>9, <1>10, <1>11 DEF Next

\* A login that is signed out everywhere stays out: no refresh that was not on
\* its way, and no second use of its challenge, records a session for it again.
THEOREM SignedOutForGood == Spec => SignedOutStays
<1> DEFINE Step == \A l \in 1 .. issued : Line(l) # {} /\ ~Alive(l) => ~Alive(l)'
<1>1. ASSUME SessionInv, [Next]_vars
      PROVE  [Step]_vars
  <2>1. ASSUME NEW l \in 1 .. issued, Line(l) # {}, ~Alive(l), Alive(l)'
        PROVE  FALSE
    <3>1. PICK q \in Requests : At(q, "recordSuccess") /\ request[q].login = l
      BY <1>1, <2>1, Revived
    <3> QED
      BY <1>1, <2>1, <3>1 DEF SessionInv, ChallengeOnce
  <2> QED
    BY <2>1
<1> QED
  BY <1>1, SessionInvAlways, PTL DEF Spec, SignedOutStays

----------------------------------------------------------------------------
(* The lockout *)

Entries == {"success", "failed", "locked"}

AttemptsTyped == recent \in Seq(Entries)

\* A request that has recorded a failure and is not through with the lockout.
Deciding(r) == At(r, "findRecent") \/ At(r, "lock")

NewestFailed == AllFailed(recent) /\ recent[1] = "failed"

\* The inductive invariant: an address whose newest attempts have failed is
\* locked or excused, or a request that will look at those attempts is on its way.
LockoutInv ==
    /\ AttemptsTyped
    /\ NewestFailed => locked \/ excused \/ \E r \in Requests : Deciding(r)

\* The newest row is the one that was written last.
LEMMA LoggedNewest ==
    ASSUME AttemptsTyped, NEW entry \in Entries, Logged(entry)
    PROVE  AttemptsTyped' /\ recent' # <<>> /\ recent'[1] = entry
<1>1. CASE Len(recent) < Threshold
  BY <1>1 DEF Logged, AttemptsTyped
<1>2. CASE ~(Len(recent) < Threshold)
  <2>1. SubSeq(recent, 1, Threshold - 1) \in Seq(Entries)
    BY <1>2, SessionAssumption DEF AttemptsTyped
  <2> QED
    BY <1>2, <2>1 DEF Logged, AttemptsTyped
<1> QED
  BY <1>1, <1>2

\* Nothing is decided while the attempts and the lockout stay and no request
\* leaves the decision.
LEMMA LockoutKept ==
    ASSUME LockoutInv, UNCHANGED recent, locked' = locked, excused => excused',
           \A r \in Requests : Deciding(r) => Deciding(r)'
    PROVE  LockoutInv'
  BY DEF LockoutInv, AttemptsTyped, NewestFailed, AllFailed

LEMMA DoneDeciding ==
    ASSUME SessionTypes, NEW r \in Requests, Done(r), ~Deciding(r)
    PROVE  \A q \in Requests : Deciding(q) => Deciding(q)'
  BY DoneRequest DEF Deciding, At

LEMMA GotoDeciding ==
    ASSUME SessionTypes, NEW r \in Requests, NEW step \in Steps, Goto(r, step), ~Deciding(r)
    PROVE  \A q \in Requests : Deciding(q) => Deciding(q)'
  BY GotoRequest DEF Deciding, At

LEMMA RefuseDeciding ==
    ASSUME SessionTypes, NEW r \in Requests, Refuse(r), ~Deciding(r)
    PROVE  \A q \in Requests : Deciding(q) => Deciding(q)'
  BY RefuseRequest DEF Deciding, At

LEMMA BeginDeciding ==
    ASSUME SessionTypes, NEW r \in Requests, NEW step, NEW l, NEW s, Begin(r, step, l, s)
    PROVE  \A q \in Requests : Deciding(q) => Deciding(q)'
  BY DEF Begin, Deciding, At, SessionTypes

LEMMA LockoutLoginStep ==
    ASSUME SessionTypes, LockoutInv, NEW r \in Requests, LoginStep(r)
    PROVE  LockoutInv'
<1>1. ASSUME NEW l \in 0 .. MaxChallenges, GetActiveLockout(r, l)
      PROVE  LockoutInv'
  BY <1>1, BeginDeciding, LockoutKept DEF GetActiveLockout, lockoutVars
<1>2. CASE RecordLocked(r)
  <2>1. /\ Logged("locked") \/ UNCHANGED recent
        /\ Done(r) /\ ~Deciding(r) /\ UNCHANGED <<locked, excused>>
    BY <1>2 DEF RecordLocked, Deciding, At
  <2>2. CASE Logged("locked")
    BY <2>2, LoggedNewest DEF LockoutInv, NewestFailed, Entries
  <2> QED
    BY <2>1, <2>2, DoneDeciding, LockoutKept
<1>3. CASE VerifySignature(r)
  <2>1. UNCHANGED <<recent, locked, excused>> /\ ~Deciding(r)
    BY <1>3 DEF VerifySignature, lockoutVars, Deciding, At
  <2>2. Goto(r, "recordSuccess") \/ Refuse(r)
    BY <1>3 DEF VerifySignature
  <2>3. "recordSuccess" \in Steps
    BY DEF Steps
  <2>4. \A q \in Requests : Deciding(q) => Deciding(q)'
    BY <2>1, <2>2, <2>3, GotoDeciding, RefuseDeciding
  <2> QED
    BY <2>1, <2>4, LockoutKept
<1>4. CASE RecordFailed(r)
  <2>1. Logged("failed") \/ UNCHANGED recent
    BY <1>4 DEF RecordFailed
  <2>2. AttemptsTyped'
    BY <2>1, LoggedNewest DEF LockoutInv, AttemptsTyped, Entries
  <2>3. Deciding(r)'
    BY <1>4, GotoRequest DEF RecordFailed, Deciding, At, Steps
  <2> QED
    BY <2>2, <2>3 DEF LockoutInv
<1>5. CASE FindRecent(r)
  <2>1. UNCHANGED <<recent, locked, excused>> /\ AttemptsTyped'
    BY <1>5 DEF FindRecent, lockoutVars, LockoutInv, AttemptsTyped
  <2>2. CASE AllFailed(recent)
    <3>1. Deciding(r)'
      BY <1>5, <2>2, GotoRequest DEF FindRecent, Deciding, At, Steps
    <3> QED
      BY <2>1, <3>1 DEF LockoutInv
  <2>3. CASE ~AllFailed(recent)
    BY <2>1, <2>3 DEF LockoutInv, NewestFailed, AllFailed
  <2> QED
    BY <2>2, <2>3
<1>6. CASE Lock(r)
  BY <1>6 DEF Lock, LockoutInv, AttemptsTyped
<1>7. CASE RecordSuccess(r)
  <2>1. CASE Logged("success")
    BY <2>1, LoggedNewest DEF LockoutInv, NewestFailed, Entries
  <2>2. CASE UNCHANGED <<recent, excused>>
    <3>1. Goto(r, "recordSession") /\ "recordSession" \in Steps /\ ~Deciding(r) /\ locked' = locked
      BY <1>7 DEF RecordSuccess, Deciding, At, Steps
    <3> QED
      BY <2>2, <3>1, GotoDeciding, LockoutKept
  <2> QED
    BY <1>7, <2>1, <2>2 DEF RecordSuccess
<1>8. CASE RecordSession(r)
  <2>1. Done(r) /\ ~Deciding(r) /\ UNCHANGED <<recent, locked, excused>>
    BY <1>8 DEF RecordSession, lockoutVars, Deciding, At
  <2> QED
    BY <2>1, DoneDeciding, LockoutKept
<1> QED
  BY <1>1, <1>2, <1>3, <1>4, <1>5, <1>6, <1>7, <1>8 DEF LoginStep

LEMMA LockoutSessionStep ==
    ASSUME SessionTypes, LockoutInv, NEW r \in Requests, SessionStep(r)
    PROVE  LockoutInv'
<1>1. UNCHANGED <<recent, locked, excused>>
  BY DEF SessionStep, CheckSession, Authenticate, RevokeOld, RevokeSession, RevokeAllExcept,
         lockoutVars
<1>2. ASSUME NEW s \in Sessions, CheckSession(r, s) \/ Authenticate(r, s)
      PROVE  \A q \in Requests : Deciding(q) => Deciding(q)'
  BY <1>2, BeginDeciding DEF CheckSession, Authenticate
<1>3. RevokeOld(r) => \A q \in Requests : Deciding(q) => Deciding(q)'
  BY DEF RevokeOld, Deciding, At, SessionTypes
<1>4. RevokeSession(r) \/ RevokeAllExcept(r) => \A q \in Requests : Deciding(q) => Deciding(q)'
  <2>1. RevokeSession(r) \/ RevokeAllExcept(r) => Done(r) /\ ~Deciding(r)
    BY DEF RevokeSession, RevokeAllExcept, Deciding, At
  <2> QED
    BY <2>1, DoneDeciding
<1>5. \A q \in Requests : Deciding(q) => Deciding(q)'
  BY <1>2, <1>3, <1>4 DEF SessionStep
<1> QED
  BY <1>1, <1>5, LockoutKept

LEMMA LockoutInvStep ==
    ASSUME SessionTypes, LockoutInv, [Next]_vars
    PROVE  LockoutInv'
<1>1. ASSUME NEW r \in Requests, Fail(r)
      PROVE  LockoutInv'
  <2>1. Done(r) /\ UNCHANGED <<recent, locked>> /\ excused' = (excused \/ Deciding(r))
    BY <1>1 DEF Fail, lockoutVars, Deciding
  <2>2. CASE Deciding(r)
    BY <2>1, <2>2 DEF LockoutInv, AttemptsTyped
  <2>3. CASE ~Deciding(r)
    BY <2>1, <2>3, DoneDeciding, LockoutKept
  <2> QED
    BY <2>2, <2>3
<1>2. CASE LockoutEnds \/ Crash
  BY <1>2 DEF LockoutEnds, Crash, lockoutVars, LockoutInv, AttemptsTyped
<1>3. ASSUME UNCHANGED <<recent, locked, excused, request>>
      PROVE  LockoutInv'
  BY <1>3, LockoutKept DEF Deciding, At
<1>4. CASE \/ GetNonce \/ UNCHANGED vars
           \/ \E s \in Sessions : Logout(s)
           \/ \E n \in 1 .. MaxChallenges : NonceTimer(n)
  BY <1>3, <1>4 DEF GetNonce, Logout, NonceTimer, vars, lockoutVars
<1> QED
  BY <1>1, <1>2, <1>4, LockoutLoginStep, LockoutSessionStep DEF Next

\* "locks the address after 5 in a row": however the requests that record
\* failures interleave with each other, with logins and with deaths of the
\* process, the last one of them to be through leaves the address locked, unless
\* the lockout is over or a write of it failed.
THEOREM FiveFailures == Spec => []FiveFailuresLock
<1>1. Init => LockoutInv
  BY SessionAssumption DEF Init, LockoutInv, AttemptsTyped, NewestFailed, AllFailed
<1>2. SessionInv /\ LockoutInv /\ [Next]_vars => LockoutInv'
  BY LockoutInvStep DEF SessionInv
<1>3. LockoutInv => FiveFailuresLock
  BY DEF LockoutInv, NewestFailed, FiveFailuresLock, Deciding
<1> QED
  BY <1>1, <1>2, <1>3, SessionInvAlways, PTL DEF Spec
=============================================================================
