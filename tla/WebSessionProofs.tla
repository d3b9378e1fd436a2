--------------------------- MODULE WebSessionProofs ---------------------------
(***************************************************************************)
(* For any number of accounts, sessions and requests: the types, the bound *)
(* on how long a session that ended is still honoured, that the screen is  *)
(* about the session the browser holds, and that the polls after a change  *)
(* of password outlast the gateway's cache.                                *)
(*                                                                         *)
(* SessionInv: what a request and a cache entry know of the sessions.      *)
(* ScreenInv:  what an answer under way says is so as long as it left      *)
(*             under the cookie of now; a login's token is nobody else's.  *)
(* PollInv:    while the form polls, all that says the password is still   *)
(*             to be changed is older than the change.                     *)
(***************************************************************************)
EXTENDS WebSession, TLAPS

(* The part of the types that is the browser's. *)
BrowserTypeOK ==
    /\ cookie \in Tokens \cup {None}
    /\ status \in Statuses
    /\ user \in Staff \cup {None}
    /\ page \in Pages
    /\ poll \in [on : BOOLEAN, wake : 0..(MaxTime + 1), deadline : 0..(MaxTime + PollFor)]
    /\ alert \in {"none", "stale", "failed"}
    /\ excuse \subseteq {"crossed", "validation", "logout", "password"}
    /\ faults \in 0..MaxFaults

(* An answer of Identity's that is under way was true within this tick,     *)
(* unless validations may be slow.                                          *)
RecentlyEnded(t) == session[t].state = "ended" => session[t].ended = now

RequestSound(k) ==
    LET r == request[k] IN
    /\ r.phase = "validated" =>
          /\ r.token \in Tokens /\ r.principal # "absent"
          /\ session[r.token].state # "unused"
          /\ ~Slow => RecentlyEnded(r.token)
    /\ k = "login" /\ r.phase \in {"sent", "validated"} => r.who \in Staff

TokenSound(t) ==
    /\ session[t].state # "unused" => session[t].owner \in Staff
    /\ session[t].state = "unused" => cache[t].principal = "absent"
    /\ cache[t].expires =< now + TTL
    /\ ~Slow /\ session[t].state = "ended" /\ cache[t].principal # "absent" =>
          cache[t].expires =< session[t].ended + TTL

SessionInv ==
    /\ SessionTypeOK
    /\ \A k \in Kinds : RequestSound(k)
    /\ \A t \in Tokens : TokenSound(t)
-----------------------------------------------------------------------------
(* What a step may do to the sessions, to the cache and to the requests.    *)
SessionStep ==
    /\ session' \in [Tokens -> [state : {"unused", "live", "ended"}, owner : Staff \cup {None},
                                ended : 0..MaxTime]]
    /\ \A t \in Tokens :
          \/ session'[t] = session[t]
          \/ /\ session[t].state = "unused" /\ session'[t].state = "live"
             /\ session'[t].owner \in Staff
          \/ /\ session[t].state = "live" /\ session'[t].state = "ended"
             /\ session'[t].owner = session[t].owner /\ session'[t].ended = now

CacheStep ==
    /\ cache' \in [Tokens -> [principal : Principals, expires : 0..(MaxTime + TTL)]]
    /\ \A t \in Tokens :
          \/ cache'[t] = cache[t]
          \/ /\ cache'[t].expires = now + TTL
             /\ session[t].state # "unused"
             /\ ~Slow => RecentlyEnded(t)

RequestStep ==
    /\ request' \in [Kinds -> Request]
    /\ \A k \in Kinds :
          \/ request'[k] = request[k]
          \/ /\ request'[k].phase # "validated"
             /\ k = "login" /\ request'[k].phase = "sent" => request'[k].who \in Staff
          \/ /\ request[k].phase = "sent" /\ request'[k].who = request[k].who
             /\ request'[k].token \in Tokens /\ request'[k].principal # "absent"
             /\ session[request'[k].token].state = "live"

ServerUnchanged == UNCHANGED serverVars
BrowserUnchanged == UNCHANGED <<browserVars, faults>>
-----------------------------------------------------------------------------
(* Any step that takes no time and keeps to these keeps the invariant. *)
LEMMA StepKeepsInv ==
    ASSUME SessionInv, now' = now, SessionStep, CacheStep, RequestStep,
           mustChange' \in [Staff -> BOOLEAN], BrowserTypeOK'
    PROVE  SessionInv'
<1> USE DEF SessionInv
<1>1. SessionTypeOK'
  BY DEF SessionTypeOK, BrowserTypeOK, SessionStep, CacheStep, RequestStep
<1>2. ASSUME NEW t \in Tokens PROVE TokenSound(t)'
  <2>1. now \in Nat /\ TTL \in Nat /\ session[t].ended \in Nat
    BY SessionAssumption DEF SessionTypeOK
  <2>2. TokenSound(t)
    OBVIOUS
  <2>3. cache[t].expires \in Nat /\ cache'[t].expires \in Nat
    BY SessionAssumption DEF CacheStep, SessionTypeOK
  <2>4. CASE cache'[t] = cache[t]
    BY <2>1, <2>2, <2>3, <2>4 DEF SessionStep, TokenSound
  <2>5. CASE /\ cache'[t].expires = now + TTL
             /\ session[t].state # "unused"
             /\ ~Slow => RecentlyEnded(t)
    BY <2>1, <2>2, <2>3, <2>5 DEF SessionStep, TokenSound, RecentlyEnded
  <2> QED BY <2>4, <2>5 DEF CacheStep
<1>3. ASSUME NEW k \in Kinds PROVE RequestSound(k)'
  <2>1. RequestSound(k)
    OBVIOUS
  <2>2. ASSUME NEW t \in Tokens, session[t].state # "unused", ~Slow => RecentlyEnded(t)
        PROVE  session'[t].state # "unused" /\ (~Slow => RecentlyEnded(t)')
    BY <2>2 DEF SessionStep, RecentlyEnded
  <2>3. CASE request'[k] = request[k]
    BY <2>1, <2>2, <2>3 DEF RequestSound
  <2>4. CASE /\ request'[k].phase # "validated"
             /\ k = "login" /\ request'[k].phase = "sent" => request'[k].who \in Staff
    BY <2>4 DEF RequestSound
  <2>5. CASE /\ request[k].phase = "sent" /\ request'[k].who = request[k].who
             /\ request'[k].token \in Tokens /\ request'[k].principal # "absent"
             /\ session[request'[k].token].state = "live"
    <3>1. PICK t \in Tokens : t = request'[k].token
      BY <2>5
    <3>2. ~Slow => RecentlyEnded(t)
      BY <2>5, <3>1 DEF RecentlyEnded
    <3>3. session'[t].state # "unused" /\ (~Slow => RecentlyEnded(t)')
      BY <2>2, <2>5, <3>1, <3>2
    <3> QED BY <2>1, <2>5, <3>1, <3>3 DEF RequestSound, RecentlyEnded
  <2> QED BY <2>3, <2>4, <2>5 DEF RequestStep
<1> QED BY <1>1, <1>2, <1>3

(* A step of the browser alone. *)
LEMMA BrowserKeepsInv ==
    ASSUME SessionInv, ServerUnchanged, RequestStep, BrowserTypeOK'
    PROVE  SessionInv'
<1>1. SessionStep /\ CacheStep /\ now' = now /\ mustChange' \in [Staff -> BOOLEAN]
  BY DEF ServerUnchanged, serverVars, SessionInv, SessionTypeOK, SessionStep, CacheStep
<1> QED BY <1>1, StepKeepsInv

LEMMA InitInv == Init => SessionInv
<1> SUFFICES ASSUME Init PROVE SessionInv
  OBVIOUS
<1>1. (CHOOSE u \in Tokens : TRUE) \in Tokens
  BY SessionAssumption
<1>2. cookie \in Tokens \cup {None}
  BY <1>1 DEF Init
<1>3. SessionTypeOK
  <2>1. /\ now \in 0..MaxTime /\ faults \in 0..MaxFaults /\ 0 \in 0..(MaxTime + TTL)
        /\ 0 \in 0..(MaxTime + 1) /\ 0 \in 0..(MaxTime + PollFor)
    BY SessionAssumption DEF Init
  <2>2. session \in [Tokens -> [state : {"unused", "live", "ended"}, owner : Staff \cup {None},
                                ended : 0..MaxTime]]
    BY <1>1, <2>1 DEF Init
  <2>3. cache \in [Tokens -> [principal : Principals, expires : 0..(MaxTime + TTL)]]
    BY <2>1 DEF Init, NotCached, Principals
  <2>4. request \in [Kinds -> Request]
    BY <1>2 DEF Init, SentNow, Idle, Request, Phases, Principals, Answers
  <2>5. poll \in [on : BOOLEAN, wake : 0..(MaxTime + 1), deadline : 0..(MaxTime + PollFor)]
    BY <2>1 DEF Init, NotPolling
  <2>6. mustChange \in [Staff -> BOOLEAN]
    BY DEF Init
  <2> QED BY <1>2, <2>1, <2>2, <2>3, <2>4, <2>5, <2>6 DEF Init, SessionTypeOK, Statuses, Pages
<1>4. \A t \in Tokens : TokenSound(t)
  BY <1>1, SessionAssumption DEF Init, TokenSound, NotCached
<1>5. \A k \in Kinds : RequestSound(k)
  BY DEF Init, RequestSound, Idle, SentNow
<1> QED BY <1>3, <1>4, <1>5 DEF SessionInv
-----------------------------------------------------------------------------
(* One request that changes, none that becomes validated. *)
LEMMA OneRequest ==
    ASSUME SessionInv, NEW k \in Kinds, NEW r \in Request,
           request' = [request EXCEPT ![k] = r],
           r.phase # "validated",
           k = "login" /\ r.phase = "sent" => r.who \in Staff
    PROVE  RequestStep
BY DEF SessionInv, SessionTypeOK, RequestStep

LEMMA RequestTypes ==
    /\ Idle \in Request /\ Idle.phase = "idle"
    /\ \A c \in Tokens \cup {None} :
          /\ SentNow(c) \in Request /\ SentNow(c).phase = "sent"
          /\ \A s \in Staff : /\ [SentNow(c) EXCEPT !.who = s] \in Request
                              /\ [SentNow(c) EXCEPT !.who = s].phase = "sent"
                              /\ [SentNow(c) EXCEPT !.who = s].who = s
BY DEF Idle, SentNow, Request, Phases, Principals, Answers

LEMMA RedirectTypes ==
    \A p \in Pages : \A st : RedirectFrom(p, st) \in Pages
BY DEF Pages, RedirectFrom, LeaveApp, LeaveLogin, LeaveChangePassword

(* Show with requests that are as RequestStep wants them. *)
LEMMA ShowStep ==
    ASSUME SessionInv, NEW st \in Statuses, NEW u \in Staff \cup {None},
           NEW c \in Tokens \cup {None}, NEW p \in Pages, NEW k \in Kinds,
           NEW req, req = request \/ req = [request EXCEPT ![k] = Idle],
           Show(st, u, c, p, req)
    PROVE  /\ RequestStep
           /\ status' \in Statuses /\ user' \in Staff \cup {None}
           /\ cookie' \in Tokens \cup {None} /\ page' \in Pages
           /\ alert' \in {"none", "stale", "failed"}
<1>1. request \in [Kinds -> Request] /\ alert \in {"none", "stale", "failed"}
  BY DEF SessionInv, SessionTypeOK
<1>2. RedirectFrom(p, st) \in Pages
  BY RedirectTypes
<1>3. /\ status' = st /\ user' = u /\ cookie' = c /\ page' = RedirectFrom(p, st)
      /\ alert' \in {alert, "none"}
  BY DEF Show
<1>4. RequestStep
  <2>1. req \in [Kinds -> Request] /\ \A j \in Kinds : req[j] = request[j] \/ req[j] = Idle
    BY <1>1, RequestTypes
  <2>2. request' = req \/ \E l \in Loads : request' = [req EXCEPT ![l] = SentNow(c)]
    BY DEF Show, Opened, FreeLoad
  <2>3. \A j \in Kinds : request'[j] \in Request
                       /\ (request'[j] = request[j] \/ request'[j] = Idle
                           \/ (j # "login" /\ request'[j] = SentNow(c)))
    <3>1. Loads \subseteq Kinds /\ "login" \notin Loads
      BY SessionAssumption DEF Kinds
    <3> QED BY <2>1, <2>2, <3>1, RequestTypes
  <2>4. request' \in [Kinds -> Request]
    <3>1. Loads \subseteq Kinds
      BY DEF Kinds
    <3> QED BY <2>1, <2>2, <3>1, RequestTypes
  <2> QED BY <2>3, <2>4, RequestTypes DEF RequestStep
<1> QED BY <1>1, <1>2, <1>3, <1>4
-----------------------------------------------------------------------------
LEMMA PersonStep ==
    ASSUME SessionInv, Person PROVE SessionInv'
<1> USE DEF ServerUnchanged, serverVars, browserVars
<1>1. SessionTypeOK
  BY DEF SessionInv
<1>2. {"boot", "login", "logout", "change", "poll"} \subseteq Kinds /\ Loads \subseteq Kinds
  BY DEF Kinds
<1>3. "login" \notin Loads
  BY SessionAssumption
<1>4. ASSUME NEW s \in Staff, SubmitSignIn(s) PROVE SessionInv'
  <2>1. PICK r \in Request : /\ request' = [request EXCEPT !["login"] = r]
                             /\ r.phase = "sent" /\ r.who \in Staff
    <3>1. cookie \in Tokens \cup {None}
      BY <1>1 DEF SessionTypeOK
    <3>2. request' = [request EXCEPT !["login"] = [SentNow(cookie) EXCEPT !.who = s]]
      BY <1>4 DEF SubmitSignIn
    <3> DEFINE q == [SentNow(cookie) EXCEPT !.who = s]
    <3>3. q \in Request /\ q.phase = "sent" /\ q.who \in Staff
      BY <3>1, RequestTypes
    <3> HIDE DEF q
    <3> QED BY <3>2, <3>3 DEF q
  <2>2. RequestStep
    BY <1>1, <1>2, <2>1, OneRequest
  <2> QED BY <1>1, <1>4, <2>2, BrowserKeepsInv DEF SubmitSignIn, BrowserTypeOK, SessionTypeOK
<1>5. CASE SignOut
  <2>1. RequestStep
    BY <1>1, <1>2, <1>5, OneRequest, RequestTypes DEF SignOut, SessionTypeOK
  <2> QED BY <1>1, <1>5, <2>1, BrowserKeepsInv DEF SignOut, BrowserTypeOK, SessionTypeOK
<1>6. CASE SubmitChange
  <2>1. RequestStep
    BY <1>1, <1>2, <1>6, OneRequest, RequestTypes DEF SubmitChange, SessionTypeOK
  <2> QED BY <1>1, <1>6, <2>1, BrowserKeepsInv DEF SubmitChange, BrowserTypeOK, SessionTypeOK
<1>7. CASE OpenChangePassword
  <2>1. RequestStep
    BY <1>1, <1>7 DEF OpenChangePassword, RequestStep, SessionTypeOK
  <2> QED BY <1>1, <1>7, <2>1, BrowserKeepsInv
          DEF OpenChangePassword, BrowserTypeOK, SessionTypeOK, Pages
<1>8. CASE Cancel
  <2>1. Show(status, user, cookie, "app", request)
    BY <1>8 DEF Cancel
  <2>2. /\ status \in Statuses /\ user \in Staff \cup {None} /\ cookie \in Tokens \cup {None}
        /\ "app" \in Pages
    BY <1>1 DEF SessionTypeOK, Pages
  <2>3. /\ RequestStep
        /\ status' \in Statuses /\ user' \in Staff \cup {None}
        /\ cookie' \in Tokens \cup {None} /\ page' \in Pages
        /\ alert' \in {"none", "stale", "failed"}
    BY <1>2, <2>1, <2>2, ShowStep
  <2> QED BY <1>1, <1>8, <2>3, BrowserKeepsInv DEF Cancel, BrowserTypeOK, SessionTypeOK
<1>9. CASE TryAgain
  <2>1. RequestStep
    BY <1>1, <1>2, <1>9, OneRequest, RequestTypes DEF TryAgain, SessionTypeOK
  <2> QED BY <1>1, <1>9, <2>1, BrowserKeepsInv DEF TryAgain, BrowserTypeOK, SessionTypeOK, Statuses
<1>10. ASSUME NEW l \in Loads, Load(l) PROVE SessionInv'
  <2>1. RequestStep
    BY <1>1, <1>2, <1>3, <1>10, OneRequest, RequestTypes DEF Load, SessionTypeOK
  <2> QED BY <1>1, <1>10, <2>1, BrowserKeepsInv DEF Load, BrowserTypeOK, SessionTypeOK
<1>11. CASE Refresh
  <2>1. RequestStep
    BY <1>1, <1>11, RequestTypes DEF Refresh, RequestStep, SessionTypeOK
  <2> QED BY <1>1, <1>11, <2>1, BrowserKeepsInv DEF Refresh, BrowserTypeOK, SessionTypeOK, Statuses
<1> QED BY <1>4, <1>5, <1>6, <1>7, <1>8, <1>9, <1>10, <1>11 DEF Person
-----------------------------------------------------------------------------
(* What the gateway knows of a request it passes on. *)
LEMMA PrincipalFacts ==
    ASSUME SessionInv, NEW k \in Kinds, Resolved(k), Principal(k) # "absent"
    PROVE  /\ request[k].token \in Tokens
           /\ session[request[k].token].owner \in Staff
           /\ Principal(k) \in Principals
<1> DEFINE t == request[k].token
<1>1. /\ request[k] \in Request /\ RequestSound(k)
      /\ \A u \in Tokens : TokenSound(u) /\ cache[u].principal \in Principals
  BY DEF SessionInv, SessionTypeOK
<1>2. CASE request[k].phase = "validated"
  BY <1>1, <1>2 DEF RequestSound, TokenSound, Principal, Request
<1>3. CASE request[k].phase # "validated"
  <2>1. Cached(t) /\ Principal(k) = cache[t].principal
    BY <1>3 DEF Principal
  <2>2. t \in Tokens
    BY <1>1, <2>1 DEF Cached, Request
  <2> QED BY <1>1, <2>1, <2>2 DEF Cached, TokenSound
<1> QED BY <1>2, <1>3

LEMMA AdmitStep ==
    ASSUME SessionInv, NEW k \in Kinds, Admit(k)
    PROVE  CacheStep
<1>1. /\ request[k] \in Request /\ RequestSound(k)
      /\ cache \in [Tokens -> [principal : Principals, expires : 0..(MaxTime + TTL)]]
      /\ now + TTL \in 0..(MaxTime + TTL)
  BY SessionAssumption DEF SessionInv, SessionTypeOK
<1>2. CASE request[k].phase = "validated"
  <2>1. PICK t \in Tokens : t = request[k].token /\ session[t].state # "unused"
                            /\ (~Slow => RecentlyEnded(t))
    BY <1>1, <1>2 DEF RequestSound
  <2>2. PICK e \in [principal : Principals, expires : 0..(MaxTime + TTL)] :
           cache' = [cache EXCEPT ![t] = e] /\ e.expires = now + TTL
    <3> DEFINE e == [principal |-> request[k].principal, expires |-> now + TTL]
    <3>1. e \in [principal : Principals, expires : 0..(MaxTime + TTL)] /\ e.expires = now + TTL
      BY <1>1 DEF Request
    <3>2. cache' = [cache EXCEPT ![t] = e]
      BY <1>2, <2>1 DEF Admit
    <3> QED BY <3>1, <3>2
  <2> QED BY <1>1, <2>1, <2>2 DEF CacheStep
<1>3. CASE request[k].phase # "validated"
  BY <1>1, <1>3 DEF Admit, CacheStep
<1> QED BY <1>2, <1>3

(* An answer, whatever it is. *)
LEMMA AnswerStep ==
    ASSUME SessionInv, NEW k \in Kinds, NEW a \in Answers, Answer(k, a)
    PROVE  RequestStep
<1>1. request[k] \in Request
  BY DEF SessionInv, SessionTypeOK
<1>2. PICK r \in Request : r.phase = "answered" /\ request' = [request EXCEPT ![k] = r]
  <2> DEFINE r == [request[k] EXCEPT !.phase = "answered", !.principal = "absent", !.answer = a]
  <2>1. r \in Request /\ r.phase = "answered"
    BY <1>1 DEF Request, Phases, Principals
  <2>2. request' = [request EXCEPT ![k] = r]
    BY DEF Answer, SessionInv, SessionTypeOK
  <2> QED BY <2>1, <2>2
<1> QED BY <1>2, OneRequest

(* A service that answers: what is left to show of its step. *)
LEMMA ServeStep ==
    ASSUME SessionInv, NEW k \in Kinds, Admit(k), now' = now, BrowserUnchanged,
           RequestStep, SessionStep, mustChange' \in [Staff -> BOOLEAN]
    PROVE  SessionInv'
<1>1. CacheStep
  BY AdmitStep
<1>2. BrowserTypeOK'
  BY DEF SessionInv, SessionTypeOK, BrowserTypeOK, BrowserUnchanged, browserVars
<1> QED BY <1>1, <1>2, StepKeepsInv

LEMMA UnchangedSession ==
    ASSUME SessionInv, UNCHANGED session PROVE SessionStep
BY DEF SessionInv, SessionTypeOK, SessionStep

(* A live session that ends now. *)
LEMMA EndedStep ==
    ASSUME SessionInv, NEW t \in Tokens, session[t].state = "live", session' = Ended(t)
    PROVE  SessionStep
<1> DEFINE r == [session[t] EXCEPT !.state = "ended", !.ended = now]
<1>1. /\ session \in [Tokens -> [state : {"unused", "live", "ended"}, owner : Staff \cup {None},
                                 ended : 0..MaxTime]]
      /\ now \in 0..MaxTime
  BY DEF SessionInv, SessionTypeOK
<1>2. session' = [session EXCEPT ![t] = r]
  BY <1>1 DEF Ended
<1>3. /\ r \in [state : {"unused", "live", "ended"}, owner : Staff \cup {None}, ended : 0..MaxTime]
      /\ r.state = "ended" /\ r.owner = session[t].owner /\ r.ended = now
  BY <1>1
<1> QED BY <1>1, <1>2, <1>3 DEF SessionStep
-----------------------------------------------------------------------------
LEMMA NetworkStep ==
    ASSUME SessionInv, NEW k \in Kinds, Network(k) PROVE SessionInv'
<1>1. SessionTypeOK /\ request[k] \in Request
  BY DEF SessionInv, SessionTypeOK
<1>2. CASE Validate(k)
  <2> DEFINE t == request[k].token
  <2>1. /\ request[k].phase = "sent" /\ Validated(t) # "absent"
        /\ request' = [request EXCEPT ![k].phase = "validated", ![k].principal = Validated(t)]
        /\ ServerUnchanged /\ BrowserUnchanged
    BY <1>2 DEF Validate, ServerUnchanged, BrowserUnchanged
  <2>2. t \in Tokens /\ session[t].state = "live" /\ Validated(t) \in Principals
    BY <1>1, <2>1 DEF Validated, Request, Principals
  <2> DEFINE r == [request[k] EXCEPT !.phase = "validated", !.principal = Validated(t)]
  <2>3. /\ r \in Request /\ r.token = t /\ r.who = request[k].who
        /\ r.principal = Validated(t)
    BY <1>1, <2>2 DEF Request, Phases
  <2>4. request' = [request EXCEPT ![k] = r]
    BY <1>1, <2>1 DEF SessionTypeOK
  <2>5. RequestStep
    <3>1. request' \in [Kinds -> Request] /\ \A j \in Kinds : j = k \/ request'[j] = request[j]
      <4> HIDE DEF r
      <4> QED BY <1>1, <2>3, <2>4 DEF SessionTypeOK
    <3>2. /\ request'[k].who = request[k].who /\ request'[k].token = t
          /\ request'[k].principal = Validated(t)
      <4>1. request'[k] = r
        BY <1>1, <2>4 DEF SessionTypeOK
      <4> HIDE DEF r
      <4> QED BY <2>3, <4>1
    <3>3. session[request'[k].token].state = "live" /\ request'[k].token \in Tokens
      BY <2>2, <3>2
    <3> HIDE DEF t
    <3> QED BY <2>1, <3>1, <3>2, <3>3 DEF RequestStep
  <2> QED BY <1>1, <2>1, <2>5, BrowserKeepsInv
          DEF BrowserUnchanged, browserVars, BrowserTypeOK, SessionTypeOK
<1>3. CASE ServeMe(k)
  <2> DEFINE row == session[request[k].token]
             owner == row.owner
  <2>1. /\ Admit(k) /\ Resolved(k) /\ now' = now /\ session' = session
        /\ mustChange' = mustChange /\ BrowserUnchanged /\ k # "login"
    BY <1>3 DEF ServeMe, BrowserUnchanged
  <2>2. CASE Principal(k) = "absent"
    <3>1. Answer(k, "unauthenticated")
      BY <1>3, <2>2 DEF ServeMe
    <3> QED BY <1>1, <2>1, <3>1, AnswerStep, ServeStep, UnchangedSession DEF Answers, SessionTypeOK
  <2>3. CASE Principal(k) = "must"
    <3>1. Answer(k, "password_change_required")
      BY <1>3, <2>3 DEF ServeMe
    <3> QED BY <1>1, <2>1, <3>1, AnswerStep, ServeStep, UnchangedSession DEF Answers, SessionTypeOK
  <2>4. CASE /\ Principal(k) = "free"
             /\ request' = [request EXCEPT ![k] =
                   [@ EXCEPT !.phase = "answered", !.principal = "absent", !.answer = "ok",
                             !.who = owner, !.must = mustChange[owner]]]
    <3> DEFINE r == [request[k] EXCEPT !.phase = "answered", !.principal = "absent",
                       !.answer = "ok", !.who = owner, !.must = mustChange[owner]]
    <3>1. request' = [request EXCEPT ![k] = r]
      BY <1>1, <2>4 DEF SessionTypeOK
    <3>2. owner \in Staff /\ mustChange[owner] \in BOOLEAN
      BY <1>1, <2>1, <2>4, PrincipalFacts DEF SessionTypeOK
    <3>3. r \in Request /\ r.phase = "answered"
      BY <1>1, <3>2 DEF Request, Phases, Principals, Answers
    <3>4. RequestStep
      <4> HIDE DEF r
      <4> QED BY <3>1, <3>3, OneRequest
    <3> QED BY <1>1, <2>1, <3>4, ServeStep, UnchangedSession DEF SessionTypeOK
  <2>5. CASE row.state = "ended" /\ Answer(k, "unauthenticated")
    BY <1>1, <2>1, <2>5, AnswerStep, ServeStep, UnchangedSession DEF Answers, SessionTypeOK
  <2> QED BY <1>3, <2>2, <2>3, <2>4, <2>5 DEF ServeMe
<1>4. CASE ServeLoad(k)
  <2>1. /\ Admit(k) /\ now' = now /\ session' = session
        /\ mustChange' = mustChange /\ BrowserUnchanged
    BY <1>4 DEF ServeLoad, BrowserUnchanged
  <2>2. PICK a \in Answers : Answer(k, a)
    BY <1>4 DEF ServeLoad, Answers
  <2> QED BY <1>1, <2>1, <2>2, AnswerStep, ServeStep, UnchangedSession DEF SessionTypeOK
<1> QED BY <1>2, <1>3, <1>4 DEF Network

(* A login draws a token: a session that was never used goes live. *)
LEMMA LoginDraws ==
    ASSUME SessionInv, NEW s \in Staff, session[Fresh].state = "unused",
           session' = [session EXCEPT ![Fresh] = [@ EXCEPT !.state = "live", !.owner = s]]
    PROVE  SessionStep
<1>1. SessionTypeOK
  BY DEF SessionInv
<1>2. PICK t \in Tokens : t = Fresh
  <2>1. \E t \in Tokens :
           session[t].state = "unused" \/ \A u \in Tokens : session[u].state # "unused"
    BY SessionAssumption
  <2> QED BY <2>1 DEF Fresh
<1> DEFINE row == [session[t] EXCEPT !.state = "live", !.owner = s]
<1>3. session' = [session EXCEPT ![t] = row] /\ session[t].state = "unused"
  BY <1>2
<1>4. /\ row \in [state : {"unused", "live", "ended"}, owner : Staff \cup {None},
                   ended : 0..MaxTime]
      /\ row.state = "live" /\ row.owner \in Staff
  BY <1>1 DEF SessionTypeOK
<1> HIDE DEF row
<1> QED BY <1>1, <1>3, <1>4 DEF SessionStep, SessionTypeOK

LEMMA ServeLoginStep ==
    ASSUME SessionInv, ServeLogin PROVE SessionInv'
<1> DEFINE s == request["login"].who
<1>1. /\ SessionTypeOK /\ "login" \in Kinds /\ request["login"] \in Request
      /\ RequestSound("login")
  BY DEF SessionInv, SessionTypeOK, Kinds
<1>2. /\ Admit("login") /\ now' = now /\ mustChange' = mustChange /\ BrowserUnchanged
  BY DEF ServeLogin, BrowserUnchanged
<1>3. s \in Staff /\ mustChange[s] \in BOOLEAN
  BY <1>1 DEF ServeLogin, Resolved, RequestSound, SessionTypeOK
<1>4. CASE Answer("login", "invalid_credentials") /\ UNCHANGED session
  BY <1>1, <1>2, <1>4, AnswerStep, ServeStep, UnchangedSession DEF Answers, SessionTypeOK
<1>5. CASE /\ session[Fresh].state = "unused"
           /\ session' = [session EXCEPT ![Fresh] = [@ EXCEPT !.state = "live", !.owner = s]]
           /\ request' = [request EXCEPT !["login"] =
                  [@ EXCEPT !.phase = "answered", !.principal = "absent", !.answer = "ok",
                            !.token = Fresh, !.must = mustChange[s]]]
  <2>1. PICK t \in Tokens : t = Fresh
    <3>1. \E t \in Tokens :
             session[t].state = "unused" \/ \A u \in Tokens : session[u].state # "unused"
      BY SessionAssumption
    <3> QED BY <3>1 DEF Fresh
  <2> DEFINE r == [request["login"] EXCEPT !.phase = "answered", !.principal = "absent",
                      !.answer = "ok", !.token = t, !.must = mustChange[s]]
  <2>2. request' = [request EXCEPT !["login"] = r]
    BY <1>5, <2>1
  <2>3. r \in Request /\ r.phase = "answered"
    BY <1>1, <1>3 DEF Request, Phases, Principals, Answers
  <2>4. SessionStep
    BY <1>3, <1>5, LoginDraws
  <2> HIDE DEF r
  <2>5. RequestStep
    BY <1>1, <2>2, <2>3, OneRequest
  <2> QED BY <1>1, <1>2, <2>4, <2>5, ServeStep DEF SessionTypeOK
<1> QED BY <1>4, <1>5 DEF ServeLogin

LEMMA ServeLogoutStep ==
    ASSUME SessionInv, ServeLogout PROVE SessionInv'
<1> DEFINE t == request["logout"].token
<1>1. SessionTypeOK /\ "logout" \in Kinds /\ request["logout"] \in Request
  BY DEF SessionInv, SessionTypeOK, Kinds
<1>2. /\ Admit("logout") /\ now' = now /\ mustChange' = mustChange /\ BrowserUnchanged
  BY DEF ServeLogout, BrowserUnchanged
<1>3. \E a \in Answers : Answer("logout", a)
  BY DEF ServeLogout, Answers
<1>4. SessionStep
  <2>1. CASE session' = session
    BY <2>1, UnchangedSession
  <2>2. CASE t # None /\ session[t].state = "live" /\ session' = Ended(t)
    BY <1>1, <2>2, EndedStep DEF Request
  <2> QED BY <2>1, <2>2 DEF ServeLogout
<1> QED BY <1>1, <1>2, <1>3, <1>4, AnswerStep, ServeStep DEF SessionTypeOK

LEMMA ServeChangeStep ==
    ASSUME SessionInv, ServeChange PROVE SessionInv'
<1>1. SessionTypeOK /\ "change" \in Kinds
  BY DEF SessionInv, SessionTypeOK, Kinds
<1>2. /\ Admit("change") /\ now' = now /\ session' = session /\ BrowserUnchanged
  BY DEF ServeChange, BrowserUnchanged
<1>3. \E a \in Answers : Answer("change", a)
  BY DEF ServeChange, Answers
<1>4. mustChange' \in [Staff -> BOOLEAN]
  BY <1>1 DEF ServeChange, SessionTypeOK
<1> QED BY <1>1, <1>2, <1>3, <1>4, AnswerStep, ServeStep, UnchangedSession
-----------------------------------------------------------------------------
(* The answers reach the browser. *)
LEMMA ListenedTypes ==
    ASSUME SessionInv
    PROVE  /\ \A a : ListenedStatus(a, status) \in Statuses
           /\ \A a : ListenedUser(a) \in Staff \cup {None}
           /\ \A must : StatusOf(must) \in Statuses
           /\ \A k : Excused(k) \subseteq {"crossed", "validation", "logout", "password"}
BY DEF SessionInv, SessionTypeOK, ListenedStatus, ListenedUser, StatusOf, Excused, Statuses,
       Unauthorized

LEMMA DoneStep ==
    ASSUME SessionInv, NEW k \in Kinds, request' = Done(k)
    PROVE  RequestStep
BY OneRequest, RequestTypes DEF Done

(* An answer that is shown. *)
LEMMA ShownStep ==
    ASSUME SessionInv, NEW k \in Kinds, NEW st \in Statuses, NEW u \in Staff \cup {None},
           NEW c \in Tokens \cup {None}, NEW p \in Pages,
           Show(st, u, c, p, Done(k)), ServerUnchanged, UNCHANGED faults,
           excuse' \subseteq {"crossed", "validation", "logout", "password"},
           poll' \in [on : BOOLEAN, wake : 0..(MaxTime + 1), deadline : 0..(MaxTime + PollFor)]
    PROVE  SessionInv'
<1> DEFINE req == Done(k)
<1>1. req = request \/ req = [request EXCEPT ![k] = Idle]
  BY DEF Done
<1> HIDE DEF req
<1>2. /\ RequestStep
      /\ status' \in Statuses /\ user' \in Staff \cup {None}
      /\ cookie' \in Tokens \cup {None} /\ page' \in Pages
      /\ alert' \in {"none", "stale", "failed"}
  <2>1. Show(st, u, c, p, req)
    BY DEF req
  <2> QED BY <1>1, <2>1, ShowStep
<1> QED BY <1>2, BrowserKeepsInv DEF BrowserTypeOK, SessionInv, SessionTypeOK

LEMMA ArriveStep ==
    ASSUME SessionInv, Arrive PROVE SessionInv'
<1> USE DEF ServerUnchanged, serverVars
<1>1. /\ SessionTypeOK /\ {"boot", "login", "logout", "change", "poll"} \subseteq Kinds
      /\ Loads \subseteq Kinds
  BY DEF SessionInv, Kinds
<1>2. /\ \A k \in Kinds : request[k].who \in Staff \cup {None}
                        /\ request[k].token \in Tokens \cup {None}
      /\ {status, "anonymous", "authenticated", "must-change-password", "rate-limited",
           "unreachable"} \subseteq Statuses
      /\ {page, "app", "login"} \subseteq Pages
      /\ user \in Staff \cup {None} /\ cookie \in Tokens \cup {None}
      /\ excuse \subseteq {"crossed", "validation", "logout", "password"}
      /\ poll \in [on : BOOLEAN, wake : 0..(MaxTime + 1), deadline : 0..(MaxTime + PollFor)]
  BY <1>1 DEF SessionTypeOK, Request, Statuses, Pages
<1>3. CASE BootAnswered
  <2>1. PICK st \in Statuses, u \in Staff \cup {None} : Show(st, u, cookie, page, Done("boot"))
    BY <1>1, <1>2, <1>3, ListenedTypes DEF BootAnswered
  <2> QED BY <1>1, <1>2, <1>3, <2>1, ListenedTypes, ShownStep DEF BootAnswered
<1>4. CASE LoginAnswered
  <2>1. CASE request["login"].answer = "ok"
    <3>1. PICK st \in Statuses, u \in Staff \cup {None}, c \in Tokens \cup {None} :
             Show(st, u, c, page, Done("login"))
      BY <1>1, <1>2, <1>4, <2>1, ListenedTypes DEF LoginAnswered
    <3> QED BY <1>1, <1>2, <1>4, <2>1, <3>1, ShownStep DEF LoginAnswered
  <2>2. CASE request["login"].answer # "ok"
    <3>1. RequestStep
      BY <1>1, <1>4, <2>2, DoneStep DEF LoginAnswered
    <3> QED BY <1>1, <1>4, <2>2, <3>1, BrowserKeepsInv
            DEF LoginAnswered, BrowserTypeOK, SessionTypeOK
  <2> QED BY <2>1, <2>2
<1>5. CASE LogoutAnswered
  <2>1. PICK c \in Tokens \cup {None} : Show("anonymous", None, c, "login", Done("logout"))
    BY <1>2, <1>5 DEF LogoutAnswered
  <2> QED BY <1>1, <1>2, <1>5, <2>1, ShownStep DEF LogoutAnswered
<1>6. CASE ChangeAnswered
  <2>1. RequestStep
    BY <1>1, <1>6, DoneStep DEF ChangeAnswered
  <2>2. /\ now \in 0..(MaxTime + 1) /\ now + PollFor \in 0..(MaxTime + PollFor)
    BY <1>1, SessionAssumption DEF SessionTypeOK
  <2>3. excuse' \subseteq {"crossed", "validation", "logout", "password"}
    BY <1>6, ListenedTypes DEF ChangeAnswered
  <2>4. CASE request["change"].answer = "ok"
    <3>1. poll' \in [on : BOOLEAN, wake : 0..(MaxTime + 1), deadline : 0..(MaxTime + PollFor)]
      <4>1. poll' = [on |-> TRUE, wake |-> now, deadline |-> now + PollFor]
        BY <1>6, <2>4 DEF ChangeAnswered
      <4> DEFINE W == 0..(MaxTime + 1)
                 D == 0..(MaxTime + PollFor)
      <4>2. now \in W /\ now + PollFor \in D
        BY <2>2
      <4> HIDE DEF W, D
      <4>3. poll' \in [on : BOOLEAN, wake : W, deadline : D]
        BY <4>1, <4>2
      <4> QED BY <4>3 DEF W, D
    <3> QED BY <1>1, <1>6, <2>1, <2>3, <2>4, <3>1, BrowserKeepsInv
            DEF ChangeAnswered, BrowserTypeOK, SessionTypeOK
  <2>5. CASE request["change"].answer # "ok"
    <3>1. /\ status' \in Statuses /\ user' \in Staff \cup {None} /\ page' \in Pages
          /\ alert' \in {"none", "stale", "failed"}
      BY <1>2, <1>6, <2>5, ListenedTypes, RedirectTypes DEF ChangeAnswered
    <3> QED BY <1>1, <1>6, <2>1, <2>3, <2>5, <3>1, BrowserKeepsInv
            DEF ChangeAnswered, BrowserTypeOK, SessionTypeOK
  <2> QED BY <2>4, <2>5
<1>7. CASE PollAnswered
  <2>1. excuse' \subseteq {"crossed", "validation", "logout", "password"}
    BY <1>7, ListenedTypes DEF PollAnswered
  <2>2. ServerUnchanged /\ UNCHANGED faults
    BY <1>7 DEF PollAnswered
  <2>3. poll' \in [on : BOOLEAN, wake : 0..(MaxTime + 1), deadline : 0..(MaxTime + PollFor)]
    <3>1. /\ 0 \in 0..(MaxTime + 1) /\ now + 1 \in 0..(MaxTime + 1)
          /\ 0 \in 0..(MaxTime + PollFor)
      BY <1>1, SessionAssumption DEF SessionTypeOK
    <3>2. CASE poll' = NotPolling
      BY <3>1, <3>2 DEF NotPolling
    <3>3. CASE poll' = [poll EXCEPT !.wake = now + 1]
      BY <1>2, <3>1, <3>3
    <3> QED BY <1>7, <3>2, <3>3 DEF PollAnswered
  <2>4. CASE \E st \in Statuses, u \in Staff \cup {None}, p \in Pages :
                Show(st, u, cookie, p, Done("poll"))
    BY <1>1, <1>2, <2>1, <2>2, <2>3, <2>4, ShownStep
  <2>5. CASE /\ request["poll"].answer # "ok" /\ request' = Done("poll") /\ UNCHANGED cookie
             /\ status' \in Statuses /\ user' \in Staff \cup {None} /\ page' \in Pages
             /\ alert' \in {"none", "stale", "failed"}
    <3>1. RequestStep
      BY <1>1, <2>5, DoneStep
    <3> QED BY <1>1, <2>1, <2>2, <2>3, <2>5, <3>1, BrowserKeepsInv
            DEF BrowserTypeOK, SessionTypeOK
  <2>6. CASE request["poll"].answer = "ok"
    <3>1. Show("authenticated", request["poll"].who, cookie, "app", Done("poll"))
      BY <1>7, <2>6 DEF PollAnswered
    <3> QED BY <1>1, <1>2, <2>4, <3>1
  <2>7. CASE Show("must-change-password", user, cookie, page, Done("poll"))
    BY <1>2, <2>4, <2>7
  <2>8. CASE /\ request["poll"].answer # "ok"
             /\ ~Show("must-change-password", user, cookie, page, Done("poll"))
    <3> DEFINE st == ListenedStatus(request["poll"].answer, status)
    <3>1. /\ request' = Done("poll") /\ UNCHANGED cookie
          /\ status' = st /\ user' = ListenedUser(request["poll"].answer)
          /\ page' = RedirectFrom(page, st) /\ alert' \in {"none", "stale", "failed"}
      BY <1>7, <2>8 DEF PollAnswered
    <3> QED BY <1>2, <2>5, <2>8, <3>1, ListenedTypes, RedirectTypes
  <2> QED BY <2>6, <2>7, <2>8
<1>8. ASSUME NEW l \in Loads, LoadAnswered(l) PROVE SessionInv'
  <2>1. PICK st \in Statuses, u \in Staff \cup {None} : Show(st, u, cookie, page, Done(l))
    BY <1>2, <1>8, ListenedTypes DEF LoadAnswered
  <2> QED BY <1>1, <1>2, <1>8, <2>1, ListenedTypes, ShownStep DEF LoadAnswered
<1> QED BY <1>3, <1>4, <1>5, <1>6, <1>7, <1>8 DEF Arrive
-----------------------------------------------------------------------------
LEMMA FaultStep ==
    ASSUME SessionInv, Fault PROVE SessionInv'
<1> USE DEF ServerUnchanged, serverVars, browserVars
<1>1. SessionTypeOK
  BY DEF SessionInv
<1>2. faults < MaxFaults /\ faults' = faults + 1 => faults' \in 0..MaxFaults
  BY <1>1, SessionAssumption DEF SessionTypeOK
<1>3. ASSUME NEW k \in Kinds, ValidationFails(k) PROVE SessionInv'
  <2>1. RequestStep
    BY <1>3, AnswerStep DEF ValidationFails, Answers
  <2> QED BY <1>1, <1>2, <1>3, <2>1, BrowserKeepsInv
          DEF ValidationFails, BrowserTypeOK, SessionTypeOK
<1>4. ASSUME NEW k \in Kinds, NotServed(k) PROVE SessionInv'
  <2>1. RequestStep
    BY <1>4, AnswerStep DEF NotServed, Answers
  <2> QED BY <1>1, <1>2, <1>4, <2>1, BrowserKeepsInv DEF NotServed, BrowserTypeOK, SessionTypeOK
<1>5. ASSUME NEW k \in Kinds, AnswerLost(k) PROVE SessionInv'
  <2>1. RequestStep
    BY <1>5, AnswerStep DEF AnswerLost, Answers
  <2> QED BY <1>1, <1>2, <1>5, <2>1, BrowserKeepsInv DEF AnswerLost, BrowserTypeOK, SessionTypeOK
<1>6. ASSUME NEW t \in Tokens, EndSession(t) PROVE SessionInv'
  <2>1. SessionStep
    BY <1>6, EndedStep DEF EndSession
  <2>2. RequestStep /\ CacheStep /\ now' = now /\ mustChange' = mustChange
    BY <1>1, <1>6 DEF EndSession, RequestStep, CacheStep, SessionTypeOK
  <2> QED BY <1>1, <1>2, <1>6, <2>1, <2>2, StepKeepsInv
          DEF EndSession, BrowserTypeOK, SessionTypeOK
<1> QED BY <1>3, <1>4, <1>5, <1>6 DEF Fault

LEMMA SendPollStep ==
    ASSUME SessionInv, SendPoll PROVE SessionInv'
<1>1. SessionTypeOK /\ "poll" \in Kinds
  BY DEF SessionInv, Kinds
<1>2. RequestStep
  BY <1>1, OneRequest, RequestTypes DEF SendPoll, SessionTypeOK
<1> QED BY <1>1, <1>2, BrowserKeepsInv
        DEF SendPoll, ServerUnchanged, browserVars, BrowserTypeOK, SessionTypeOK

(* Time passes: no answer of Identity's is under way, unless Slow. *)
LEMMA TickStep ==
    ASSUME SessionInv, Tick PROVE SessionInv'
<1>1. SessionTypeOK /\ now \in Nat /\ TTL \in Nat
  BY SessionAssumption DEF SessionInv, SessionTypeOK
<1>2. SessionTypeOK'
  BY <1>1, SessionAssumption DEF Tick, browserVars, SessionTypeOK
<1>3. ASSUME NEW t \in Tokens PROVE TokenSound(t)'
  <2>1. cache[t].expires \in Nat
    BY <1>1, SessionAssumption DEF SessionTypeOK
  <2> QED BY <1>1, <1>3, <2>1 DEF SessionInv, TokenSound, Tick
<1>4. ASSUME NEW k \in Kinds PROVE RequestSound(k)'
  BY <1>4 DEF SessionInv, RequestSound, RecentlyEnded, Tick
<1> QED BY <1>2, <1>3, <1>4 DEF SessionInv

LEMMA NextKeepsInv == SessionInv /\ [Next]_vars => SessionInv'
<1> SUFFICES ASSUME SessionInv, [Next]_vars PROVE SessionInv'
  OBVIOUS
<1>1. CASE UNCHANGED vars
  BY <1>1 DEF vars, serverVars, browserVars, SessionInv, SessionTypeOK, RequestSound, TokenSound,
              RecentlyEnded
<1>2. CASE Next
  BY <1>2, PersonStep, NetworkStep, ServeLoginStep, ServeLogoutStep, ServeChangeStep,
     SendPollStep, ArriveStep, FaultStep, TickStep DEF Next
<1> QED BY <1>1, <1>2

THEOREM SessionInvariant == Spec => []SessionInv
BY InitInv, NextKeepsInv, PTL DEF Spec

(* The types of the session model: in particular a request that the gateway *)
(* passes on as somebody's has a session, and that session an account.      *)
THEOREM SessionType == Spec => []SessionTypeOK
<1>1. SessionInv => SessionTypeOK
  BY DEF SessionInv
<1> QED BY <1>1, SessionInvariant, PTL

(* SESSION_CACHE_TTL is the revocation latency, whatever the number of      *)
(* sessions and requests, if a validation is answered within a tick.        *)
THEOREM RevocationLatency ==
    ASSUME ~Slow PROVE Spec => []RevokedWithinTTL
<1>1. SessionInv => RevokedWithinTTL
  BY DEF SessionInv, TokenSound, RevokedWithinTTL
<1> QED BY <1>1, SessionInvariant, PTL
-----------------------------------------------------------------------------
(* What the browser knows of the sessions: its cookie and the tokens of its *)
(* requests were drawn, and the token of a login that is still on its way   *)
(* back is nobody else's yet.                                               *)
TokensDrawn ==
    /\ cookie # None => session[cookie].state # "unused"
    /\ \A k \in Kinds : InFlight(k) /\ request[k].token # None =>
          session[request[k].token].state # "unused"

LoginReady == request["login"].phase = "answered" /\ request["login"].answer = "ok"

LoginIsFresh ==
    LoginReady =>
        LET r == request["login"] IN
        /\ r.token # None /\ r.token # cookie
        /\ r.who = session[r.token].owner
        /\ \A k \in Kinds \ {"login"} : InFlight(k) => request[k].token # r.token

(* What an answer under way says is so, as far as it can be relied on.      *)
AnswerSound(k) ==
    LET r == request[k] IN
    r.phase = "answered" =>
        /\ k \in {"boot", "poll"} /\ r.answer = "ok" =>
              r.token # None /\ r.who = session[r.token].owner
        /\ k = "change" /\ r.answer = "ok" =>
              r.token # None /\ ~mustChange[session[r.token].owner]
        /\ r.answer = "password_change_required" => r.token # None
        /\ r.answer = "unauthenticated" /\ r.token = cookie /\ cookie # None /\ excuse = {} =>
              session[cookie].state = "ended"

AlertIsTheForms == alert # "none" => page = "change-password"

AnswersInv ==
    /\ TokensDrawn
    /\ LoginIsFresh
    /\ \A k \in Kinds : AnswerSound(k)

ScreenInv ==
    /\ AnswersInv
    /\ AlertIsTheForms
    /\ ScreenTellsTheSession

(* What the browser may do to its requests, its cookie and its excuses: it  *)
(* sends with the cookie it holds, takes over the token of a login, and     *)
(* forgets an excuse only with the answers it was about.                    *)
TakesTheLogin ==
    /\ LoginReady
    /\ cookie' = request["login"].token
    /\ request'["login"].phase # "answered"

RequestMove(k) ==
    \/ request'[k] = request[k]
    \/ request'[k].phase = "idle"
    \/ request'[k].phase = "sent" /\ request'[k].token = cookie'

CookieMove == cookie' \in {cookie, None} \/ TakesTheLogin

ExcuseMove ==
    excuse' = {} => \/ excuse = {}
                    \/ TakesTheLogin
                    \/ \A k \in Kinds : request'[k].phase # "answered"

LEMMA BrowserKeepsAnswers ==
    ASSUME SessionInv, AnswersInv, ServerUnchanged, CookieMove, ExcuseMove,
           \A k \in Kinds : RequestMove(k)
    PROVE  AnswersInv'
<1> USE DEF ServerUnchanged, serverVars, InFlight
<1>1. "login" \in Kinds
  BY DEF Kinds
<1>2. TakesTheLogin =>
        /\ cookie' # None /\ session[cookie'].state # "unused"
        /\ \A k \in Kinds \ {"login"} : InFlight(k) => request[k].token # cookie'
  BY <1>1 DEF TakesTheLogin, LoginReady, LoginIsFresh, TokensDrawn, AnswersInv
<1>3. cookie' # None => session[cookie'].state # "unused"
  BY <1>2 DEF CookieMove, TokensDrawn, AnswersInv
<1>4. TokensDrawn'
  BY <1>3 DEF RequestMove, TokensDrawn, AnswersInv
<1>5. LoginIsFresh'
  <2> SUFFICES ASSUME LoginReady' PROVE LoginIsFresh'
    BY DEF LoginIsFresh
  <2>1. request'["login"] = request["login"] /\ cookie' \in {cookie, None}
    BY <1>1 DEF RequestMove, CookieMove, TakesTheLogin, LoginReady
  <2> QED BY <2>1 DEF RequestMove, LoginIsFresh, LoginReady, AnswersInv
<1>6. ASSUME NEW k \in Kinds PROVE AnswerSound(k)'
  <2> SUFFICES ASSUME request'[k].phase = "answered" PROVE AnswerSound(k)'
    BY DEF AnswerSound
  <2>1. request'[k] = request[k] /\ AnswerSound(k)
    BY DEF RequestMove, AnswersInv
  <2>2. CASE TakesTheLogin
    <3>1. k # "login"
      BY <2>2 DEF TakesTheLogin
    <3>2. request[k].token # cookie'
      BY <1>2, <2>1, <2>2, <3>1
    <3> QED BY <2>1, <3>2 DEF AnswerSound
  <2>3. CASE ~TakesTheLogin
    BY <2>1, <2>3 DEF CookieMove, ExcuseMove, AnswerSound
  <2> QED BY <2>2, <2>3
<1> QED BY <1>4, <1>5, <1>6 DEF AnswersInv

(* Sessions that were drawn keep their owner, and stay ended once they are. *)
LEMMA SessionsLast ==
    ASSUME SessionStep, NEW t \in Tokens, session[t].state # "unused"
    PROVE  /\ session'[t].state # "unused" /\ session'[t].owner = session[t].owner
           /\ session[t].state = "ended" => session'[t].state = "ended"
BY DEF SessionStep

(* A step of the servers on one request, which keeps its token. *)
RequestServed(k) ==
    /\ InFlight(k)
    /\ request'[k].token = request[k].token
    /\ k = "login" => ~LoginReady'
    /\ \A j \in Kinds \ {k} : request'[j] = request[j]

LEMMA ServersKeepScreen ==
    ASSUME SessionInv, ScreenInv, SessionStep,
           request' = request \/ (\E k \in Kinds : RequestServed(k) /\ AnswerSound(k)'),
           \A s \in Staff : mustChange'[s] => mustChange[s],
           UNCHANGED <<cookie, status, user, page, alert>>, excuse \subseteq excuse'
    PROVE  ScreenInv'
<1> USE DEF InFlight
<1>1. /\ "login" \in Kinds /\ cookie \in Tokens \cup {None}
      /\ \A k \in Kinds : request[k].token \in Tokens \cup {None}
  BY DEF Kinds, SessionInv, SessionTypeOK, Request
<1>2. ASSUME NEW t \in Tokens, session[t].state # "unused"
      PROVE  /\ session'[t].state # "unused" /\ session'[t].owner = session[t].owner
             /\ session[t].owner \in Staff
             /\ session[t].state = "ended" => session'[t].state = "ended"
  BY <1>2, SessionsLast DEF SessionInv, TokenSound
<1>3. \A k \in Kinds : /\ request'[k].token = request[k].token
                       /\ InFlight(k)' => InFlight(k)
  BY DEF RequestServed
<1>4. TokensDrawn'
  BY <1>1, <1>2, <1>3 DEF TokensDrawn, ScreenInv, AnswersInv
<1>5. LoginIsFresh'
  <2> SUFFICES ASSUME LoginReady' PROVE LoginIsFresh'
    BY DEF LoginIsFresh
  <2>1. request'["login"] = request["login"] /\ LoginReady
    BY <1>1 DEF RequestServed, LoginReady
  <2>2. LET r == request["login"] IN
          /\ r.token # None /\ r.token # cookie
          /\ r.who = session[r.token].owner
          /\ \A k \in Kinds \ {"login"} : InFlight(k) => request[k].token # r.token
    BY <2>1 DEF LoginIsFresh, ScreenInv, AnswersInv
  <2>3. session[request["login"].token].state # "unused"
    BY <1>1, <2>1, <2>2 DEF LoginReady, TokensDrawn, ScreenInv, AnswersInv
  <2> QED BY <1>1, <1>2, <1>3, <2>1, <2>2, <2>3 DEF LoginIsFresh
<1>6. ASSUME NEW j \in Kinds, request'[j] = request[j] PROVE AnswerSound(j)'
  <2> SUFFICES ASSUME request[j].phase = "answered" PROVE AnswerSound(j)'
    BY <1>6 DEF AnswerSound
  <2>1. /\ AnswerSound(j)
        /\ request[j].token # None => session[request[j].token].state # "unused"
        /\ excuse' = {} => excuse = {}
    BY DEF ScreenInv, AnswersInv, TokensDrawn
  <2> QED BY <1>1, <1>2, <1>6, <2>1 DEF AnswerSound
<1>7. \A j \in Kinds : AnswerSound(j)'
  BY <1>6 DEF RequestServed
<1>8. AlertIsTheForms'
  BY DEF AlertIsTheForms, ScreenInv
<1>9. ScreenTellsTheSession'
  BY <1>1, <1>2 DEF ScreenTellsTheSession, ScreenInv, AnswersInv, TokensDrawn
<1> QED BY <1>4, <1>5, <1>7, <1>8, <1>9 DEF ScreenInv, AnswersInv

-----------------------------------------------------------------------------
(* What Show does to the browser, for a request that is over or none. *)
LEMMA ShowMoves ==
    ASSUME SessionInv, NEW st, NEW u, NEW c, NEW p, NEW k \in Kinds,
           NEW req, req = request \/ req = Done(k), Show(st, u, c, p, req)
    PROVE  /\ status' = st /\ user' = u /\ cookie' = c
           /\ AlertIsTheForms'
           /\ \A j \in Kinds : RequestMove(j)
           /\ req = Done(k) => request'[k].phase # "answered"
<1>1. request \in [Kinds -> Request] /\ Loads \subseteq Kinds
  BY DEF SessionInv, SessionTypeOK, Kinds
<1>2. Idle.phase = "idle" /\ SentNow(c).phase = "sent" /\ SentNow(c).token = c
  BY DEF Idle, SentNow
<1>3. status' = st /\ user' = u /\ cookie' = c
  BY DEF Show
<1>4. AlertIsTheForms'
  BY DEF Show, AlertIsTheForms
<1>5. /\ req \in [Kinds -> {Idle} \cup Request]
      /\ \A j \in Kinds : req[j] = request[j] \/ req[j] = Idle
      /\ req = Done(k) => req[k] = Idle
  BY <1>1 DEF Done
<1>6. request' = req \/ \E l \in Loads : request' = [req EXCEPT ![l] = SentNow(c)]
  BY DEF Show, Opened, FreeLoad
<1>7. \A j \in Kinds : request'[j] \in {req[j], SentNow(c)}
  BY <1>1, <1>5, <1>6
<1>8. \A j \in Kinds : RequestMove(j)
  BY <1>2, <1>3, <1>5, <1>7 DEF RequestMove
<1> QED BY <1>2, <1>3, <1>4, <1>5, <1>7, <1>8

(* What a screen may come to show: whom it showed before, or what an answer *)
(* told it that left under the cookie the browser holds.                    *)
LEMMA ShownIsTrue ==
    ASSUME SessionInv, ScreenInv, ServerUnchanged, NEW k \in Kinds, k # "login", k # "logout",
           request[k].phase = "answered", cookie' = cookie, excuse' = Excused(k),
           \/ /\ k \in {"boot", "poll"} /\ request[k].answer = "ok"
              /\ status' # "anonymous" /\ user' = request[k].who
           \/ /\ status' = ListenedStatus(request[k].answer, status)
              /\ user' = ListenedUser(request[k].answer)
           \/ status' \notin {"authenticated", "anonymous"}
           \/ UNCHANGED <<status, user>>
    PROVE  ScreenTellsTheSession'
<1> SUFFICES ASSUME excuse' \subseteq {"password"} PROVE ScreenTellsTheSession'
  BY DEF ScreenTellsTheSession
<1>1. /\ excuse \subseteq excuse' /\ request[k].token = cookie
      /\ request[k].answer = "invalid_credentials" => "password" \in excuse'
  BY DEF Excused
<1>2. /\ AnswerSound(k) /\ session' = session
      /\ status = "authenticated" => cookie # None /\ user = session[cookie].owner
      /\ status = "anonymous" =>
            /\ user = None
            /\ cookie # None => session[cookie].state = "ended" \/ "password" \in excuse
  BY <1>1 DEF ScreenInv, AnswersInv, ScreenTellsTheSession, ServerUnchanged, serverVars
<1>3. CASE /\ k \in {"boot", "poll"} /\ request[k].answer = "ok"
           /\ status' # "anonymous" /\ user' = request[k].who
  BY <1>1, <1>2, <1>3 DEF AnswerSound, ScreenTellsTheSession
<1>4. CASE /\ status' = ListenedStatus(request[k].answer, status)
           /\ user' = ListenedUser(request[k].answer)
  BY <1>1, <1>2, <1>4 DEF AnswerSound, ScreenTellsTheSession, ListenedStatus, ListenedUser,
                          Unauthorized
<1>5. CASE status' \notin {"authenticated", "anonymous"}
  BY <1>5 DEF ScreenTellsTheSession
<1>6. CASE UNCHANGED <<status, user>>
  BY <1>1, <1>2, <1>6 DEF ScreenTellsTheSession
<1> QED BY <1>3, <1>4, <1>5, <1>6

(* A step of the person leaves the screen about the same session. *)
LEMMA PersonKeepsScreen ==
    ASSUME SessionInv, ScreenInv, ServerUnchanged, cookie' = cookie,
           \/ UNCHANGED <<status, user, excuse>>
           \/ /\ status' \notin {"authenticated", "anonymous"}
              /\ excuse' = excuse \/ \A k \in Kinds : request'[k].phase # "answered",
           AlertIsTheForms', \A k \in Kinds : RequestMove(k)
    PROVE  ScreenInv'
<1>1. AnswersInv'
  BY BrowserKeepsAnswers DEF ScreenInv, CookieMove, ExcuseMove
<1>2. CASE UNCHANGED <<status, user, excuse>>
  BY <1>1, <1>2 DEF ScreenInv, ScreenTellsTheSession, ServerUnchanged, serverVars
<1>3. CASE status' \notin {"authenticated", "anonymous"}
  BY <1>1, <1>3 DEF ScreenInv, ScreenTellsTheSession
<1> QED BY <1>2, <1>3

LEMMA PersonScreen ==
    ASSUME SessionInv, ScreenInv, Person PROVE ScreenInv'
<1> USE DEF ServerUnchanged, serverVars, browserVars, AlertIsTheForms
<1>1. /\ request \in [Kinds -> Request] /\ AlertIsTheForms
      /\ {"boot", "login", "logout", "change", "poll"} \subseteq Kinds /\ Loads \subseteq Kinds
  BY DEF SessionInv, SessionTypeOK, Kinds, ScreenInv
<1>2. \A c : /\ SentNow(c).phase = "sent" /\ SentNow(c).token = c /\ Idle.phase = "idle"
             /\ \A s : /\ [SentNow(c) EXCEPT !.who = s].phase = "sent"
                       /\ [SentNow(c) EXCEPT !.who = s].token = c
  BY DEF SentNow, Idle
<1>3. ASSUME NEW s \in Staff, SubmitSignIn(s) PROVE ScreenInv'
  <2>1. \A j \in Kinds : RequestMove(j)
    BY <1>1, <1>2, <1>3 DEF SubmitSignIn, RequestMove
  <2> QED BY <1>1, <1>3, <2>1, PersonKeepsScreen DEF SubmitSignIn
<1>4. CASE SignOut
  <2>1. \A j \in Kinds : RequestMove(j)
    BY <1>1, <1>2, <1>4 DEF SignOut, RequestMove
  <2> QED BY <1>1, <1>4, <2>1, PersonKeepsScreen DEF SignOut
<1>5. CASE SubmitChange
  <2>1. \A j \in Kinds : RequestMove(j)
    BY <1>1, <1>2, <1>5 DEF SubmitChange, RequestMove
  <2> QED BY <1>1, <1>5, <2>1, PersonKeepsScreen DEF SubmitChange
<1>6. CASE OpenChangePassword
  <2>1. \A j \in Kinds : RequestMove(j)
    BY <1>6 DEF OpenChangePassword, RequestMove
  <2> QED BY <1>1, <1>6, <2>1, PersonKeepsScreen DEF OpenChangePassword
<1>7. CASE Cancel
  <2>1. /\ status' = status /\ user' = user /\ cookie' = cookie /\ AlertIsTheForms'
        /\ \A j \in Kinds : RequestMove(j)
    BY <1>1, <1>7, ShowMoves DEF Cancel
  <2> QED BY <1>7, <2>1, PersonKeepsScreen DEF Cancel
<1>8. CASE TryAgain
  <2>1. \A j \in Kinds : RequestMove(j)
    BY <1>1, <1>2, <1>8 DEF TryAgain, RequestMove
  <2> QED BY <1>1, <1>8, <2>1, PersonKeepsScreen DEF TryAgain
<1>9. ASSUME NEW l \in Loads, Load(l) PROVE ScreenInv'
  <2>1. \A j \in Kinds : RequestMove(j)
    BY <1>1, <1>2, <1>9 DEF Load, RequestMove
  <2> QED BY <1>1, <1>9, <2>1, PersonKeepsScreen DEF Load
<1>10. CASE Refresh
  <2>1. \A j \in Kinds : RequestMove(j) /\ request'[j].phase # "answered"
    BY <1>2, <1>10 DEF Refresh, RequestMove
  <2> QED BY <1>10, <2>1, PersonKeepsScreen DEF Refresh
<1> QED BY <1>3, <1>4, <1>5, <1>6, <1>7, <1>8, <1>9, <1>10 DEF Person


(* An answer that reaches the browser, and changes no cookie. *)
LEMMA AnsweredScreen ==
    ASSUME SessionInv, ScreenInv, ServerUnchanged, NEW k \in Kinds, k # "login", k # "logout",
           request[k].phase = "answered", cookie' = cookie, excuse' = Excused(k),
           \/ /\ k \in {"boot", "poll"} /\ request[k].answer = "ok"
              /\ status' # "anonymous" /\ user' = request[k].who
           \/ /\ status' = ListenedStatus(request[k].answer, status)
              /\ user' = ListenedUser(request[k].answer)
           \/ status' \notin {"authenticated", "anonymous"}
           \/ UNCHANGED <<status, user>>,
           AlertIsTheForms', \A j \in Kinds : RequestMove(j)
    PROVE  ScreenInv'
<1>1. ScreenTellsTheSession'
  BY ShownIsTrue
<1>2. AnswersInv'
  BY BrowserKeepsAnswers DEF ScreenInv, CookieMove, ExcuseMove, Excused
<1> QED BY <1>1, <1>2 DEF ScreenInv

LEMMA DoneMoves ==
    ASSUME SessionInv, NEW k \in Kinds, request' = Done(k)
    PROVE  (\A j \in Kinds : RequestMove(j)) /\ request'[k].phase # "answered"
BY DEF SessionInv, SessionTypeOK, Done, RequestMove, Idle

LEMMA ArriveScreen ==
    ASSUME SessionInv, ScreenInv, Arrive PROVE ScreenInv'
<1> USE DEF ServerUnchanged, serverVars
<1>1. /\ {"boot", "login", "logout", "change", "poll"} \subseteq Kinds /\ Loads \subseteq Kinds
      /\ {"boot", "login", "logout", "change", "poll"} \cap Loads = {}
      /\ \A k \in Kinds : request[k] \in Request
  BY SessionAssumption DEF SessionInv, SessionTypeOK, Kinds
<1>2. \A must : StatusOf(must) \in {"must-change-password", "authenticated"}
  BY DEF StatusOf
<1>3. CASE BootAnswered
  <2> DEFINE r == request["boot"]
  <2>1. CASE r.answer = "ok"
    <3>1. Show(StatusOf(r.must), r.who, cookie, page, Done("boot"))
      BY <1>3, <2>1 DEF BootAnswered
    <3>2. /\ status' = StatusOf(r.must) /\ user' = r.who /\ cookie' = cookie
          /\ AlertIsTheForms' /\ \A j \in Kinds : RequestMove(j)
      BY <1>1, <3>1, ShowMoves
    <3> QED BY <1>1, <1>2, <1>3, <2>1, <3>2, AnsweredScreen DEF BootAnswered
  <2>2. CASE r.answer # "ok"
    <3>1. PICK st : /\ Show(st, ListenedUser(r.answer), cookie, page, Done("boot"))
                    /\ \/ st \notin {"authenticated", "anonymous"}
                       \/ st = ListenedStatus(r.answer, status)
      BY <1>3, <2>2 DEF BootAnswered
    <3>2. /\ status' = st /\ user' = ListenedUser(r.answer) /\ cookie' = cookie
          /\ AlertIsTheForms' /\ \A j \in Kinds : RequestMove(j)
      BY <1>1, <3>1, ShowMoves
    <3> QED BY <1>1, <1>3, <3>1, <3>2, AnsweredScreen DEF BootAnswered
  <2> QED BY <2>1, <2>2
<1>4. CASE LoginAnswered
  <2> DEFINE r == request["login"]
  <2>1. CASE r.answer = "ok"
    <3>1. /\ Show(StatusOf(r.must), r.who, r.token, page, Done("login"))
          /\ r.phase = "answered" /\ excuse' \in {{}, {"crossed"}}
      BY <1>4, <2>1 DEF LoginAnswered
    <3>2. /\ status' = StatusOf(r.must) /\ user' = r.who /\ cookie' = r.token
          /\ AlertIsTheForms' /\ (\A j \in Kinds : RequestMove(j))
          /\ request'["login"].phase # "answered"
      BY <1>1, <3>1, ShowMoves
    <3>3. TakesTheLogin
      BY <2>1, <3>1, <3>2 DEF TakesTheLogin, LoginReady
    <3>4. AnswersInv'
      BY <1>4, <3>2, <3>3, BrowserKeepsAnswers
         DEF ScreenInv, CookieMove, ExcuseMove, LoginAnswered
    <3>5. ScreenTellsTheSession'
      BY <1>2, <1>4, <3>2, <3>3
         DEF ScreenTellsTheSession, TakesTheLogin, ScreenInv, AnswersInv, LoginIsFresh,
             LoginAnswered
    <3> QED BY <3>2, <3>4, <3>5 DEF ScreenInv
  <2>2. CASE r.answer # "ok"
    <3>1. request' = Done("login") /\ UNCHANGED <<cookie, status, user, page, alert, excuse>>
      BY <1>4, <2>2 DEF LoginAnswered
    <3>2. \A j \in Kinds : RequestMove(j)
      BY <1>1, <3>1, DoneMoves
    <3> QED BY <1>4, <3>1, <3>2, PersonKeepsScreen
            DEF LoginAnswered, ScreenInv, AlertIsTheForms
  <2> QED BY <2>1, <2>2
<1>5. CASE LogoutAnswered
  <2>1. PICK c \in {cookie, None} :
           /\ Show("anonymous", None, c, "login", Done("logout"))
           /\ excuse' = {} => excuse = {} /\ c = None
    BY <1>5 DEF LogoutAnswered
  <2>2. /\ status' = "anonymous" /\ user' = None /\ cookie' = c
        /\ AlertIsTheForms' /\ (\A j \in Kinds : RequestMove(j))
    BY <1>1, <2>1, ShowMoves
  <2>3. AnswersInv'
    BY <1>5, <2>1, <2>2, BrowserKeepsAnswers
       DEF ScreenInv, CookieMove, ExcuseMove, LogoutAnswered
  <2>4. ScreenTellsTheSession'
    BY <2>1, <2>2 DEF ScreenTellsTheSession
  <2> QED BY <2>2, <2>3, <2>4 DEF ScreenInv
<1>6. CASE ChangeAnswered
  <2>1. \A j \in Kinds : RequestMove(j)
    BY <1>1, <1>6, DoneMoves DEF ChangeAnswered
  <2>2. AlertIsTheForms'
    BY <1>6 DEF ChangeAnswered, AlertIsTheForms, ScreenInv
  <2>3. \/ /\ status' = ListenedStatus(request["change"].answer, status)
           /\ user' = ListenedUser(request["change"].answer)
        \/ UNCHANGED <<status, user>>
    BY <1>6 DEF ChangeAnswered
  <2> QED BY <1>1, <1>6, <2>1, <2>2, <2>3, AnsweredScreen DEF ChangeAnswered
<1>7. CASE PollAnswered
  <2> DEFINE r == request["poll"]
  <2>1. ServerUnchanged /\ r.phase = "answered" /\ excuse' = Excused("poll")
    BY <1>7 DEF PollAnswered
  <2>2. CASE r.answer = "ok" /\ Show("authenticated", r.who, cookie, "app", Done("poll"))
    <3>1. /\ status' = "authenticated" /\ user' = r.who /\ cookie' = cookie
          /\ AlertIsTheForms' /\ \A j \in Kinds : RequestMove(j)
      BY <1>1, <2>2, ShowMoves
    <3> QED BY <1>1, <2>1, <2>2, <3>1, AnsweredScreen
  <2>3. CASE Show("must-change-password", user, cookie, page, Done("poll"))
    <3>1. /\ status' = "must-change-password" /\ cookie' = cookie
          /\ AlertIsTheForms' /\ \A j \in Kinds : RequestMove(j)
      BY <1>1, <2>3, ShowMoves
    <3> QED BY <1>1, <2>1, <2>3, <3>1, AnsweredScreen
  <2>4. CASE /\ r.answer # "ok" /\ ~Show("must-change-password", user, cookie, page, Done("poll"))
    <3>1. /\ status' = ListenedStatus(r.answer, status) /\ user' = ListenedUser(r.answer)
          /\ request' = Done("poll") /\ cookie' = cookie /\ AlertIsTheForms'
      BY <1>7, <2>4 DEF PollAnswered, AlertIsTheForms
    <3>2. \A j \in Kinds : RequestMove(j)
      BY <1>1, <3>1, DoneMoves
    <3> QED BY <1>1, <2>1, <2>4, <3>1, <3>2, AnsweredScreen
  <2> QED BY <1>7, <2>2, <2>3, <2>4 DEF PollAnswered
<1>8. ASSUME NEW l \in Loads, LoadAnswered(l) PROVE ScreenInv'
  <2>1. Show(ListenedStatus(request[l].answer, status), ListenedUser(request[l].answer), cookie,
             page, Done(l))
    BY <1>8 DEF LoadAnswered
  <2>2. /\ status' = ListenedStatus(request[l].answer, status)
        /\ user' = ListenedUser(request[l].answer) /\ cookie' = cookie
        /\ AlertIsTheForms' /\ \A j \in Kinds : RequestMove(j)
    BY <1>1, <2>1, ShowMoves
  <2> QED BY <1>1, <1>8, <2>2, AnsweredScreen DEF LoadAnswered
<1> QED BY <1>3, <1>4, <1>5, <1>6, <1>7, <1>8 DEF Arrive

LEMMA SendPollScreen ==
    ASSUME SessionInv, ScreenInv, SendPoll PROVE ScreenInv'
<1>1. \A j \in Kinds : RequestMove(j)
  BY DEF SessionInv, SessionTypeOK, SendPoll, RequestMove, SentNow, Idle, browserVars
<1> QED BY <1>1, PersonKeepsScreen
        DEF SendPoll, ServerUnchanged, browserVars, ScreenInv, AlertIsTheForms

-----------------------------------------------------------------------------
(* Nobody is who has no cookie, or one whose session is not live. *)
LEMMA NobodyFacts ==
    ASSUME SessionInv, NEW k \in Kinds, Resolved(k), Principal(k) = "absent"
    PROVE  request[k].token = None \/ session[request[k].token].state # "live"
<1>1. RequestSound(k)
  BY DEF SessionInv
<1>2. request[k].phase # "validated"
  BY <1>1 DEF RequestSound, Principal
<1>3. ~Cached(request[k].token)
  BY <1>2 DEF Principal, Cached
<1>4. Validated(request[k].token) = "absent"
  BY <1>2, <1>3 DEF Resolved
<1> QED BY <1>4 DEF Validated

LEMMA AnsweredRequest ==
    ASSUME SessionInv, NEW k \in Kinds, NEW a \in Answers, Answer(k, a),
           InFlight(k), k = "login" => a # "ok"
    PROVE  RequestServed(k) /\ request'[k] = [request[k] EXCEPT !.phase = "answered",
                                                 !.principal = "absent", !.answer = a]
<1>1. request \in [Kinds -> Request] /\ request[k] \in Request
  BY DEF SessionInv, SessionTypeOK
<1>2. request' = [request EXCEPT ![k] = [request[k] EXCEPT !.phase = "answered",
                                                 !.principal = "absent", !.answer = a]]
  BY <1>1 DEF Answer
<1>3. [request[k] EXCEPT !.phase = "answered", !.principal = "absent", !.answer = a].token
         = request[k].token
  BY <1>1 DEF Request
<1>4. [request[k] EXCEPT !.phase = "answered", !.principal = "absent", !.answer = a].answer = a
  BY <1>1 DEF Request
<1> QED BY <1>1, <1>2, <1>3, <1>4 DEF RequestServed, LoginReady

(* A service that answers 401 tells so of a session that is over, or of     *)
(* none.                                                                    *)
LEMMA UnauthenticatedScreen ==
    ASSUME SessionInv, ScreenInv, NEW k \in Kinds, Resolved(k), Answer(k, "unauthenticated"),
           request[k].token = None \/ session[request[k].token].state # "live",
           UNCHANGED <<session, mustChange, browserVars>>
    PROVE  ScreenInv'
<1> USE DEF browserVars
<1>1. RequestServed(k) /\ request'[k] = [request[k] EXCEPT !.phase = "answered",
                                            !.principal = "absent", !.answer = "unauthenticated"]
  <2>1. InFlight(k)
    BY DEF Resolved, InFlight
  <2> QED BY <2>1, AnsweredRequest DEF Answers
<1>2. request'[k].token = request[k].token /\ request'[k].answer = "unauthenticated"
  BY <1>1 DEF SessionInv, SessionTypeOK, Request
<1>3. cookie # None => session[cookie].state \in {"live", "ended"}
  BY DEF ScreenInv, AnswersInv, TokensDrawn, SessionInv, SessionTypeOK
<1>4. AnswerSound(k)'
  BY <1>2, <1>3 DEF AnswerSound
<1> QED BY <1>1, <1>4, ServersKeepScreen, UnchangedSession

(* A service that answers something nothing relies on. *)
LEMMA PlainAnswerScreen ==
    ASSUME SessionInv, ScreenInv, NEW k \in Kinds, NEW a \in Answers, InFlight(k), Answer(k, a),
           a # "unauthenticated" \/ excuse' # {}, a = "ok" => k \in Loads \cup {"logout"},
           a = "password_change_required" => request[k].token # None,
           SessionStep, mustChange' = mustChange, excuse \subseteq excuse',
           UNCHANGED <<cookie, status, user, page, alert>>
    PROVE  ScreenInv'
<1>1. k \in Loads \cup {"logout"} => k \notin {"boot", "login", "poll", "change"}
  BY SessionAssumption
<1>2. RequestServed(k) /\ request'[k] = [request[k] EXCEPT !.phase = "answered",
                                            !.principal = "absent", !.answer = a]
  BY <1>1, AnsweredRequest
<1>3. request'[k].answer = a /\ request'[k].token = request[k].token
  BY <1>2 DEF SessionInv, SessionTypeOK, Request
<1>4. AnswerSound(k)'
  BY <1>1, <1>3 DEF AnswerSound
<1> QED BY <1>2, <1>4, ServersKeepScreen

LEMMA NetworkScreen ==
    ASSUME SessionInv, ScreenInv, NEW k \in Kinds, Network(k) PROVE ScreenInv'
<1> USE DEF browserVars
<1>1. request \in [Kinds -> Request] /\ request[k] \in Request
  BY DEF SessionInv, SessionTypeOK
<1>2. CASE Validate(k)
  <2>1. /\ request[k].phase = "sent"
        /\ request' = [request EXCEPT ![k] = [request[k] EXCEPT !.phase = "validated",
                                                 !.principal = Validated(request[k].token)]]
    BY <1>1, <1>2 DEF Validate
  <2>2. request'[k].phase = "validated" /\ request'[k].token = request[k].token
    BY <1>1, <2>1 DEF Request
  <2>3. RequestServed(k)
    BY <1>1, <2>1, <2>2 DEF RequestServed, LoginReady, InFlight
  <2>4. AnswerSound(k)'
    BY <2>2 DEF AnswerSound
  <2> QED BY <1>2, <2>3, <2>4, ServersKeepScreen, UnchangedSession DEF Validate, serverVars
<1>3. CASE ServeMe(k)
  <2> DEFINE row == session[request[k].token]
             owner == row.owner
  <2>1. /\ Resolved(k) /\ InFlight(k) /\ k \in {"boot", "poll"}
        /\ UNCHANGED <<session, mustChange, browserVars>>
    BY <1>3 DEF ServeMe, Resolved, InFlight
  <2>2. CASE Principal(k) = "absent"
    <3>1. Answer(k, "unauthenticated")
      BY <1>3, <2>2 DEF ServeMe
    <3> QED BY <2>1, <2>2, <3>1, NobodyFacts, UnauthenticatedScreen
  <2>3. CASE Principal(k) = "must"
    <3>1. Answer(k, "password_change_required")
      BY <1>3, <2>3 DEF ServeMe
    <3>2. request[k].token # None
      BY <2>1, <2>3, PrincipalFacts, SessionAssumption
    <3> QED BY <2>1, <3>1, <3>2, PlainAnswerScreen, UnchangedSession DEF Answers
  <2>4. CASE /\ Principal(k) = "free"
             /\ request' = [request EXCEPT ![k] =
                   [@ EXCEPT !.phase = "answered", !.principal = "absent", !.answer = "ok",
                             !.who = owner, !.must = mustChange[owner]]]
    <3> DEFINE r == [request[k] EXCEPT !.phase = "answered", !.principal = "absent",
                       !.answer = "ok", !.who = owner, !.must = mustChange[owner]]
    <3>1. request' = [request EXCEPT ![k] = r]
      BY <1>1, <2>4
    <3>2. r.token = request[k].token /\ r.who = owner /\ r.answer = "ok" /\ r.phase = "answered"
      BY <1>1 DEF Request
    <3> HIDE DEF r
    <3>3. request'[k] = r /\ \A j \in Kinds \ {k} : request'[j] = request[j]
      BY <1>1, <3>1
    <3>4. request[k].token # None
      BY <2>1, <2>4, PrincipalFacts, SessionAssumption
    <3>5. RequestServed(k) /\ AnswerSound(k)'
      BY <2>1, <3>2, <3>3, <3>4 DEF RequestServed, AnswerSound
    <3> QED BY <2>1, <3>5, ServersKeepScreen, UnchangedSession
  <2>5. CASE row.state = "ended" /\ Answer(k, "unauthenticated")
    BY <2>1, <2>5, UnauthenticatedScreen
  <2> QED BY <1>3, <2>2, <2>3, <2>4, <2>5 DEF ServeMe
<1>4. CASE ServeLoad(k)
  <2>1. /\ Resolved(k) /\ InFlight(k) /\ k \in Loads
        /\ UNCHANGED <<session, mustChange, browserVars>>
    BY <1>4 DEF ServeLoad, Resolved, InFlight
  <2>2. CASE Principal(k) = "absent" /\ Answer(k, "unauthenticated")
    BY <2>1, <2>2, NobodyFacts, UnauthenticatedScreen
  <2>3. ASSUME NEW a \in {"password_change_required", "ok"}, Answer(k, a),
               Principal(k) # "absent"
        PROVE  ScreenInv'
    <3>1. request[k].token # None
      BY <2>1, <2>3, PrincipalFacts, SessionAssumption
    <3> QED BY <2>1, <2>3, <3>1, PlainAnswerScreen, UnchangedSession DEF Answers
  <2> QED BY <1>4, <2>2, <2>3 DEF ServeLoad
<1> QED BY <1>2, <1>3, <1>4 DEF Network

(* A login draws a token nobody knows yet. *)
LEMMA ServeLoginScreen ==
    ASSUME SessionInv, ScreenInv, ServeLogin PROVE ScreenInv'
<1> USE DEF browserVars, InFlight
<1> DEFINE s == request["login"].who
<1>1. /\ SessionTypeOK /\ "login" \in Kinds /\ request["login"] \in Request
      /\ RequestSound("login") /\ request \in [Kinds -> Request]
  BY DEF SessionInv, SessionTypeOK, Kinds
<1>2. mustChange' = mustChange /\ UNCHANGED browserVars /\ InFlight("login")
  BY DEF ServeLogin, Resolved
<1>3. s \in Staff
  BY <1>1 DEF ServeLogin, Resolved, RequestSound
<1>4. CASE Answer("login", "invalid_credentials") /\ UNCHANGED session
  BY <1>1, <1>2, <1>4, PlainAnswerScreen, UnchangedSession DEF Answers
<1>5. CASE /\ session[Fresh].state = "unused"
           /\ session' = [session EXCEPT ![Fresh] = [@ EXCEPT !.state = "live", !.owner = s]]
           /\ request' = [request EXCEPT !["login"] =
                  [@ EXCEPT !.phase = "answered", !.principal = "absent", !.answer = "ok",
                            !.token = Fresh, !.must = mustChange[s]]]
  <2>1. PICK t \in Tokens : t = Fresh
    <3>1. \E t \in Tokens :
             session[t].state = "unused" \/ \A u \in Tokens : session[u].state # "unused"
      BY SessionAssumption
    <3> QED BY <3>1 DEF Fresh
  <2> DEFINE row == [session[t] EXCEPT !.state = "live", !.owner = s]
             r == [request["login"] EXCEPT !.phase = "answered", !.principal = "absent",
                      !.answer = "ok", !.token = t, !.must = mustChange[s]]
  <2>2. /\ session' = [session EXCEPT ![t] = row] /\ session[t].state = "unused"
        /\ request' = [request EXCEPT !["login"] = r]
    BY <1>5, <2>1
  <2>3. /\ row.state = "live" /\ row.owner = s
        /\ r.token = t /\ r.who = s /\ r.phase = "answered" /\ r.answer = "ok"
    BY <1>1 DEF SessionTypeOK, Request
  <2> HIDE DEF row, r
  <2>4. /\ session'[t] = row /\ \A u \in Tokens \ {t} : session'[u] = session[u]
        /\ request'["login"] = r /\ \A k \in Kinds \ {"login"} : request'[k] = request[k]
    BY <1>1, <2>2 DEF SessionTypeOK
  <2>5. /\ cookie \in Tokens \cup {None} /\ cookie # t /\ t # None
        /\ \A k \in Kinds : /\ request[k].token \in Tokens \cup {None}
                            /\ InFlight(k) => request[k].token # t
    BY <1>1, <2>2, SessionAssumption
       DEF SessionTypeOK, Request, ScreenInv, AnswersInv, TokensDrawn
  <2>6. TokensDrawn'
    BY <1>2, <2>3, <2>4, <2>5 DEF TokensDrawn, ScreenInv, AnswersInv
  <2>7. LoginIsFresh'
    BY <1>2, <2>3, <2>4, <2>5 DEF LoginIsFresh
  <2>8. ASSUME NEW k \in Kinds PROVE AnswerSound(k)'
    <3>1. CASE k = "login"
      BY <2>3, <2>4, <3>1 DEF AnswerSound
    <3>2. CASE k # "login"
      <4> SUFFICES ASSUME request[k].phase = "answered" PROVE AnswerSound(k)'
        BY <2>4, <3>2 DEF AnswerSound
      <4>1. AnswerSound(k) /\ request[k].token # t /\ request'[k] = request[k]
        BY <2>4, <2>5, <3>2 DEF ScreenInv, AnswersInv
      <4>2. session'[request[k].token] = session[request[k].token] \/ request[k].token = None
        BY <2>4, <2>5, <4>1
      <4>3. cookie # None => session'[cookie] = session[cookie]
        BY <2>4, <2>5
      <4> QED BY <1>2, <4>1, <4>2, <4>3 DEF AnswerSound
    <3> QED BY <3>1, <3>2
  <2>9. AlertIsTheForms' /\ ScreenTellsTheSession'
    BY <1>2, <2>4, <2>5 DEF ScreenInv, AlertIsTheForms, ScreenTellsTheSession
  <2> QED BY <2>6, <2>7, <2>8, <2>9 DEF ScreenInv, AnswersInv
<1> QED BY <1>4, <1>5 DEF ServeLogin

LEMMA ServeLogoutScreen ==
    ASSUME SessionInv, ScreenInv, ServeLogout PROVE ScreenInv'
<1> DEFINE t == request["logout"].token
<1>1. SessionTypeOK /\ "logout" \in Kinds /\ request["logout"] \in Request
  BY DEF SessionInv, SessionTypeOK, Kinds
<1>2. Resolved("logout") /\ InFlight("logout") /\ UNCHANGED <<mustChange, browserVars>>
  BY DEF ServeLogout, Resolved, InFlight
<1>3. CASE t = None /\ Answer("logout", "unauthenticated") /\ UNCHANGED session
  BY <1>1, <1>2, <1>3, UnauthenticatedScreen
<1>4. CASE /\ t # None /\ Answer("logout", "ok")
           /\ session' = IF session[t].state = "live" THEN Ended(t) ELSE session
  <2>1. SessionStep
    BY <1>1, <1>4, EndedStep, UnchangedSession DEF Request
  <2> QED BY <1>1, <1>2, <1>4, <2>1, PlainAnswerScreen DEF Answers, browserVars
<1> QED BY <1>3, <1>4 DEF ServeLogout

LEMMA ServeChangeScreen ==
    ASSUME SessionInv, ScreenInv, ServeChange PROVE ScreenInv'
<1> DEFINE owner == session[request["change"].token].owner
<1>1. /\ SessionTypeOK /\ "change" \in Kinds /\ request["change"] \in Request
  BY DEF SessionInv, SessionTypeOK, Kinds
<1>2. /\ Resolved("change") /\ InFlight("change") /\ UNCHANGED <<session, browserVars>>
  BY DEF ServeChange, Resolved, InFlight
<1>3. CASE /\ Principal("change") = "absent" /\ Answer("change", "unauthenticated")
           /\ UNCHANGED mustChange
  BY <1>1, <1>2, <1>3, NobodyFacts, UnauthenticatedScreen
<1>4. CASE /\ \E a \in {"invalid_credentials", "refused"} : Answer("change", a)
           /\ UNCHANGED mustChange
  BY <1>1, <1>2, <1>4, PlainAnswerScreen, UnchangedSession DEF Answers, browserVars
<1>5. CASE /\ Principal("change") # "absent" /\ Answer("change", "ok")
           /\ mustChange' = [mustChange EXCEPT ![owner] = FALSE]
  <2>1. RequestServed("change") /\ request'["change"] = [request["change"] EXCEPT
           !.phase = "answered", !.principal = "absent", !.answer = "ok"]
    BY <1>1, <1>2, <1>5, AnsweredRequest DEF Answers
  <2>2. /\ request'["change"].token = request["change"].token
        /\ request'["change"].answer = "ok"
    BY <1>1, <2>1 DEF Request
  <2>3. request["change"].token # None /\ owner \in Staff
    BY <1>1, <1>2, <1>5, PrincipalFacts, SessionAssumption
  <2>4. ~mustChange'[owner] /\ \A s \in Staff : mustChange'[s] => mustChange[s]
    BY <1>1, <1>5, <2>3 DEF SessionTypeOK
  <2>5. AnswerSound("change")'
    BY <1>2, <2>2, <2>3, <2>4 DEF AnswerSound
  <2> QED BY <1>1, <1>2, <2>1, <2>4, <2>5, ServersKeepScreen, UnchangedSession DEF browserVars
<1> QED BY <1>3, <1>4, <1>5 DEF ServeChange

LEMMA FaultScreen ==
    ASSUME SessionInv, ScreenInv, Fault PROVE ScreenInv'
<1> USE DEF serverVars, browserVars, InFlight
<1>1. ASSUME NEW k \in Kinds, ValidationFails(k) PROVE ScreenInv'
  BY <1>1, PlainAnswerScreen, UnchangedSession DEF ValidationFails, Answers
<1>2. ASSUME NEW k \in Kinds, NotServed(k) PROVE ScreenInv'
  BY <1>2, PlainAnswerScreen, UnchangedSession DEF NotServed, Answers
<1>3. ASSUME NEW k \in Kinds, AnswerLost(k) PROVE ScreenInv'
  BY <1>3, PlainAnswerScreen, UnchangedSession DEF AnswerLost, Answers
<1>4. ASSUME NEW t \in Tokens, EndSession(t) PROVE ScreenInv'
  <2>1. SessionStep
    BY <1>4, EndedStep DEF EndSession
  <2> QED BY <1>4, <2>1, ServersKeepScreen DEF EndSession
<1> QED BY <1>1, <1>2, <1>3, <1>4 DEF Fault

LEMMA TickScreen ==
    ASSUME SessionInv, ScreenInv, Tick PROVE ScreenInv'
BY ServersKeepScreen, UnchangedSession DEF Tick, browserVars

LEMMA InitScreen == Init => ScreenInv
<1> SUFFICES ASSUME Init PROVE ScreenInv
  OBVIOUS
<1>1. (CHOOSE u \in Tokens : TRUE) \in Tokens /\ (CHOOSE u \in Tokens : TRUE) # None
  BY SessionAssumption
<1>2. \A k \in Kinds : /\ request[k].phase \in {"idle", "sent"}
                       /\ InFlight(k) => request[k].token = cookie
  BY DEF Init, Idle, SentNow, InFlight
<1>3. "login" \in Kinds
  BY DEF Kinds
<1>4. cookie # None => session[cookie].state = "live"
  BY <1>1 DEF Init
<1>5. TokensDrawn /\ LoginIsFresh /\ \A k \in Kinds : AnswerSound(k)
  BY <1>2, <1>3, <1>4 DEF TokensDrawn, LoginIsFresh, LoginReady, AnswerSound
<1>6. AlertIsTheForms /\ ScreenTellsTheSession
  BY DEF Init, AlertIsTheForms, ScreenTellsTheSession
<1> QED BY <1>5, <1>6 DEF ScreenInv, AnswersInv

LEMMA NextKeepsScreen == SessionInv /\ ScreenInv /\ [Next]_vars => ScreenInv'
<1> SUFFICES ASSUME SessionInv, ScreenInv, [Next]_vars PROVE ScreenInv'
  OBVIOUS
<1>1. CASE UNCHANGED vars
  BY <1>1, ServersKeepScreen, UnchangedSession DEF vars, serverVars, browserVars
<1>2. CASE Next
  BY <1>2, PersonScreen, NetworkScreen, ServeLoginScreen, ServeLogoutScreen, ServeChangeScreen,
     SendPollScreen, ArriveScreen, FaultScreen, TickScreen DEF Next
<1> QED BY <1>1, <1>2

(* The screen is about the session the browser holds, whatever the order in *)
(* which any number of answers arrive and whoever signs in, out or is       *)
(* deactivated meanwhile.  The exceptions are an answer that crossed a      *)
(* change of cookie, a sign-out without answer and a validation that        *)
(* failed.  After a wrong current password, which auth.tsx takes for a dead *)
(* session, somebody may be shown as signed out, and nobody as another.     *)
THEOREM TheScreenTellsTheSession == Spec => []ScreenTellsTheSession
<1>1. SessionInv /\ [Next]_vars /\ ScreenInv => ScreenInv'
  BY NextKeepsScreen
<1>2. ScreenInv => ScreenTellsTheSession
  BY DEF ScreenInv
<1> QED BY <1>1, <1>2, InitScreen, SessionInvariant, PTL DEF Spec

-----------------------------------------------------------------------------
(* The answer that keeps the polling up: the change is not seen yet. *)
StalePoll ==
    /\ request["poll"].phase = "answered"
    /\ request["poll"].answer = "password_change_required"
    /\ request["poll"].token = cookie

(* A validation under way that read the account before its change. *)
StaleValidation(k) ==
    /\ request[k].phase = "validated" /\ request[k].principal = "must"
    /\ request[k].token = cookie

Polling == poll.on = TRUE

(* While the form polls, the change was made PollFor before the deadline:   *)
(* whatever the gateway still holds to the contrary, in its cache, in a     *)
(* validation or in an answer under way, is older than that.                *)
PollOutlives ==
    Polling /\ excuse = {} /\ cookie # None =>
        /\ ~mustChange[session[cookie].owner]
        /\ cache[cookie].principal = "must" =>
              cache[cookie].expires + PollFor =< poll.deadline + TTL
        /\ \A k \in Kinds : StaleValidation(k) => now + PollFor =< poll.deadline
        /\ StalePoll => now + PollFor =< poll.deadline + TTL

PollInv ==
    /\ InFlight("poll") => Polling
    /\ PollOutlives
    /\ PollOutlastsCache

(* A step of the browser that leaves the loop and the cookie alone. *)
LEMMA BrowserKeepsPoll ==
    ASSUME SessionInv, PollInv, ServerUnchanged, cookie' = cookie, poll' = poll,
           InFlight("poll")' => InFlight("poll") \/ Polling,
           excuse' = {} => excuse = {} \/ ~Polling,
           alert' # "stale" \/ (alert' = alert /\ (excuse' = {} => excuse = {})),
           \A k \in Kinds : RequestMove(k)
    PROVE  PollInv'
<1> USE DEF ServerUnchanged, serverVars
<1>1. PollOutlastsCache'
  BY DEF PollOutlastsCache, PollInv
<1>2. "poll" \in Kinds
  BY DEF Kinds
<1>3. /\ \A k \in Kinds : StaleValidation(k)' => StaleValidation(k)
      /\ StalePoll' => StalePoll
  BY <1>2 DEF RequestMove, StaleValidation, StalePoll
<1>4. Polling' = Polling
  BY DEF Polling
<1>5. PollOutlives'
  BY <1>3, <1>4 DEF PollOutlives, PollInv
<1> QED BY <1>1, <1>4, <1>5 DEF PollInv

LEMMA PersonPoll ==
    ASSUME SessionInv, ScreenInv, PollInv, Person PROVE PollInv'
<1> USE DEF ServerUnchanged, serverVars, browserVars
<1>1. /\ request \in [Kinds -> Request]
      /\ {"boot", "login", "logout", "change", "poll"} \subseteq Kinds /\ Loads \subseteq Kinds
      /\ "poll" \notin Loads
  BY SessionAssumption DEF SessionInv, SessionTypeOK, Kinds, PollInv
<1>2. \A c : /\ SentNow(c).phase = "sent" /\ SentNow(c).token = c /\ Idle.phase = "idle"
             /\ \A s : /\ [SentNow(c) EXCEPT !.who = s].phase = "sent"
                       /\ [SentNow(c) EXCEPT !.who = s].token = c
  BY DEF SentNow, Idle
<1>3. ASSUME NEW s \in Staff, SubmitSignIn(s) PROVE PollInv'
  <2>1. (\A j \in Kinds : RequestMove(j)) /\ (InFlight("poll")' => InFlight("poll"))
    BY <1>1, <1>2, <1>3 DEF SubmitSignIn, RequestMove, InFlight
  <2> QED BY <1>1, <1>3, <2>1, BrowserKeepsPoll DEF SubmitSignIn
<1>4. CASE SignOut
  <2>1. (\A j \in Kinds : RequestMove(j)) /\ (InFlight("poll")' => InFlight("poll"))
    BY <1>1, <1>2, <1>4 DEF SignOut, RequestMove, InFlight
  <2> QED BY <1>1, <1>4, <2>1, BrowserKeepsPoll DEF SignOut
<1>5. CASE SubmitChange
  <2>1. (\A j \in Kinds : RequestMove(j)) /\ (InFlight("poll")' => InFlight("poll"))
    BY <1>1, <1>2, <1>5 DEF SubmitChange, RequestMove, InFlight
  <2> QED BY <1>1, <1>5, <2>1, BrowserKeepsPoll DEF SubmitChange
<1>6. CASE OpenChangePassword
  <2>1. (\A j \in Kinds : RequestMove(j)) /\ (InFlight("poll")' => InFlight("poll"))
    BY <1>1, <1>6 DEF OpenChangePassword, RequestMove, InFlight
  <2> QED BY <1>1, <1>6, <2>1, BrowserKeepsPoll DEF OpenChangePassword
<1>7. CASE Cancel
  <2>1. cookie' = cookie /\ \A j \in Kinds : RequestMove(j)
    BY <1>1, <1>7, ShowMoves DEF Cancel
  <2>2. (InFlight("poll")' => InFlight("poll")) /\ alert' \in {alert, "none"}
    BY <1>1, <1>7 DEF Cancel, Show, Opened, FreeLoad, InFlight
  <2> QED BY <1>1, <1>7, <2>1, <2>2, BrowserKeepsPoll DEF Cancel
<1>8. CASE TryAgain
  <2>1. (\A j \in Kinds : RequestMove(j)) /\ (InFlight("poll")' => InFlight("poll"))
    BY <1>1, <1>2, <1>8 DEF TryAgain, RequestMove, InFlight
  <2> QED BY <1>1, <1>8, <2>1, BrowserKeepsPoll DEF TryAgain
<1>9. ASSUME NEW l \in Loads, Load(l) PROVE PollInv'
  <2>1. (\A j \in Kinds : RequestMove(j)) /\ (InFlight("poll")' => InFlight("poll"))
    BY <1>1, <1>2, <1>9 DEF Load, RequestMove, InFlight
  <2> QED BY <1>1, <1>9, <2>1, BrowserKeepsPoll DEF Load
<1>10. CASE Refresh
  <2>1. (\A j \in Kinds : RequestMove(j)) /\ ~InFlight("poll")'
    BY <1>1, <1>2, <1>10 DEF Refresh, RequestMove, InFlight
  <2>2. ~Polling
    BY <1>10 DEF Refresh, Changing, Polling
  <2> QED BY <1>10, <2>1, <2>2, BrowserKeepsPoll DEF Refresh
<1> QED BY <1>3, <1>4, <1>5, <1>6, <1>7, <1>8, <1>9, <1>10 DEF Person

(* An answer that is shown changes nothing of the loop's request. *)
LEMMA ShownPoll ==
    ASSUME SessionInv, NEW st, NEW u, NEW c, NEW p, NEW k \in Kinds, Show(st, u, c, p, Done(k))
    PROVE  /\ request'["poll"] = Done(k)["poll"]
           /\ alert' \in {alert, "none"}
           /\ RedirectFrom(p, st) # "change-password" => alert' = "none"
<1>1. "poll" \notin Loads /\ "poll" \in Kinds /\ request \in [Kinds -> Request]
  BY SessionAssumption DEF Kinds, SessionInv, SessionTypeOK
<1> QED BY <1>1 DEF Show, Opened, FreeLoad, Done

LEMMA ArrivePoll ==
    ASSUME SessionInv, ScreenInv, PollInv, Arrive PROVE PollInv'
<1> USE DEF ServerUnchanged, serverVars
<1>1. /\ {"boot", "login", "logout", "change", "poll"} \subseteq Kinds /\ Loads \subseteq Kinds
      /\ "poll" \notin Loads /\ request \in [Kinds -> Request] /\ (InFlight("poll") => Polling)
  BY SessionAssumption DEF SessionInv, SessionTypeOK, Kinds, PollInv
<1>2. /\ \A k \in Kinds \ {"poll"} : Done(k)["poll"] = request["poll"]
      /\ Done("poll")["poll"] = Idle /\ Idle.phase = "idle"
  BY <1>1 DEF Done, Idle
<1>3. \A k : excuse \subseteq Excused(k) /\ (Excused(k) = {} => request[k].token = cookie)
  BY DEF Excused
<1>4. /\ now \in Nat /\ TTL \in Nat /\ PollFor \in Nat /\ TTL < PollFor /\ poll.deadline \in Nat
      /\ \A t \in Tokens : cache[t].expires \in Nat /\ cache[t].expires =< now + TTL
  BY SessionAssumption DEF SessionInv, SessionTypeOK, TokenSound
<1>5. /\ request'["poll"] = request["poll"] => (InFlight("poll")' => InFlight("poll"))
      /\ request'["poll"] = Idle => ~InFlight("poll")' /\ ~StalePoll'
      /\ poll' = poll => Polling' = Polling
      /\ poll' = NotPolling => ~Polling'
  BY DEF InFlight, StalePoll, Polling, NotPolling, Idle
<1>6. ASSUME NEW k \in Kinds \ {"poll"}, NEW st, NEW u, NEW p,
             Show(st, u, cookie, p, Done(k)), ServerUnchanged, poll' = poll, excuse' = Excused(k)
      PROVE  PollInv'
  <2>1. cookie' = cookie /\ \A j \in Kinds : RequestMove(j)
    BY <1>6, ShowMoves
  <2>2. request'["poll"] = request["poll"] /\ alert' \in {alert, "none"}
    BY <1>2, <1>6, ShownPoll
  <2> QED BY <1>1, <1>3, <1>5, <1>6, <2>1, <2>2, BrowserKeepsPoll
<1>7. CASE BootAnswered
  <2>1. \E st, u : Show(st, u, cookie, page, Done("boot"))
    BY <1>7 DEF BootAnswered
  <2> QED BY <1>1, <1>6, <1>7, <2>1 DEF BootAnswered
<1>8. CASE LoginAnswered
  <2> DEFINE r == request["login"]
  <2>1. CASE r.answer = "ok"
    <3>1. Show(StatusOf(r.must), r.who, r.token, page, Done("login"))
      BY <1>8, <2>1 DEF LoginAnswered
    <3>2. request'["poll"] = request["poll"] /\ alert' \in {alert, "none"} /\ poll' = poll
      BY <1>1, <1>2, <1>8, <3>1, ShownPoll DEF LoginAnswered
    <3>3. excuse' = {} => page = "login" /\ ~Polling
      BY <1>8, <2>1 DEF LoginAnswered, Changing, Polling
    <3>4. excuse' = {} => alert' = "none"
      BY <3>2, <3>3 DEF ScreenInv, AlertIsTheForms
    <3> QED BY <1>1, <1>5, <3>2, <3>3, <3>4 DEF PollInv, PollOutlives, PollOutlastsCache
  <2>2. CASE r.answer # "ok"
    <3>1. request' = Done("login") /\ UNCHANGED <<cookie, status, user, page, alert, excuse>>
      BY <1>8, <2>2 DEF LoginAnswered
    <3>2. \A j \in Kinds : RequestMove(j)
      BY <1>1, <3>1, DoneMoves
    <3> QED BY <1>1, <1>2, <1>5, <1>8, <3>1, <3>2, BrowserKeepsPoll DEF LoginAnswered
  <2> QED BY <2>1, <2>2
<1>9. CASE LogoutAnswered
  <2>1. PICK c \in {cookie, None} :
           /\ Show("anonymous", None, c, "login", Done("logout"))
           /\ excuse' = {} => c = None
    BY <1>9 DEF LogoutAnswered
  <2>2. cookie' = c
    BY <1>1, <2>1, ShowMoves
  <2>3. request'["poll"] = request["poll"] /\ alert' = "none" /\ poll' = poll
    BY <1>1, <1>2, <1>9, <2>1, ShownPoll DEF RedirectFrom, LeaveLogin, LogoutAnswered
  <2> QED BY <1>1, <1>5, <2>1, <2>2, <2>3 DEF PollInv, PollOutlives, PollOutlastsCache
<1>10. CASE ChangeAnswered
  <2> DEFINE r == request["change"]
  <2>1. /\ request' = Done("change") /\ request'["poll"] = request["poll"]
        /\ \A j \in Kinds : RequestMove(j)
    BY <1>1, <1>2, <1>10, DoneMoves DEF ChangeAnswered
  <2>2. CASE r.answer = "ok"
    <3>1. /\ poll' = [on |-> TRUE, wake |-> now, deadline |-> now + PollFor]
          /\ alert' = alert /\ cookie' = cookie /\ excuse' = Excused("change")
          /\ ServerUnchanged
      BY <1>10, <2>2 DEF ChangeAnswered
    <3>2. ASSUME excuse' = {}, cookie # None PROVE ~mustChange[session[cookie].owner]
      <4>1. AnswerSound("change")
        BY <1>1 DEF ScreenInv, AnswersInv
      <4> QED BY <1>3, <1>10, <2>2, <3>1, <3>2, <4>1 DEF AnswerSound, ChangeAnswered
    <3>3. cookie # None => cache[cookie].expires \in Nat /\ cache[cookie].expires =< now + TTL
      BY <1>4 DEF SessionInv, SessionTypeOK
    <3>4. PollOutlives'
      BY <1>4, <3>1, <3>2, <3>3 DEF PollOutlives
    <3>5. PollOutlastsCache'
      BY <1>3, <3>1 DEF PollOutlastsCache, PollInv
    <3>6. Polling'
      BY <3>1 DEF Polling
    <3> QED BY <3>4, <3>5, <3>6 DEF PollInv
  <2>3. CASE r.answer # "ok"
    BY <1>1, <1>3, <1>5, <1>10, <2>1, <2>3, BrowserKeepsPoll DEF ChangeAnswered
  <2> QED BY <2>2, <2>3
<1>11. CASE PollAnswered
  <2> DEFINE r == request["poll"]
             stale == r.answer = "password_change_required"
  <2>1. /\ ServerUnchanged /\ r.phase = "answered" /\ excuse' = Excused("poll") /\ Polling
        /\ excuse' = {} => excuse = {} /\ r.token = cookie
    BY <1>1, <1>3, <1>11 DEF PollAnswered, InFlight
  <2>2. CASE r.answer = "ok" /\ Show("authenticated", r.who, cookie, "app", Done("poll"))
    <3>1. request'["poll"] = Idle /\ alert' = "none"
      BY <1>1, <1>2, <2>2, ShownPoll DEF RedirectFrom, LeaveApp
    <3>2. poll' = NotPolling
      BY <1>11, <2>2 DEF PollAnswered
    <3> QED BY <1>2, <1>5, <3>1, <3>2 DEF PollInv, PollOutlives, PollOutlastsCache
  <2>3. CASE /\ stale /\ now < poll.deadline
             /\ Show("must-change-password", user, cookie, page, Done("poll"))
    <3>1. request'["poll"] = Idle /\ alert' \in {alert, "none"}
      BY <1>1, <1>2, <2>3, ShownPoll
    <3>2. cookie' = cookie /\ \A j \in Kinds : RequestMove(j)
      BY <1>1, <2>3, ShowMoves
    <3>3. Polling' = Polling /\ poll'.deadline = poll.deadline
      BY <1>11, <2>3 DEF PollAnswered, SessionInv, SessionTypeOK, Polling
    <3>4. \A k \in Kinds : StaleValidation(k)' => StaleValidation(k)
      BY <3>2 DEF RequestMove, StaleValidation
    <3>5. ~StalePoll' /\ ~InFlight("poll")'
      BY <1>5, <3>1
    <3>6. PollOutlives'
      BY <2>1, <3>2, <3>3, <3>4, <3>5 DEF PollOutlives, PollInv
    <3>7. PollOutlastsCache'
      BY <2>1, <3>1 DEF PollOutlastsCache, PollInv
    <3> QED BY <3>5, <3>6, <3>7 DEF PollInv
  <2>4. CASE r.answer # "ok" /\ ~(stale /\ now < poll.deadline)
    <3>1. /\ poll' = NotPolling /\ request' = Done("poll")
          /\ alert' = "stale" => stale
      BY <1>11, <2>4 DEF PollAnswered
    <3>2. stale => excuse' # {}
      <4> SUFFICES ASSUME stale, excuse' = {} PROVE FALSE
        OBVIOUS
      <4>1. cookie # None /\ StalePoll
        BY <1>1, <2>1 DEF ScreenInv, AnswersInv, AnswerSound, StalePoll
      <4>2. now + PollFor =< poll.deadline + TTL
        BY <2>1, <4>1 DEF PollInv, PollOutlives
      <4> QED BY <1>4, <2>4, <4>2
    <3> QED BY <1>2, <1>5, <3>1, <3>2 DEF PollInv, PollOutlives, PollOutlastsCache
  <2> QED BY <1>11, <2>2, <2>3, <2>4 DEF PollAnswered
<1>12. ASSUME NEW l \in Loads, LoadAnswered(l) PROVE PollInv'
  BY <1>1, <1>6, <1>12 DEF LoadAnswered
<1> QED BY <1>7, <1>8, <1>9, <1>10, <1>11, <1>12 DEF Arrive

LEMMA SendPollPoll ==
    ASSUME SessionInv, PollInv, SendPoll PROVE PollInv'
<1>1. \A j \in Kinds : RequestMove(j)
  BY DEF SessionInv, SessionTypeOK, SendPoll, RequestMove, SentNow, Idle, browserVars
<1>2. Polling
  BY DEF SendPoll, Polling
<1> QED BY <1>1, <1>2, BrowserKeepsPoll DEF SendPoll, ServerUnchanged, browserVars


(* A step of the servers on one request, or on none: what it admits to the  *)
(* cache was validated before the change, and so was what it answers.       *)
LEMMA ServersKeepPoll ==
    ASSUME SessionInv, ScreenInv, PollInv, SessionStep, now' = now,
           \A s \in Staff : mustChange'[s] => mustChange[s],
           UNCHANGED <<cookie, poll, alert>>, excuse' = {} => excuse = {},
           NEW k \in Kinds, \A j \in Kinds \ {k} : request'[j] = request[j],
           InFlight(k)' => InFlight(k),
           cache' = cache \/ Admit(k),
           StaleValidation(k)' => StaleValidation(k) \/ mustChange[session[cookie].owner],
           StalePoll' => \/ StalePoll
                         \/ /\ Resolved("poll") /\ Principal("poll") = "must"
                            /\ request["poll"].token = cookie
    PROVE  PollInv'
<1>1. /\ "poll" \in Kinds /\ now \in Nat /\ TTL \in Nat /\ PollFor \in Nat
      /\ poll.deadline \in Nat /\ cookie \in Tokens \cup {None}
      /\ \A t \in Tokens : cache[t].expires \in Nat
      /\ \A j \in Kinds : request[j].token \in Tokens \cup {None}
  BY SessionAssumption DEF SessionInv, SessionTypeOK, Kinds, Request
<1>2. /\ InFlight("poll")' => InFlight("poll")
      /\ Polling' = Polling
  BY <1>1 DEF InFlight, Polling
<1>3. PollOutlastsCache'
  BY DEF PollInv, PollOutlastsCache
<1>4. ASSUME Polling, excuse = {}, cookie # None
      PROVE  /\ ~mustChange'[session'[cookie].owner]
             /\ cache'[cookie].principal = "must" =>
                   cache'[cookie].expires + PollFor =< poll.deadline + TTL
             /\ \A j \in Kinds : StaleValidation(j)' => now + PollFor =< poll.deadline
             /\ StalePoll' => now + PollFor =< poll.deadline + TTL
  <2>1. /\ ~mustChange[session[cookie].owner]
        /\ cache[cookie].principal = "must" =>
              cache[cookie].expires + PollFor =< poll.deadline + TTL
        /\ \A j \in Kinds : StaleValidation(j) => now + PollFor =< poll.deadline
        /\ StalePoll => now + PollFor =< poll.deadline + TTL
    BY <1>4 DEF PollInv, PollOutlives
  <2>2. cookie \in Tokens /\ session[cookie].state # "unused"
    BY <1>1, <1>4 DEF ScreenInv, AnswersInv, TokensDrawn
  <2>3. ~mustChange'[session'[cookie].owner]
    BY <2>1, <2>2, SessionsLast DEF SessionInv, TokenSound
  <2>4. ASSUME cache'[cookie].principal = "must"
        PROVE  cache'[cookie].expires + PollFor =< poll.deadline + TTL
    <3>1. CASE cache'[cookie] = cache[cookie]
      BY <2>1, <2>4, <3>1
    <3>2. CASE cache'[cookie] # cache[cookie]
      <4>1. /\ Admit(k) /\ request[k].phase = "validated" /\ request[k].token = cookie
            /\ cache'[cookie] = [principal |-> request[k].principal, expires |-> now + TTL]
        BY <2>2, <3>2 DEF Admit, SessionInv, SessionTypeOK
      <4>2. StaleValidation(k) /\ cache'[cookie].expires = now + TTL
        BY <2>4, <4>1 DEF StaleValidation
      <4>3. now + PollFor =< poll.deadline
        BY <2>1, <4>2
      <4> QED BY <1>1, <4>2, <4>3
    <3> QED BY <3>1, <3>2
  <2>5. ASSUME NEW j \in Kinds, StaleValidation(j)' PROVE now + PollFor =< poll.deadline
    BY <2>1, <2>5 DEF StaleValidation
  <2>6. ASSUME StalePoll' PROVE now + PollFor =< poll.deadline + TTL
    <3>1. CASE StalePoll
      BY <2>1, <3>1
    <3>2. CASE /\ Resolved("poll") /\ Principal("poll") = "must"
               /\ request["poll"].token = cookie
      <4>1. CASE request["poll"].phase = "validated"
        <5>1. StaleValidation("poll")
          BY <3>2, <4>1 DEF StaleValidation, Principal
        <5>2. now + PollFor =< poll.deadline
          BY <1>1, <2>1, <5>1
        <5> QED BY <1>1, <5>2
      <4>2. CASE request["poll"].phase # "validated"
        <5>1. cache[cookie].principal = "must" /\ now =< cache[cookie].expires
          BY <3>2, <4>2 DEF Principal, Cached
        <5>2. cache[cookie].expires \in Nat
          BY <1>1, <2>2
        <5> QED BY <1>1, <2>1, <5>1, <5>2
      <4> QED BY <4>1, <4>2
    <3> QED BY <2>6, <3>1, <3>2
  <2> QED BY <2>3, <2>4, <2>5, <2>6
<1>5. PollOutlives'
  BY <1>2, <1>4 DEF PollOutlives
<1> QED BY <1>2, <1>3, <1>5 DEF PollInv

(* An answer of a service. *)
LEMMA AnswerPoll ==
    ASSUME SessionInv, ScreenInv, PollInv, SessionStep, now' = now,
           \A s \in Staff : mustChange'[s] => mustChange[s],
           UNCHANGED <<cookie, poll, alert>>, excuse' = {} => excuse = {},
           NEW k \in Kinds, InFlight(k), NEW a \in Answers, Answer(k, a),
           cache' = cache \/ Admit(k),
           k = "poll" /\ a = "password_change_required" =>
              Resolved("poll") /\ Principal("poll") = "must"
    PROVE  PollInv'
<1>1. request \in [Kinds -> Request] /\ request[k] \in Request /\ "poll" \in Kinds
  BY DEF SessionInv, SessionTypeOK, Kinds
<1>2. request' = [request EXCEPT ![k] = [request[k] EXCEPT !.phase = "answered",
                                                 !.principal = "absent", !.answer = a]]
  BY <1>1 DEF Answer
<1>3. /\ \A j \in Kinds \ {k} : request'[j] = request[j]
      /\ request'[k].phase = "answered" /\ request'[k].answer = a
      /\ request'[k].token = request[k].token
  BY <1>1, <1>2 DEF Request
<1>4. ~StaleValidation(k)'
  BY <1>3 DEF StaleValidation
<1>5. StalePoll' => \/ StalePoll
                    \/ /\ Resolved("poll") /\ Principal("poll") = "must"
                       /\ request["poll"].token = cookie
  BY <1>1, <1>3 DEF StalePoll
<1> QED BY <1>3, <1>4, <1>5, ServersKeepPoll

(* A request that is not the loop's and is answered otherwise. *)
LEMMA ServedPoll ==
    ASSUME SessionInv, ScreenInv, PollInv, SessionStep, now' = now, mustChange' = mustChange,
           UNCHANGED browserVars, NEW k \in Kinds, InFlight(k), Admit(k),
           NEW r, r.phase = "answered", request' = [request EXCEPT ![k] = r],
           k = "poll" => r.answer = "ok"
    PROVE  PollInv'
<1>1. request \in [Kinds -> Request] /\ "poll" \in Kinds
  BY DEF SessionInv, SessionTypeOK, Kinds
<1>2. request'[k] = r /\ \A j \in Kinds \ {k} : request'[j] = request[j]
  BY <1>1
<1>3. ~StaleValidation(k)'
  BY <1>2 DEF StaleValidation
<1>4. StalePoll' => StalePoll
  BY <1>1, <1>2 DEF StalePoll, browserVars
<1> QED BY <1>2, <1>3, <1>4, ServersKeepPoll DEF browserVars

LEMMA NetworkPoll ==
    ASSUME SessionInv, ScreenInv, PollInv, NEW k \in Kinds, Network(k) PROVE PollInv'
<1> USE DEF browserVars, serverVars
<1>1. request \in [Kinds -> Request] /\ request[k] \in Request
  BY DEF SessionInv, SessionTypeOK
<1>2. CASE Validate(k)
  <2> DEFINE t == request[k].token
  <2>1. /\ request[k].phase = "sent" /\ Validated(t) # "absent"
        /\ request' = [request EXCEPT ![k] = [request[k] EXCEPT !.phase = "validated",
                                                 !.principal = Validated(t)]]
    BY <1>1, <1>2 DEF Validate
  <2>2. /\ request'[k].phase = "validated" /\ request'[k].token = t
        /\ request'[k].principal = Validated(t)
        /\ \A j \in Kinds \ {k} : request'[j] = request[j]
    BY <1>1, <2>1 DEF Request
  <2>3. StaleValidation(k)' => mustChange[session[cookie].owner]
    <3>1. Validated(t) = "must" => mustChange[session[t].owner]
      BY DEF Validated
    <3> QED BY <1>2, <2>2, <3>1 DEF StaleValidation, Validate
  <2>4. StalePoll' => StalePoll
    BY <1>2, <2>2 DEF StalePoll, Validate, Kinds
  <2>5. InFlight(k)
    BY <2>1 DEF InFlight
  <2> QED BY <1>2, <2>2, <2>3, <2>4, <2>5, ServersKeepPoll, UnchangedSession DEF Validate
<1>3. CASE ServeMe(k)
  <2> DEFINE row == session[request[k].token]
             owner == row.owner
  <2>1. /\ Resolved(k) /\ InFlight(k) /\ Admit(k) /\ now' = now
        /\ UNCHANGED <<session, mustChange, browserVars>>
    BY <1>3 DEF ServeMe, Resolved, InFlight
  <2>2. CASE Principal(k) = "absent"
    <3>1. Answer(k, "unauthenticated")
      BY <1>3, <2>2 DEF ServeMe
    <3> QED BY <2>1, <3>1, AnswerPoll, UnchangedSession DEF Answers
  <2>3. CASE Principal(k) = "must"
    <3>1. Answer(k, "password_change_required")
      BY <1>3, <2>3 DEF ServeMe
    <3> QED BY <2>1, <2>3, <3>1, AnswerPoll, UnchangedSession DEF Answers
  <2>4. CASE /\ Principal(k) = "free"
             /\ request' = [request EXCEPT ![k] =
                   [@ EXCEPT !.phase = "answered", !.principal = "absent", !.answer = "ok",
                             !.who = owner, !.must = mustChange[owner]]]
    <3> DEFINE r == [request[k] EXCEPT !.phase = "answered", !.principal = "absent",
                       !.answer = "ok", !.who = owner, !.must = mustChange[owner]]
    <3>1. request' = [request EXCEPT ![k] = r]
      BY <1>1, <2>4
    <3>2. r.answer = "ok" /\ r.phase = "answered"
      BY <1>1 DEF Request
    <3> HIDE DEF r
    <3> QED BY <2>1, <3>1, <3>2, ServedPoll, UnchangedSession
  <2>5. CASE row.state = "ended" /\ Answer(k, "unauthenticated")
    BY <2>1, <2>5, AnswerPoll, UnchangedSession DEF Answers
  <2> QED BY <1>3, <2>2, <2>3, <2>4, <2>5 DEF ServeMe
<1>4. CASE ServeLoad(k)
  <2>1. /\ InFlight(k) /\ Admit(k) /\ now' = now /\ k # "poll"
        /\ UNCHANGED <<session, mustChange, browserVars>>
    BY <1>4, SessionAssumption DEF ServeLoad, Resolved, InFlight
  <2>2. \E a \in Answers : Answer(k, a)
    BY <1>4 DEF ServeLoad, Answers
  <2> QED BY <2>1, <2>2, AnswerPoll, UnchangedSession
<1> QED BY <1>2, <1>3, <1>4 DEF Network

LEMMA ServeLoginPoll ==
    ASSUME SessionInv, ScreenInv, PollInv, ServeLogin PROVE PollInv'
<1> USE DEF browserVars
<1> DEFINE s == request["login"].who
<1>1. /\ SessionTypeOK /\ "login" \in Kinds /\ request["login"] \in Request
      /\ RequestSound("login")
  BY DEF SessionInv, SessionTypeOK, Kinds
<1>2. /\ mustChange' = mustChange /\ now' = now /\ UNCHANGED browserVars /\ Admit("login")
      /\ InFlight("login")
  BY DEF ServeLogin, Resolved, InFlight
<1>3. s \in Staff
  BY <1>1 DEF ServeLogin, Resolved, RequestSound
<1>4. CASE Answer("login", "invalid_credentials") /\ UNCHANGED session
  BY <1>1, <1>2, <1>4, AnswerPoll, UnchangedSession DEF Answers
<1>5. CASE /\ session[Fresh].state = "unused"
           /\ session' = [session EXCEPT ![Fresh] = [@ EXCEPT !.state = "live", !.owner = s]]
           /\ request' = [request EXCEPT !["login"] =
                  [@ EXCEPT !.phase = "answered", !.principal = "absent", !.answer = "ok",
                            !.token = Fresh, !.must = mustChange[s]]]
  <2> DEFINE r == [request["login"] EXCEPT !.phase = "answered", !.principal = "absent",
                      !.answer = "ok", !.token = Fresh, !.must = mustChange[s]]
  <2>1. request' = [request EXCEPT !["login"] = r] /\ r.phase = "answered"
    BY <1>1, <1>5 DEF Request
  <2>2. SessionStep
    BY <1>1, <1>3, <1>5, LoginDraws
  <2> HIDE DEF r
  <2> QED BY <1>1, <1>2, <2>1, <2>2, ServedPoll
<1> QED BY <1>4, <1>5 DEF ServeLogin

LEMMA ServeLogoutPoll ==
    ASSUME SessionInv, ScreenInv, PollInv, ServeLogout PROVE PollInv'
<1> DEFINE t == request["logout"].token
<1>1. "logout" \in Kinds /\ request["logout"] \in Request
  BY DEF SessionInv, SessionTypeOK, Kinds
<1>2. /\ InFlight("logout") /\ Admit("logout") /\ now' = now
      /\ UNCHANGED <<mustChange, browserVars>>
  BY DEF ServeLogout, Resolved, InFlight
<1>3. \E a \in Answers : Answer("logout", a)
  BY DEF ServeLogout, Answers
<1>4. SessionStep
  <2>1. CASE session' = session
    BY <2>1, UnchangedSession
  <2>2. CASE t # None /\ session[t].state = "live" /\ session' = Ended(t)
    BY <1>1, <2>2, EndedStep DEF Request
  <2> QED BY <2>1, <2>2 DEF ServeLogout
<1> QED BY <1>1, <1>2, <1>3, <1>4, AnswerPoll DEF browserVars

LEMMA ServeChangePoll ==
    ASSUME SessionInv, ScreenInv, PollInv, ServeChange PROVE PollInv'
<1>1. "change" \in Kinds
  BY DEF Kinds
<1>2. /\ InFlight("change") /\ Admit("change") /\ now' = now
      /\ UNCHANGED <<session, browserVars>>
  BY DEF ServeChange, Resolved, InFlight
<1>3. \E a \in Answers : Answer("change", a)
  BY DEF ServeChange, Answers
<1>4. \A s \in Staff : mustChange'[s] => mustChange[s]
  BY DEF ServeChange, SessionInv, SessionTypeOK
<1> QED BY <1>1, <1>2, <1>3, <1>4, AnswerPoll, UnchangedSession DEF browserVars

LEMMA FaultPoll ==
    ASSUME SessionInv, ScreenInv, PollInv, Fault PROVE PollInv'
<1> USE DEF serverVars, browserVars, InFlight
<1>1. ASSUME NEW k \in Kinds, ValidationFails(k) PROVE PollInv'
  BY <1>1, AnswerPoll, UnchangedSession DEF ValidationFails, Answers
<1>2. ASSUME NEW k \in Kinds, NotServed(k) PROVE PollInv'
  BY <1>2, AnswerPoll, UnchangedSession DEF NotServed, Answers
<1>3. ASSUME NEW k \in Kinds, AnswerLost(k) PROVE PollInv'
  BY <1>3, AnswerPoll, UnchangedSession DEF AnswerLost, Answers
<1>4. ASSUME NEW t \in Tokens, EndSession(t) PROVE PollInv'
  <2>1. SessionStep
    BY <1>4, EndedStep DEF EndSession
  <2>2. "boot" \in Kinds /\ request' = request
    BY <1>4 DEF Kinds, EndSession
  <2>3. (StalePoll' => StalePoll) /\ (StaleValidation("boot")' => StaleValidation("boot"))
    BY <1>4 DEF StalePoll, StaleValidation, EndSession
  <2> QED BY <1>4, <2>1, <2>2, <2>3, ServersKeepPoll DEF EndSession
<1> QED BY <1>1, <1>2, <1>3, <1>4 DEF Fault

(* Unless Slow, time passes only when nothing that reads the account is     *)
(* under way.                                                               *)
LEMMA TickPoll ==
    ASSUME ~Slow, SessionInv, ScreenInv, PollInv, Tick PROVE PollInv'
<1>1. /\ "poll" \in Kinds /\ UNCHANGED <<session, mustChange, cache, browserVars, request>>
      /\ (\A k \in Kinds : request[k].phase # "validated") /\ ~InFlight("poll")
  BY DEF Tick, Kinds
<1>2. /\ \A k \in Kinds : ~StaleValidation(k)'
      /\ ~StalePoll' /\ ~InFlight("poll")' /\ Polling' = Polling
  BY <1>1 DEF StaleValidation, StalePoll, InFlight, Polling, browserVars
<1>3. PollOutlives'
  BY <1>1, <1>2 DEF PollInv, PollOutlives, browserVars
<1> QED BY <1>1, <1>2, <1>3 DEF PollInv, PollOutlastsCache, browserVars

LEMMA InitPoll == Init => PollInv
BY DEF Init, PollInv, InFlight, Idle, PollOutlives, Polling, NotPolling, PollOutlastsCache, Kinds

LEMMA NextKeepsPoll ==
    ASSUME ~Slow PROVE SessionInv /\ ScreenInv /\ PollInv /\ [Next]_vars => PollInv'
<1> SUFFICES ASSUME SessionInv, ScreenInv, PollInv, [Next]_vars PROVE PollInv'
  OBVIOUS
<1>1. CASE UNCHANGED vars
  <2>1. "boot" \in Kinds /\ (StalePoll' => StalePoll)
        /\ (StaleValidation("boot")' => StaleValidation("boot"))
        /\ (InFlight("boot")' => InFlight("boot"))
    BY <1>1 DEF vars, serverVars, browserVars, Kinds, StalePoll, StaleValidation, InFlight
  <2> QED BY <1>1, <2>1, ServersKeepPoll, UnchangedSession DEF vars, serverVars, browserVars
<1>2. CASE Next
  BY <1>2, PersonPoll, NetworkPoll, ServeLoginPoll, ServeLogoutPoll, ServeChangePoll,
     SendPollPoll, ArrivePoll, FaultPoll, TickPoll DEF Next
<1> QED BY <1>1, <1>2

(* The polls of meAfterPasswordChange outlast whatever the gateway's cache  *)
(* says of the time before the change, since SESSION_CACHE_TTL is less than *)
(* the loop's deadline: the form never reports a change that was made as    *)
(* one that is still to be made, if validations and polls are answered      *)
(* within a tick.                                                           *)
THEOREM ThePollOutlastsTheCache ==
    ASSUME ~Slow PROVE Spec => []PollOutlastsCache
<1>1. SessionInv /\ ScreenInv /\ [Next]_vars /\ PollInv => PollInv'
  BY NextKeepsPoll
<1>2. SessionInv /\ [Next]_vars /\ ScreenInv => ScreenInv'
  BY NextKeepsScreen
<1>3. PollInv => PollOutlastsCache
  BY DEF PollInv
<1> QED BY <1>1, <1>2, <1>3, InitScreen, InitPoll, SessionInvariant, PTL DEF Spec
=============================================================================
