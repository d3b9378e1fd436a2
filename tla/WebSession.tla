----------------------------- MODULE WebSession -----------------------------
(***************************************************************************)
(* Signing in, out and changing a password in the staff console: the       *)
(* AuthProvider and its two listeners (apps/web/src/api/auth.tsx,          *)
(* http.ts), the routes that redirect on its status (RequireAuth, Login,   *)
(* ChangePassword), and behind them the gateway's session cache and the    *)
(* Identity service's sessions.                                            *)
(*                                                                         *)
(* One browser tab.  A request leaves with the cookie of that moment, is   *)
(* resolved by the gateway (from its cache, or by asking Identity), served *)
(* and answered; answers arrive in any order.                              *)
(***************************************************************************)
EXTENDS Naturals, FiniteSets

CONSTANTS Staff,
          Temporary,   \* the accounts created with a password somebody else chose
          Tokens,      \* the session tokens that logins may draw
          Loads,       \* data requests of the pages in flight at one time
          TTL,         \* SESSION_CACHE_TTL
          PollFor,     \* how long meAfterPasswordChange polls
          MaxTime,     \* the clock's bound
          MaxInFlight, \* requests the person leaves in flight at one time
          MaxFaults,   \* the bound on lost, refused and failed requests
          Slow         \* whether a validation, a change or a poll may outlast a tick

None == "none"

ASSUME SessionAssumption ==
    /\ Temporary \subseteq Staff /\ Staff # {} /\ Tokens # {}
    /\ None \notin Staff \cup Tokens
    /\ {TTL, PollFor, MaxTime, MaxInFlight, MaxFaults} \subseteq Nat
    /\ TTL < PollFor
    /\ Loads \cap {"boot", "login", "logout", "change", "poll"} = {}
    /\ Slow \in BOOLEAN

VARIABLES session,     \* the session rows: state, owner and when it ended
          mustChange,  \* staff.must_change_password
          cache,       \* the gateway's cache of validated tokens
          now,         \* the clock, in ticks
          cookie,      \* the token the browser holds
          request,     \* the request of each kind in flight
          status,      \* AuthProvider's status
          user,        \* AuthProvider's user
          page,        \* the route shown
          poll,        \* the loop of meAfterPasswordChange, between two requests
          alert,       \* the error of the change-password form
          excuse,      \* what has happened since that the screen cannot know
          faults

serverVars == <<session, mustChange, cache, now>>
browserVars == <<cookie, status, user, page, poll, alert, excuse>>
vars == <<serverVars, browserVars, request, faults>>

Kinds == {"boot", "login", "logout", "change", "poll"} \cup Loads
Phases == {"idle", "sent", "validated", "answered"}
Principals == {"absent", "free", "must"}
Answers == {"ok", "unauthenticated", "invalid_credentials", "password_change_required",
            "rate_limited", "refused", "network"}
Statuses == {"loading", "anonymous", "must-change-password", "authenticated", "rate-limited",
             "unreachable"}
Pages == {"login", "change-password", "app"}

Idle == [phase |-> "idle", token |-> None, who |-> None, must |-> FALSE,
         principal |-> "absent", answer |-> "ok"]
NotCached == [principal |-> "absent", expires |-> 0]
NotPolling == [on |-> FALSE, wake |-> 0, deadline |-> 0]

Request == [phase : Phases, token : Tokens \cup {None}, who : Staff \cup {None}, must : BOOLEAN,
            principal : Principals, answer : Answers]

SessionTypeOK ==
    /\ session \in [Tokens -> [state : {"unused", "live", "ended"}, owner : Staff \cup {None},
                               ended : 0..MaxTime]]
    /\ mustChange \in [Staff -> BOOLEAN]
    /\ cache \in [Tokens -> [principal : Principals, expires : 0..(MaxTime + TTL)]]
    /\ now \in 0..MaxTime
    /\ cookie \in Tokens \cup {None}
    /\ request \in [Kinds -> Request]
    /\ status \in Statuses
    /\ user \in Staff \cup {None}
    /\ page \in Pages
    /\ poll \in [on : BOOLEAN, wake : 0..(MaxTime + 1), deadline : 0..(MaxTime + PollFor)]
    /\ alert \in {"none", "stale", "failed"}
    /\ excuse \subseteq {"crossed", "validation", "logout", "password"}
    /\ faults \in 0..MaxFaults

SentNow(c) == [Idle EXCEPT !.phase = "sent", !.token = c]
InFlight(k) == request[k].phase # "idle"

(* The person has signed in once already, on this tab or an earlier one, or *)
(* has no cookie; the tab opens at the sign-in form or in the application.  *)
Init ==
    /\ mustChange = [s \in Staff |-> s \in Temporary]
    /\ \E s \in Staff, signedIn \in BOOLEAN :
          LET t == CHOOSE u \in Tokens : TRUE IN
          /\ session = [u \in Tokens |->
                IF signedIn /\ u = t THEN [state |-> "live", owner |-> s, ended |-> 0]
                ELSE [state |-> "unused", owner |-> None, ended |-> 0]]
          /\ cookie = IF signedIn THEN t ELSE None
    /\ cache = [t \in Tokens |-> NotCached]
    /\ now = 0
    /\ request = [k \in Kinds |-> IF k = "boot" THEN SentNow(cookie) ELSE Idle]
    /\ status = "loading" /\ user = None
    /\ page \in {"login", "app"}
    /\ poll = NotPolling
    /\ alert = "none"
    /\ excuse = {}
    /\ faults = 0
-----------------------------------------------------------------------------
(* The routes.                                                              *)

(* RequireAuth lets in nobody who is not authenticated: it shows nothing or *)
(* an apology, or redirects.                                                *)
LeaveApp(st) ==
    CASE st = "anonymous" -> "login"
      [] st = "must-change-password" -> "change-password"
      [] OTHER -> "app"

(* Login's effect leaves the form when there is nothing to sign in for.     *)
LeaveLogin(st) ==
    CASE st = "must-change-password" -> "change-password"
      [] st = "authenticated" -> "app"
      [] OTHER -> "login"

(* ChangePassword leaves when there is nobody.                              *)
LeaveChangePassword(st) == IF st = "anonymous" THEN "login" ELSE "change-password"

RedirectFrom(p, st) ==
    CASE p = "app" -> LeaveApp(st)
      [] p = "login" -> LeaveLogin(st)
      [] p = "change-password" -> LeaveChangePassword(st)

(* A page of the application that mounts loads its data (useResource).      *)
FreeLoad == {l \in Loads : ~InFlight(l)}
Opened(req, p, st, c) ==
    IF p = "app" /\ st = "authenticated" /\ ~(page = "app" /\ status = "authenticated")
          /\ FreeLoad # {}
    THEN [req EXCEPT ![CHOOSE l \in FreeLoad : TRUE] = SentNow(c)]
    ELSE req

(* A new status, user and cookie, with the redirects that follow.           *)
Show(st, u, c, p, req) ==
    LET to == RedirectFrom(p, st) IN
    /\ status' = st
    /\ user' = u
    /\ cookie' = c
    /\ page' = to
    /\ alert' = IF to = "change-password" THEN alert ELSE "none"
    /\ request' = Opened(req, to, st, c)
-----------------------------------------------------------------------------
(* What the person does.                                                    *)

(* Login's form; the button is disabled while the request is in flight.     *)
SubmitSignIn(s) ==
    /\ page = "login"
    /\ ~InFlight("login")
    /\ request' = [request EXCEPT !["login"] = [SentNow(cookie) EXCEPT !.who = s]]
    /\ UNCHANGED <<serverVars, browserVars, faults>>

(* "Sign out" of the account menu, or "Sign out instead" of the form.       *)
CanSignOut ==
    \/ page = "app" /\ status = "authenticated"
    \/ page = "change-password" /\ status \in {"must-change-password", "authenticated"}
SignOut ==
    /\ CanSignOut
    /\ ~InFlight("logout")
    /\ request' = [request EXCEPT !["logout"] = SentNow(cookie)]
    /\ UNCHANGED <<serverVars, browserVars, faults>>

(* ChangePassword's form, disabled from the submission to the last poll.    *)
Changing == InFlight("change") \/ InFlight("poll") \/ poll.on
SubmitChange ==
    /\ page = "change-password"
    /\ status \in {"must-change-password", "authenticated"}
    /\ ~Changing
    /\ now + PollFor =< MaxTime    \* the clock's bound leaves room for the polls
    /\ request' = [request EXCEPT !["change"] = SentNow(cookie)]
    /\ alert' = "none"
    /\ UNCHANGED <<serverVars, cookie, status, user, page, poll, excuse, faults>>

(* A signed-in person may open the form from the profile, and leave it.     *)
OpenChangePassword ==
    /\ page = "app" /\ status = "authenticated"
    /\ page' = "change-password"
    /\ UNCHANGED <<serverVars, cookie, status, user, poll, alert, excuse, request, faults>>

Cancel ==
    /\ page = "change-password" /\ status = "authenticated"
    /\ Show(status, user, cookie, "app", request)
    /\ UNCHANGED <<serverVars, poll, excuse, faults>>

(* reloadBootstrap, offered where the first /me was not answered.           *)
TryAgain ==
    /\ page = "app"
    /\ status \in {"rate-limited", "unreachable"}
    /\ status' = "loading"
    /\ request' = [request EXCEPT !["boot"] = SentNow(cookie)]
    /\ UNCHANGED <<serverVars, cookie, user, page, poll, alert, excuse, faults>>

(* A page of the application asks for data.                                 *)
Load(l) ==
    /\ page = "app" /\ status = "authenticated"
    /\ ~InFlight(l)
    /\ request' = [request EXCEPT ![l] = SentNow(cookie)]
    /\ UNCHANGED <<serverVars, browserVars, faults>>

(* The tab is reloaded: nothing of AuthProvider survives but the cookie.    *)
(* Bound: not while a sign-in, a sign-out or a change is under way.         *)
Refresh ==
    /\ ~Changing /\ ~InFlight("login") /\ ~InFlight("logout") /\ ~InFlight("boot")
    /\ status' = "loading" /\ user' = None
    /\ request' = [k \in Kinds |-> IF k = "boot" THEN SentNow(cookie) ELSE Idle]
    /\ alert' = "none"
    /\ excuse' = {}
    /\ UNCHANGED <<serverVars, cookie, page, poll, faults>>
-----------------------------------------------------------------------------
(* The gateway.                                                             *)

Cached(t) == t # None /\ cache[t].principal # "absent" /\ now =< cache[t].expires

(* What Identity's Validate reads in its database.                          *)
Validated(t) ==
    IF t = None THEN "absent"
    ELSE IF session[t].state # "live" THEN "absent"
    ELSE IF mustChange[session[t].owner] THEN "must" ELSE "free"

(* A token the cache does not hold is asked about; the answer is under way. *)
Validate(k) ==
    LET t == request[k].token IN
    /\ request[k].phase = "sent"
    /\ ~Cached(t) /\ Validated(t) # "absent"
    /\ request' = [request EXCEPT ![k].phase = "validated", ![k].principal = Validated(t)]
    /\ UNCHANGED <<serverVars, browserVars, faults>>

(* Middleware passes the request on once it knows the principal: nobody for *)
(* no cookie or a rejected token, who it was for a token in the cache.      *)
Resolved(k) ==
    LET t == request[k].token IN
    \/ request[k].phase = "validated"
    \/ request[k].phase = "sent" /\ (Cached(t) \/ Validated(t) = "absent")

Principal(k) ==
    LET t == request[k].token IN
    IF request[k].phase = "validated" THEN request[k].principal
    ELSE IF Cached(t) THEN cache[t].principal ELSE "absent"

(* An answer of Validate is cached before the request goes on.              *)
(* Mutant: every request renews the entry it used.                          *)
AdmitSliding(k) ==
    cache' = IF Principal(k) # "absent"
             THEN [cache EXCEPT ![request[k].token] =
                      [principal |-> Principal(k), expires |-> now + TTL]]
             ELSE cache
Admit(k) ==
    cache' = IF request[k].phase = "validated"
             THEN [cache EXCEPT ![request[k].token] =
                      [principal |-> request[k].principal, expires |-> now + TTL]]
             ELSE cache
-----------------------------------------------------------------------------
(* The services; each handles the request the gateway passes on.            *)

Answer(k, a) ==
    request' = [request EXCEPT ![k].phase = "answered", ![k].principal = "absent",
                               ![k].answer = a]

(* GET /me: RequirePasswordChanged judges the principal, Me reads the row:  *)
(* Current fails closed for an account whose sessions a deactivation ended. *)
ServeMe(k) ==
    LET row == session[request[k].token] IN
    /\ k \in {"boot", "poll"}
    /\ Resolved(k) /\ Admit(k)
    /\ \/ Principal(k) = "absent" /\ Answer(k, "unauthenticated")
       \/ Principal(k) = "must" /\ Answer(k, "password_change_required")
       \/ Principal(k) = "free" /\ row.state = "ended" /\ Answer(k, "unauthenticated")
       \/ /\ Principal(k) = "free"
          /\ request' = [request EXCEPT ![k] =
                [@ EXCEPT !.phase = "answered", !.principal = "absent", !.answer = "ok",
                          !.who = row.owner, !.must = mustChange[row.owner]]]
    /\ UNCHANGED <<session, mustChange, now, browserVars, faults>>

(* A page's data: only Identity's routes look at the forced change.         *)
ServeLoad(k) ==
    /\ k \in Loads
    /\ Resolved(k) /\ Admit(k)
    /\ \/ Principal(k) = "absent" /\ Answer(k, "unauthenticated")
       \/ Principal(k) = "must" /\ Answer(k, "password_change_required")
       \/ Principal(k) # "absent" /\ Answer(k, "ok")
    /\ UNCHANGED <<session, mustChange, now, browserVars, faults>>

(* newToken: any token not drawn yet is as good as another.                 *)
Fresh == CHOOSE t \in Tokens :
            session[t].state = "unused" \/ \A u \in Tokens : session[u].state # "unused"

(* POST /login writes a session, or refuses the password.                   *)
ServeLogin ==
    LET s == request["login"].who IN
    /\ Resolved("login") /\ Admit("login")
    /\ \/ LET t == Fresh IN
             /\ session[t].state = "unused"
             /\ session' = [session EXCEPT ![t] = [@ EXCEPT !.state = "live", !.owner = s]]
             /\ request' = [request EXCEPT !["login"] =
                   [@ EXCEPT !.phase = "answered", !.principal = "absent", !.answer = "ok",
                             !.token = t, !.must = mustChange[s]]]
       \/ Answer("login", "invalid_credentials") /\ UNCHANGED session
    /\ UNCHANGED <<mustChange, now, browserVars, faults>>

Ended(t) == [session EXCEPT ![t].state = "ended", ![t].ended = now]

(* POST /logout reads the cookie itself; ending a dead session is no error. *)
ServeLogout ==
    LET t == request["logout"].token IN
    /\ Resolved("logout") /\ Admit("logout")
    /\ IF t = None
       THEN Answer("logout", "unauthenticated") /\ UNCHANGED session
       ELSE /\ Answer("logout", "ok")
            /\ session' = IF session[t].state = "live" THEN Ended(t) ELSE session
    /\ UNCHANGED <<mustChange, now, browserVars, faults>>

(* POST /me/password: a wrong current password is a 401 too, a new one that *)
(* is no password a 422.                                                    *)
ServeChange ==
    /\ Resolved("change") /\ Admit("change")
    /\ \/ /\ Principal("change") = "absent" /\ Answer("change", "unauthenticated")
          /\ UNCHANGED mustChange
       \/ /\ Principal("change") # "absent"
          /\ \E a \in {"invalid_credentials", "refused"} : Answer("change", a)
          /\ UNCHANGED mustChange
       \/ /\ Principal("change") # "absent" /\ Answer("change", "ok")
          /\ mustChange' = [mustChange EXCEPT ![session[request["change"].token].owner] = FALSE]
    /\ UNCHANGED <<session, now, browserVars, faults>>

(* A validation that failed makes the request nobody's, whatever the        *)
(* session: every service but login and logout then answers 401.            *)
ValidationFails(k) ==
    LET t == request[k].token IN
    /\ k \notin {"login", "logout"}
    /\ request[k].phase = "sent"
    /\ t # None /\ ~Cached(t)
    /\ faults < MaxFaults
    /\ faults' = faults + 1
    /\ Answer(k, "unauthenticated")
    /\ excuse' = excuse \cup {"validation"}
    /\ UNCHANGED <<serverVars, cookie, status, user, page, poll, alert>>

(* The gateway's limiter refuses, or the network loses, the request.        *)
NotServed(k) ==
    /\ request[k].phase = "sent"
    /\ faults < MaxFaults
    /\ faults' = faults + 1
    /\ \E a \in {"rate_limited", "network"} : Answer(k, a)
    /\ UNCHANGED <<serverVars, browserVars>>

(* The network loses the answer to a change that was made.                  *)
AnswerLost(k) ==
    /\ k \in {"login", "logout", "change"}
    /\ request[k].phase = "answered" /\ request[k].answer # "network"
    /\ faults < MaxFaults
    /\ faults' = faults + 1
    /\ Answer(k, "network")
    /\ UNCHANGED <<serverVars, browserVars>>

(* Elsewhere somebody deactivates the account, or the session expires.      *)
EndSession(t) ==
    /\ session[t].state = "live"
    /\ faults < MaxFaults
    /\ faults' = faults + 1
    /\ session' = Ended(t)
    /\ UNCHANGED <<mustChange, cache, now, browserVars, request>>

(* Unless Slow, a validation, a change of password, a poll and the pause    *)
(* between two polls are over within the tick they are due in.              *)
Tick ==
    /\ now < MaxTime
    /\ Slow \/ /\ \A k \in Kinds : request[k].phase # "validated"
               /\ ~InFlight("poll") /\ ~InFlight("change")
               /\ poll.on => now < poll.wake
    /\ now' = now + 1
    /\ UNCHANGED <<session, mustChange, cache, browserVars, request, faults>>
-----------------------------------------------------------------------------
(* The answers reach the browser.                                           *)

Done(k) == [request EXCEPT ![k] = Idle]

(* request() tells the listeners before its caller hears of the failure: it *)
(* goes by the status, 401, and only login asks it to keep that to itself.  *)
Unauthorized == {"unauthenticated", "invalid_credentials"}
ListenedStatus(a, st) ==
    CASE a \in Unauthorized -> "anonymous"
      [] a = "password_change_required" -> "must-change-password"
      [] OTHER -> st
(* Mutant: the 401 listener forgets the user.                               *)
ListenedUserKept(a) == user
ListenedUser(a) == IF a \in Unauthorized THEN None ELSE user

(* An answer to a request that left under another cookie, or that says 401  *)
(* of a password.                                                           *)
Excused(k) ==
    excuse \cup (IF request[k].token # cookie THEN {"crossed"} ELSE {})
           \cup (IF request[k].answer = "invalid_credentials" THEN {"password"} ELSE {})

(* Mutant: the service's code in place of the provider's status.            *)
StatusOfCode(must) == IF must THEN "password_change_required" ELSE "authenticated"
StatusOf(must) == IF must THEN "must-change-password" ELSE "authenticated"

(* The bootstrap effect of AuthProvider.                                    *)
BootAnswered ==
    LET r == request["boot"] IN
    /\ r.phase = "answered"
    /\ IF r.answer = "ok" THEN Show(StatusOf(r.must), r.who, cookie, page, Done("boot"))
       ELSE Show(CASE r.answer = "rate_limited" -> "rate-limited"
                   [] r.answer = "network" -> "unreachable"
                   [] OTHER -> ListenedStatus(r.answer, status),
                 ListenedUser(r.answer), cookie, page, Done("boot"))
    /\ excuse' = Excused("boot")
    /\ UNCHANGED <<serverVars, poll, faults>>

(* signIn: a refusal is shown on the form and disturbs no session.  A late  *)
(* bootstrap may have led the tab away from the form in the meantime.       *)
LoginAnswered ==
    LET r == request["login"] IN
    /\ r.phase = "answered"
    /\ IF r.answer = "ok"
       THEN /\ Show(StatusOf(r.must), r.who, r.token, page, Done("login"))
                    /\ excuse' = IF page = "login" /\ ~Changing THEN {} ELSE {"crossed"}
       ELSE /\ request' = Done("login")
            /\ UNCHANGED <<cookie, status, user, page, alert, excuse>>
    /\ UNCHANGED <<serverVars, poll, faults>>

(* signOut clears whatever the answer; only a real one clears the cookie.   *)
LogoutAnswered ==
    LET r == request["logout"] IN
    /\ r.phase = "answered"
    /\ Show("anonymous", None, IF r.answer = "ok" THEN None ELSE cookie, "login", Done("logout"))
    /\ excuse' = IF r.answer = "ok" THEN excuse ELSE excuse \cup {"logout"}
    /\ UNCHANGED <<serverVars, poll, faults>>

(* changePassword: once the change is made, poll /me.                       *)
ChangeAnswered ==
    LET r == request["change"]
        st == ListenedStatus(r.answer, status) IN
    /\ r.phase = "answered"
    /\ IF r.answer = "ok"
       THEN /\ poll' = [on |-> TRUE, wake |-> now, deadline |-> now + PollFor]
            /\ UNCHANGED <<status, user, page, alert>>
       ELSE /\ status' = st /\ user' = ListenedUser(r.answer)
            /\ page' = RedirectFrom(page, st)
            /\ alert' = IF page' = "change-password" THEN "failed" ELSE "none"
            /\ UNCHANGED poll
    /\ request' = Done("change")
    /\ excuse' = Excused("change")
    /\ UNCHANGED <<serverVars, cookie, faults>>

SendPoll ==
    /\ poll.on /\ ~InFlight("poll")
    /\ now >= poll.wake
    /\ request' = [request EXCEPT !["poll"] = SentNow(cookie)]
    /\ UNCHANGED <<serverVars, browserVars, faults>>

PollAnswered ==
    LET r == request["poll"]
        stale == r.answer = "password_change_required" IN
    /\ r.phase = "answered"
    /\ \/ /\ r.answer = "ok"
          /\ Show("authenticated", r.who, cookie, "app", Done("poll"))
          /\ poll' = NotPolling
          /\ excuse' = Excused("poll")
       \/ /\ stale /\ now < poll.deadline
          /\ Show("must-change-password", user, cookie, page, Done("poll"))
          /\ poll' = [poll EXCEPT !.wake = now + 1]
          /\ excuse' = Excused("poll")
       \/ /\ r.answer # "ok" /\ ~(stale /\ now < poll.deadline)
          /\ LET st == ListenedStatus(r.answer, status)
                 to == RedirectFrom(page, st) IN
             /\ status' = st /\ user' = ListenedUser(r.answer)
             /\ page' = to
             /\ request' = Done("poll")
             /\ alert' = IF to # "change-password" THEN "none"
                         ELSE IF stale THEN "stale" ELSE "failed"
          /\ poll' = NotPolling
          /\ excuse' = Excused("poll")
          /\ UNCHANGED cookie
    /\ UNCHANGED <<serverVars, faults>>

(* The page shows its own failure; only the listeners matter here.          *)
LoadAnswered(l) ==
    LET r == request[l] IN
    /\ r.phase = "answered"
    /\ Show(ListenedStatus(r.answer, status), ListenedUser(r.answer), cookie, page, Done(l))
    /\ excuse' = Excused(l)
    /\ UNCHANGED <<serverVars, poll, faults>>
-----------------------------------------------------------------------------
Person ==
    /\ Cardinality({k \in Kinds : InFlight(k)}) < MaxInFlight
    /\ \/ \E s \in Staff : SubmitSignIn(s)
       \/ SignOut
       \/ SubmitChange
       \/ OpenChangePassword
       \/ Cancel
       \/ TryAgain
       \/ \E l \in Loads : Load(l)
       \/ Refresh

Network(k) == Validate(k) \/ ServeMe(k) \/ ServeLoad(k)

Arrive ==
    \/ BootAnswered \/ LoginAnswered \/ LogoutAnswered
    \/ ChangeAnswered \/ PollAnswered
    \/ \E l \in Loads : LoadAnswered(l)

Fault ==
    \/ \E k \in Kinds : ValidationFails(k) \/ NotServed(k) \/ AnswerLost(k)
    \/ \E t \in Tokens : EndSession(t)

Next ==
    \/ Person
    \/ \E k \in Kinds : Network(k)
    \/ ServeLogin \/ ServeLogout \/ ServeChange
    \/ SendPoll
    \/ Arrive
    \/ Fault
    \/ Tick

Spec == Init /\ [][Next]_vars
-----------------------------------------------------------------------------
(* The screen is about the session the browser holds: whoever is shown as   *)
(* signed in owns the cookie's session, and nobody is sent to the sign-in   *)
(* form who holds a live one -- except after an answer that crossed a       *)
(* change of cookie, a sign-out that was not answered or a validation that  *)
(* failed, which the console cannot tell from a session that is over.  A    *)
(* wrong current password, which it could tell, does send somebody with a   *)
(* live session to that form, but never shows one person as another.        *)
ScreenTellsTheSession ==
    excuse \subseteq {"password"} =>
        /\ status = "authenticated" => cookie # None /\ user = session[cookie].owner
        /\ status = "anonymous" =>
              /\ user = None
              /\ cookie # None => session[cookie].state = "ended" \/ "password" \in excuse

(* meAfterPasswordChange outlasts the gateway's cache: the form never       *)
(* reports password_change_required for a change that was made.             *)
PollOutlastsCache == alert = "stale" => excuse # {}

(* SESSION_CACHE_TTL is the revocation-latency budget: a session that ended *)
(* is not honoured for longer than that.                                    *)
RevokedWithinTTL ==
    \A t \in Tokens :
        session[t].state = "ended" /\ cache[t].principal # "absent" =>
            cache[t].expires =< session[t].ended + TTL
=============================================================================
