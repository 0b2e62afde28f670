--------------------------- MODULE BrowserSession ---------------------------
(***************************************************************************)
(* The browser's side of a session: the access token each tab keeps in     *)
(* memory (lib/api/token-store.ts), the fetch wrapper that renews it       *)
(* (lib/api/authenticated-fetch.ts), the requests that spend the refresh   *)
(* cookie (lib/auth/session-requests.ts), the provider that owns the       *)
(* session's status (lib/auth/session.tsx) and the two owners of           *)
(* navigation, the guard and the sign-in page.                             *)
(*                                                                         *)
(* The tabs share one cookie jar.  A request is sent with what the jar and *)
(* the token store hold then, is served later, and its answer is delivered *)
(* later still; it may be lost before or after it was served, a 5xx may    *)
(* take its place, and its body may be cut off.  The server is the         *)
(* abstract one of AuthAtomic: a login is a chain of refresh tokens, of    *)
(* which only the newest is live.                                          *)
(***************************************************************************)
EXTENDS Naturals, FiniteSets, Nothing

CONSTANTS
    Tab,
    Query,        \* the list queries of the sheets every page mounts
    MaxLogins,    \* logins there may be
    MaxLoads,     \* documents loaded, over all tabs
    MaxExpiries,  \* access tokens that expire
    Ops,          \* what users do: "login", "logout"
    AppPath,      \* the pages behind the guard; "/" is one
    RedirectParam,\* what a ?redirect= may ask for
    MaxFaults,    \* answers that are a 5xx or cut off
    Lossy,        \* whether the network may lose a request or its answer
    Clear         \* a Set-Cookie that removes the cookie; None is no cookie

VARIABLES
    live,      \* server: the turn of each login's live refresh token, 0 if it has none
    logins,    \* server: the logins so far
    jar,       \* the browser's refresh cookie: <<login, turn>> or None
    token,     \* the access token each tab holds
    status,    \* SessionProvider's status ("closed": no document yet)
    path,      \* the page each tab shows
    wanted,    \* the ?redirect= of its sign-in page
    call,      \* the requests of each tab
    loads, expiries, faults,
    expected,  \* the login the user is in, None after a sign-out
    closed,    \* logins whose sign-out was reported as complete
    astray     \* whether the live token may be one the browser never got: two
               \* different requests were out at once, or an answer that
               \* renewed the cookie did not arrive, and no sign-in followed

server == <<live, logins>>
page == <<status, path, wanted>>
bounds == <<loads, expiries, faults>>
session == <<server, jar, token, page, call, bounds, expected, closed, astray>>

-----------------------------------------------------------------------------
(* The requests of a tab: at most one of each kind, and one per query.     *)

CookieCall == {"bootstrap", "refresh", "logout"}
AuthCall == CookieCall \cup {"login"}
Call == AuthCall \cup Query

Cookies == (1..MaxLogins) \X Nat

SessionConstants ==
    /\ MaxLogins \in Nat \ {0} /\ MaxLoads \in Nat /\ MaxExpiries \in Nat /\ MaxFaults \in Nat
    /\ "/" \in AppPath /\ AppPath \cup {None} \subseteq RedirectParam
    /\ Lossy \in BOOLEAN
    /\ Query \cap AuthCall = {}
    /\ None # Clear /\ None \notin 1..MaxLogins /\ {None, Clear} \cap Cookies = {}

ASSUME SessionAssumption == SessionConstants

AuthPath == {"/sign-in"}

Idle == [at |-> "idle"]
\* carries: the cookie of an auth request, the bearer token of a query.
Sent(what) == [at |-> "sent", carries |-> what, retry |-> FALSE]
Retried(what) == [at |-> "sent", carries |-> what, retry |-> TRUE]
\* A query that waits for the refresh all queries of the tab share.
Waiting == [at |-> "waiting"]
\* said: "granted", a 2xx with its body; "cut", one whose body is no use;
\* "refused", a 4xx; "failed", a 5xx.  cookie: what its Set-Cookie does to the
\* jar, None if it has none; ended: the login a sign-out ended.
Answer(said, cookie) ==
    [at |-> "answered", said |-> said, cookie |-> cookie, ended |-> None]
SignedOut(l) == [Answer("granted", Clear) EXCEPT !.ended = l]

InFlight(t, k) == call[t][k].at \in {"sent", "answered"}
Granted(t, k) == call[t][k].said = "granted"
\* Whether another request than t's k is out that may set the cookie.
Beside(t, k) ==
    \E u \in Tab, j \in AuthCall : <<u, j>> # <<t, k>> /\ InFlight(u, j)

\* Live(c): the refresh token c is the newest of a login that has not ended.
Live(c) == c # None /\ live[c[1]] = c[2]

-----------------------------------------------------------------------------
(* The token store.  Its one subscriber is the provider, which reacts to a *)
(* clear and ignores a set (session.tsx:117).                              *)

SetToken(t) == token' = [token EXCEPT ![t] = "valid"]

Cleared(s) == IF s = "authenticated" THEN "unauthenticated" ELSE s

ClearToken(t) ==
    /\ token' = [token EXCEPT ![t] = "none"]
    /\ status' = [status EXCEPT ![t] = Cleared(@)]

\* applySession: what a bootstrap and a login do with the session they got.
ApplySession(t) ==
    /\ SetToken(t)
    /\ status' = [status EXCEPT ![t] = "authenticated"]

-----------------------------------------------------------------------------
(* The server, one atomic step per request (auth.go; see AuthAtomic).      *)

\* What becomes of a 2xx on its way: a COMMIT that is reported as failed, or a
\* proxy that loses the API, puts a 5xx without its Set-Cookie in its place;
\* or the headers arrive and the body does not.
Arriving(a) ==
    {a} \cup IF faults < MaxFaults
               THEN {Answer("failed", None), Answer("cut", a.cookie)} ELSE {}

\* A 5xx before anything was done, by the handler or by the proxy.
Fails(t, k) ==
    /\ faults < MaxFaults
    /\ call' = [call EXCEPT ![t][k] = Answer("failed", None)]

RefreshSession(t, k) ==
    LET c == call[t][k].carries IN
    \/ /\ Live(c)
       /\ live' = [live EXCEPT ![c[1]] = c[2] + 1]
       /\ \E a \in Arriving(Answer("granted", <<c[1], c[2] + 1>>)) :
             /\ call' = [call EXCEPT ![t][k] = a]
             /\ astray' = (astray \/ a.cookie = None)
    \/ /\ ~Live(c)
       /\ call' = [call EXCEPT ![t][k] = Answer("refused", Clear)]
       /\ UNCHANGED <<live, astray>>
    \/ Fails(t, k) /\ UNCHANGED <<live, astray>>

LogoutUser(t) ==
    LET c == call[t]["logout"].carries IN
    \/ /\ Live(c)
       /\ live' = [live EXCEPT ![c[1]] = 0]
       /\ \E a \in Arriving(SignedOut(c[1])) : call' = [call EXCEPT ![t]["logout"] = a]
    \/ /\ ~Live(c)
       /\ call' = [call EXCEPT ![t]["logout"] = Answer("refused", None)]
       /\ UNCHANGED live
    \/ Fails(t, "logout") /\ UNCHANGED live

LoginUser(t) ==
    \/ /\ logins < MaxLogins
       /\ logins' = logins + 1
       /\ live' = [live EXCEPT ![logins + 1] = 1]
       /\ \E a \in Arriving(Answer("granted", <<logins + 1, 1>>)) :
             call' = [call EXCEPT ![t]["login"] = a]
    \/ /\ call' = [call EXCEPT ![t]["login"] = Answer("refused", None)]
       /\ UNCHANGED server
    \/ Fails(t, "login") /\ UNCHANGED server

Serve(t, k) ==
    /\ k \in AuthCall /\ call[t][k].at = "sent"
    /\ CASE k \in {"bootstrap", "refresh"} -> RefreshSession(t, k) /\ UNCHANGED logins
         [] k = "logout" -> LogoutUser(t) /\ UNCHANGED <<logins, astray>>
         [] k = "login" -> LoginUser(t) /\ UNCHANGED astray
    /\ faults' = faults + IF call'[t][k].said \in {"failed", "cut"} THEN 1 ELSE 0
    /\ UNCHANGED <<jar, token, page, loads, expiries, expected, closed>>

-----------------------------------------------------------------------------
(* Sending.                                                                *)

\* SendCookie: a request goes out with the jar's cookie of this moment.  The
\* browser lets two of them overlap, from two tabs, from the two documents of
\* a reload, or from the bootstrap and the queries of one.
SendCookie(calls, t, k) == [calls EXCEPT ![t][k] = Sent(jar)]
Crossing(t, k) == astray' = (astray \/ Beside(t, k))

\* Load: a document is loaded, or reloaded: nothing survives in memory and
\* requests in flight are forgotten.  The provider's effect bootstraps the
\* session; the sheets, mounted outside the guard by the root layout, query
\* the lists at once, without a token.
Load(t, p, r) ==
    /\ loads < MaxLoads
    /\ loads' = loads + 1
    /\ token' = [token EXCEPT ![t] = "none"]
    /\ status' = [status EXCEPT ![t] = "loading"]
    /\ path' = [path EXCEPT ![t] = p]
    /\ wanted' = [wanted EXCEPT ![t] = IF p \in AuthPath THEN r ELSE None]
    /\ call' = [call EXCEPT ![t] = [k \in Call |->
                    CASE k \in Query -> Sent("none")
                      [] k = "bootstrap" -> Sent(jar)
                      [] OTHER -> Idle]]
    /\ astray' = (astray \/ \E u \in Tab, k \in AuthCall : InFlight(u, k))
    /\ UNCHANGED <<server, jar, expiries, faults, expected, closed>>

\* Fetch: a query of the sheets is made again (focus, retry, invalidation).
Fetch(t, q) ==
    /\ status[t] # "closed"
    /\ call[t][q] = Idle
    /\ call' = [call EXCEPT ![t][q] = Sent(token[t])]
    /\ UNCHANGED <<server, jar, token, page, bounds, expected, closed, astray>>

\* Login: the form is shown only once the status is "unauthenticated", and
\* its button is disabled while a sign-in is pending.
Login(t) ==
    /\ "login" \in Ops
    /\ path[t] \in AuthPath /\ status[t] = "unauthenticated"
    /\ call[t]["login"] = Idle
    /\ call' = [call EXCEPT ![t]["login"] = Sent(None)]
    /\ Crossing(t, "login")
    /\ UNCHANGED <<server, jar, token, page, bounds, expected, closed>>

\* Logout: the account menu's item, disabled once chosen.
Logout(t) ==
    /\ "logout" \in Ops
    /\ path[t] \in AppPath /\ status[t] = "authenticated"
    /\ call[t]["logout"] = Idle
    /\ call' = SendCookie(call, t, "logout")
    /\ Crossing(t, "logout")
    /\ UNCHANGED <<server, jar, token, page, bounds, expected, closed>>

-----------------------------------------------------------------------------
(* Delivering an answer: the browser applies its Set-Cookie, then the code *)
(* that awaited it runs to its next await.                                 *)

ApplyCookie(c) ==
    jar' = CASE c.cookie = None -> jar [] c.cookie = Clear -> None [] OTHER -> c.cookie

\* The queries that wait are resumed with the outcome of the shared refresh:
\* sent once more with the token of now, or given back their 401.
Resumed(t, renewed) ==
    [k \in Call |->
        CASE call[t][k].at = "waiting" -> IF renewed THEN Retried("valid") ELSE Idle
          [] k = "refresh" -> Idle
          [] OTHER -> call[t][k]]

\* Any answer without a token clears the one the tab has: a refusal, but also
\* a 5xx that left the session as it was, or a body that was cut off.
DeliverRefresh(t) ==
    /\ ApplyCookie(call[t]["refresh"])
    /\ call' = [call EXCEPT ![t] = Resumed(t, Granted(t, "refresh"))]
    /\ IF Granted(t, "refresh") THEN SetToken(t) /\ UNCHANGED status ELSE ClearToken(t)
    /\ UNCHANGED <<expected, closed, astray>>

\* The bootstrap's result is either the session or "unauthenticated"; it
\* leaves the token store alone when there is no session.
DeliverBootstrap(t) ==
    /\ ApplyCookie(call[t]["bootstrap"])
    /\ call' = [call EXCEPT ![t]["bootstrap"] = Idle]
    /\ IF Granted(t, "bootstrap")
         THEN ApplySession(t)
         ELSE status' = [status EXCEPT ![t] = "unauthenticated"] /\ UNCHANGED token
    /\ UNCHANGED <<expected, closed, astray>>

DeliverLogin(t) ==
    LET c == call[t]["login"].cookie IN
    /\ ApplyCookie(call[t]["login"])
    /\ call' = [call EXCEPT ![t]["login"] = Idle]
    /\ IF Granted(t, "login") THEN ApplySession(t) ELSE UNCHANGED <<token, status>>
    /\ expected' = IF c = None THEN expected ELSE c[1]
    /\ astray' = IF c = None THEN astray ELSE Beside(t, "login")
    /\ UNCHANGED closed

\* UncheckedLogout, a faulty variant: a sign-out the server refused, or never
\* got, counts as a confirmed one.
UncheckedLogout(t, ended) ==
    /\ token' = [token EXCEPT ![t] = "none"]
    /\ status' = [status EXCEPT ![t] = "unauthenticated"]
    /\ expected' = None
    /\ closed' = closed \cup ({expected} \ {None})

\* EndSession: logout clears the tab whatever the server said; it reports a
\* complete sign-out only if the server confirmed that it ended the login.
EndSession(t, ended) ==
    /\ token' = [token EXCEPT ![t] = "none"]
    /\ status' = [status EXCEPT ![t] = "unauthenticated"]
    /\ expected' = None
    /\ closed' = closed \cup ({ended} \ {None})

DeliverLogout(t) ==
    LET c == call[t]["logout"] IN
    /\ ApplyCookie(c)
    /\ call' = [call EXCEPT ![t]["logout"] = Idle]
    /\ EndSession(t, c.ended)
    /\ UNCHANGED astray

\* UnsharedRefresh, a faulty variant: every 401 starts a refresh of its own.
UnsharedRefresh(t, q) ==
    LET c == call[t][q] IN
    /\ IF c.carries = "valid" \/ c.retry
         THEN call' = [call EXCEPT ![t][q] = Idle] /\ UNCHANGED astray
         ELSE /\ call' = SendCookie([call EXCEPT ![t][q] = Waiting], t, "refresh")
              /\ Crossing(t, "refresh")
    /\ UNCHANGED <<jar, token, status, expected, closed>>

\* A query changes nothing on the server and what it carries decides its
\* answer, so that it is served and answered in one step.  Its 401 is
\* refreshable if the token had expired or there was none, and if the query
\* was not retried yet; the first to need it starts the refresh, the others
\* share it.
DeliverQuery(t, q) ==
    LET c == call[t][q] IN
    /\ IF c.carries = "valid" \/ c.retry
         THEN /\ call' = [call EXCEPT ![t][q] = Idle]
              /\ UNCHANGED astray
         ELSE IF call[t]["refresh"] = Idle
         THEN /\ call' = SendCookie([call EXCEPT ![t][q] = Waiting], t, "refresh")
              /\ Crossing(t, "refresh")
         ELSE /\ call' = [call EXCEPT ![t][q] = Waiting]
              /\ UNCHANGED astray
    /\ UNCHANGED <<jar, token, status, expected, closed>>

Deliver(t, k) ==
    /\ call[t][k].at = IF k \in Query THEN "sent" ELSE "answered"
    /\ CASE k = "refresh" -> DeliverRefresh(t)
         [] k = "bootstrap" -> DeliverBootstrap(t)
         [] k = "login" -> DeliverLogin(t)
         [] k = "logout" -> DeliverLogout(t)
         [] k \in Query -> DeliverQuery(t, k)
    /\ UNCHANGED <<server, path, wanted, bounds>>

\* FailureSignsOut, a faulty variant: a network failure clears the token.
FailureSignsOut(t) ==
    /\ call' = [call EXCEPT ![t] = Resumed(t, FALSE)]
    /\ ClearToken(t)
    /\ UNCHANGED <<expected, closed>>

\* WaitersForgotten, a faulty variant: the shared promise never settles.
WaitersForgotten(t) ==
    /\ call' = [call EXCEPT ![t]["refresh"] = Idle]
    /\ UNCHANGED <<token, status, expected, closed>>

\* A failed refresh tells the queries that wait; it clears nothing, since a
\* network failure says nothing about the session.
RefreshFails(t) ==
    /\ call' = [call EXCEPT ![t] = Resumed(t, FALSE)]
    /\ UNCHANGED <<token, status, expected, closed>>

\* BootstrapRejects, a faulty variant: the failure is not caught.
BootstrapRejects(t) == UNCHANGED status

\* A bootstrap that fails is a signed-out session: it never rejects.
BootstrapFails(t) == status' = [status EXCEPT ![t] = "unauthenticated"]

\* An answer that brings the next refresh token.
Renewed(t, k) ==
    /\ k \in {"bootstrap", "refresh"} /\ call[t][k].at = "answered"
    /\ call[t][k].cookie \notin {None, Clear}

\* Lose: the request never arrives, or its answer does not come back; the
\* fetch rejects and no Set-Cookie is applied.
Lose(t, k) ==
    /\ Lossy
    /\ InFlight(t, k)
    /\ CASE k = "refresh" -> RefreshFails(t)
         [] k = "bootstrap" ->
              /\ call' = [call EXCEPT ![t][k] = Idle]
              /\ BootstrapFails(t)
              /\ UNCHANGED <<token, expected, closed>>
         [] k = "logout" ->
              /\ call' = [call EXCEPT ![t][k] = Idle]
              /\ EndSession(t, None)
         [] k \in Query \cup {"login"} ->
              /\ call' = [call EXCEPT ![t][k] = Idle]
              /\ UNCHANGED <<token, status, expected, closed>>
    /\ astray' = (astray \/ Renewed(t, k))
    /\ UNCHANGED <<server, jar, path, wanted, bounds>>

-----------------------------------------------------------------------------
(* Navigation and time.                                                    *)

\* AsAsked, a faulty variant: without a default.
AsAsked(raw) == raw
SafeRedirectTarget(raw) == IF raw \in AppPath THEN raw ELSE "/"

\* SessionGuard: a signed-out dashboard goes to sign-in, remembering itself.
GuardRedirects(t) ==
    /\ status[t] = "unauthenticated" /\ path[t] \in AppPath
    /\ path' = [path EXCEPT ![t] = "/sign-in"]
    /\ wanted' = [wanted EXCEPT ![t] = path[t]]
    /\ UNCHANGED <<server, jar, token, status, call, bounds, expected, closed, astray>>

\* SignInRedirects: sign-in with a session goes where it was asked to.  The
\* effect runs when its target changes, so a target that is this page is the
\* end of it.
SignInRedirects(t) ==
    /\ status[t] = "authenticated" /\ path[t] \in AuthPath
    /\ path' = [path EXCEPT ![t] = SafeRedirectTarget(wanted[t])]
    /\ wanted' = [wanted EXCEPT ![t] = None]
    /\ UNCHANGED <<server, jar, token, status, call, bounds, expected, closed, astray>>

Expire(t) ==
    /\ expiries < MaxExpiries
    /\ token[t] = "valid"
    /\ token' = [token EXCEPT ![t] = "expired"]
    /\ expiries' = expiries + 1
    /\ UNCHANGED <<server, jar, page, call, loads, faults, expected, closed, astray>>

-----------------------------------------------------------------------------

\* The user is signed in, or is not; no tab is open yet.
SessionInit ==
    /\ logins \in {0, 1}
    /\ live = [l \in 1..MaxLogins |-> IF l <= logins THEN 1 ELSE 0]
    /\ jar = IF logins = 1 THEN <<1, 1>> ELSE None
    /\ expected = IF logins = 1 THEN 1 ELSE None
    /\ token = [t \in Tab |-> "none"]
    /\ status = [t \in Tab |-> "closed"]
    /\ path = [t \in Tab |-> "/"]
    /\ wanted = [t \in Tab |-> None]
    /\ call = [t \in Tab |-> [k \in Call |-> Idle]]
    /\ loads = 0 /\ expiries = 0 /\ faults = 0
    /\ closed = {}
    /\ astray = FALSE

SessionNext ==
    \E t \in Tab :
        \/ \E p \in AppPath \cup AuthPath, r \in RedirectParam : Load(t, p, r)
        \/ \E q \in Query : Fetch(t, q)
        \/ \E k \in Call : Serve(t, k) \/ Deliver(t, k) \/ Lose(t, k)
        \/ Login(t)
        \/ Logout(t)
        \/ GuardRedirects(t)
        \/ SignInRedirects(t)
        \/ Expire(t)

SessionSpec == SessionInit /\ [][SessionNext]_session

\* A request in flight is answered or lost in the end; effects run.
SessionFairness ==
    \A t \in Tab :
        /\ \A k \in Call : WF_session(Serve(t, k)) /\ WF_session(Deliver(t, k))
        /\ WF_session(GuardRedirects(t))
        /\ WF_session(SignInRedirects(t))

SessionFairSpec == SessionSpec /\ SessionFairness

-----------------------------------------------------------------------------
(* Properties.                                                             *)

QueryRecord ==
    {Idle, Waiting}
        \cup [at : {"sent"}, carries : {"none", "valid", "expired"}, retry : BOOLEAN]
AuthRecord ==
    {Idle}
        \cup [at : {"sent"}, carries : Cookies \cup {None}, retry : {FALSE}]
        \cup [at : {"answered"}, ended : 1..MaxLogins \cup {None},
              said : {"granted", "cut", "refused", "failed"}, cookie : Cookies \cup {None, Clear}]

\* The type of every variable.
SessionTypeOK ==
    /\ logins \in 0..MaxLogins
    /\ live \in [1..MaxLogins -> Nat]
    /\ jar \in Cookies \cup {None}
    /\ token \in [Tab -> {"none", "valid", "expired"}]
    /\ status \in [Tab -> {"closed", "loading", "authenticated", "unauthenticated"}]
    /\ path \in [Tab -> AppPath \cup AuthPath]
    /\ wanted \in [Tab -> RedirectParam]
    /\ DOMAIN call = Tab
    /\ \A t \in Tab :
          /\ DOMAIN call[t] = Call
          /\ \A k \in Call : call[t][k] \in IF k \in Query THEN QueryRecord ELSE AuthRecord
    /\ loads \in 0..MaxLoads /\ expiries \in 0..MaxExpiries /\ faults \in 0..MaxFaults
    /\ expected \in 1..MaxLogins \cup {None}
    /\ closed \subseteq 1..MaxLogins
    /\ astray \in BOOLEAN

OnItsWay(l) ==
    \E t \in Tab, k \in AuthCall :
        call[t][k].at = "answered" /\ call[t][k].cookie = <<l, live[l]>>

SigningOut == \E t \in Tab : InFlight(t, "logout")

\* The wrapper's promise (authenticated-fetch.ts:63): however many queries
\* fail at once and in whatever order their answers come, a tab never presents
\* the one refresh token twice.  So the browser holds the live token of the
\* session it is in, whatever requests are lost before they are served, fail
\* or come back cut off, unless two requests of different kinds, documents or
\* tabs were out at once or an answer that renewed the cookie did not arrive;
\* and a sign-in mends that.
SessionKept ==
    ~astray /\ expected # None /\ ~SigningOut =>
        /\ live[expected] # 0
        /\ jar = <<expected, live[expected]>> \/ OnItsWay(expected)

\* A page load never ends signed out of a session nobody ended
\* (session-requests.ts:107, session.tsx:78).
ReloadKeepsSession ==
    expected # None => \A t \in Tab : status[t] # "unauthenticated"

\* A sign-out reported without the warning (user-button.tsx:54) is complete:
\* no refresh token of that login lives on, also when a refresh or a sign-out
\* of another tab raced it.
SignOutTruthful == \A l \in closed : live[l] = 0

\* A tab loses its session to a sign-out or to an answer to its refresh that
\* brings no token, never to a refresh that got no answer
\* (authenticated-fetch.ts:90); and unless the live token went astray, a
\* session that nobody ended is never refused: it was a 5xx or a body cut off,
\* and the jar still has what a reload resumes it with.
OnlyAnswersSignOut ==
    [][\A t \in Tab :
          status[t] = "authenticated" /\ status'[t] = "unauthenticated" =>
              \/ InFlight(t, "logout")
              \/ /\ call[t]["refresh"].at = "answered" /\ ~Granted(t, "refresh")
                 /\ \/ astray \/ expected = None
                    \/ /\ call[t]["refresh"].said \in {"failed", "cut"}
                       /\ jar' = <<expected, live[expected]>>]_session

Settled(t) ==
    \/ status[t] = "authenticated" /\ path[t] \in AppPath
    \/ status[t] = "unauthenticated" /\ path[t] \in AuthPath

\* No page stays on its spinner: every load settles on a dashboard with a
\* session or on sign-in without one, also when the bootstrap is lost, and
\* the guard and the sign-in page do not send a tab back and forth.
LoadingEnds == \A t \in Tab : status[t] = "loading" ~> Settled(t)

\* A query that waits for the shared refresh gets an answer, whatever becomes
\* of the refresh.
Waits(t, q) == call[t][q].at = "waiting"
WaitersResume == \A t \in Tab, q \in Query : Waits(t, q) ~> ~Waits(t, q)
=============================================================================
