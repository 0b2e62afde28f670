----------------------- MODULE BrowserSession_proofs -----------------------
(***************************************************************************)
(* What BrowserSession promises, for any number of tabs, queries, logins   *)
(* and loads: its types, that a sign-out reported as complete is complete, *)
(* that the browser keeps the live token of its session, and which answers *)
(* may sign a tab out.                                                     *)
(*                                                                         *)
(* All four rest on one inductive invariant, Inv.  Most of it follows a    *)
(* refresh token through the places it may be in: the jar, a request that  *)
(* carries it, an answer that sets it.                                     *)
(***************************************************************************)
EXTENDS BrowserSession, TLAPS

\* The requests that trade a refresh token for the next one.
Renewal == {"bootstrap", "refresh"}

\* A refresh token the server gave out, and a login that has ended for good.
Issued(c) == c \in Cookies /\ c[1] <= logins /\ c[2] # 0
Over(l) == l <= logins /\ live[l] = 0

\* Every refresh token that is held, sent or answered was given out, so that
\* a login that has not begun has none and one that ended gets none.
Real(t, k) ==
    /\ call[t][k].at = "sent" /\ call[t][k].carries # None => Issued(call[t][k].carries)
    /\ call[t][k].at = "answered" /\ call[t][k].cookie \in Cookies
          => Issued(call[t][k].cookie)

Genuine ==
    /\ jar # None => Issued(jar)
    /\ expected # None => expected <= logins
    /\ \A l \in 1..MaxLogins : logins < l => live[l] = 0
    /\ \A t \in Tab, k \in AuthCall : Real(t, k)
    /\ \A t \in Tab :
          call[t]["login"].at = "answered" => call[t]["login"].cookie \in Cookies \cup {None}

\* What a sign-out claims to have ended has ended, from the answer that says
\* so to the report.
Ended ==
    /\ \A l \in closed : Over(l)
    /\ \A t \in Tab :
          call[t]["logout"].at = "answered" /\ call[t]["logout"].ended # None
              => Over(call[t]["logout"].ended)

\* A bootstrap in flight means a page that shows nothing yet: no form and no
\* menu from which another request could have started.
Bootstrapping ==
    \A t \in Tab :
        InFlight(t, "bootstrap") =>
            status[t] = "loading" /\ ~InFlight(t, "login") /\ ~InFlight(t, "logout")

\* A request or an answer with a refresh token of the login l.
Holds(t, k, l) ==
    \/ call[t][k].at = "sent" /\ call[t][k].carries # None /\ call[t][k].carries[1] = l
    \/ call[t][k].at = "answered" /\ call[t][k].cookie \in Cookies /\ call[t][k].cookie[1] = l

Newest(c) == c \in Cookies /\ live[c[1]] = c[2]

\* The answer to a sign-in is the only one to know the login that it began.
Private ==
    \A t \in Tab, c \in Cookies :
        call[t]["login"].at = "answered" /\ call[t]["login"].cookie = c =>
            /\ Newest(c)
            /\ jar # None => jar[1] # c[1]
            /\ \A u \in Tab, j \in AuthCall : Holds(u, j, c[1]) => u = t /\ j = "login"

(* While the live token has not gone astray (Kept): one cookie request at a *)
(* time, which carries the jar's token, and an answer with the live token   *)
(* of the expected login or without one; but for an answer that brings it   *)
(* the jar holds it.                                                        *)

Alone ==
    \A t, u \in Tab, j, k \in AuthCall :
        InFlight(t, j) /\ InFlight(u, k) => t = u /\ j = k

Carrying ==
    \A t \in Tab, k \in AuthCall \ {"login"} :
        call[t][k].at = "sent" => call[t][k].carries = jar

Answering ==
    \A t \in Tab, k \in AuthCall :
        call[t][k].at = "answered" /\ call[t][k].cookie \in Cookies =>
            /\ Newest(call[t][k].cookie)
            /\ k \in Renewal /\ expected # None => call[t][k].cookie[1] = expected

Renewing ==
    expected # None =>
        \A t \in Tab, k \in Renewal :
            call[t][k].at = "answered" =>
                \/ call[t][k].said \in {"granted", "cut"} /\ call[t][k].cookie \in Cookies
                \/ call[t][k].said = "failed" /\ call[t][k].cookie = None

Holding ==
    expected # None =>
        \/ jar \in Cookies /\ jar[1] = expected /\ Newest(jar)
        \/ \E t \in Tab : call[t]["logout"].at = "answered"
        \/ \E t \in Tab, k \in Renewal :
              call[t][k].at = "answered" /\ call[t][k].cookie \in Cookies

Kept == ~astray => Alone /\ Carrying /\ Answering /\ Renewing /\ Holding

Inv == SessionTypeOK /\ Genuine /\ Ended /\ Bootstrapping /\ Private /\ Kept

-----------------------------------------------------------------------------

(* The calls: their names, their records and the fields of these.           *)

\* The constants keep the kinds of calls and the cookies apart.
LEMMA Names ==
    /\ AuthCall \subseteq Call /\ Query \subseteq Call
    /\ \A k \in AuthCall : k \notin Query
    /\ {"bootstrap", "refresh", "logout", "login"} = AuthCall
    /\ None # Clear /\ None \notin 1..MaxLogins /\ None \notin Cookies /\ Clear \notin Cookies
<1> QED BY SessionAssumption DEF SessionConstants, Call, AuthCall, CookieCall

\* An idle call is a record of either type, with nothing but its state.
LEMMA IdleFields == Idle.at = "idle" /\ Idle \in AuthRecord /\ Idle \in QueryRecord
<1> QED BY DEF Idle, AuthRecord, QueryRecord

\* A request that goes out carries what it is given.
LEMMA SentFields ==
    ASSUME NEW what
    PROVE  /\ Sent(what).at = "sent" /\ Sent(what).carries = what
           /\ what \in Cookies \cup {None} => Sent(what) \in AuthRecord
           /\ what \in {"none", "valid", "expired"} => Sent(what) \in QueryRecord
<1> QED BY DEF Sent, AuthRecord, QueryRecord

Saying == {"granted", "cut", "refused", "failed"}

\* An answer says what it is given and brings that cookie.
LEMMA Answered ==
    ASSUME NEW said \in Saying, NEW c \in Cookies \cup {None, Clear}
    PROVE  LET x == Answer(said, c) IN
           /\ x.at = "answered" /\ x.said = said /\ x.cookie = c /\ x.ended = None
           /\ x \in AuthRecord
<1> QED BY DEF Answer, AuthRecord, Saying

\* The answer of a sign-out that ended a login names it and clears the jar.
LEMMA SignedOutOne ==
    ASSUME NEW l \in 1..MaxLogins
    PROVE  LET x == SignedOut(l) IN
           /\ x.at = "answered" /\ x.said = "granted" /\ x.cookie = Clear /\ x.ended = l
           /\ x \in AuthRecord
<1> QED BY DEF SignedOut, Answer, AuthRecord

\* The fields an auth request has, by its state.
LEMMA AuthFields ==
    ASSUME NEW c \in AuthRecord
    PROVE  /\ c.at \in {"idle", "sent", "answered"}
           /\ c.at = "sent" => c.carries \in Cookies \cup {None}
           /\ c.at = "answered" => /\ c.ended \in 1..MaxLogins \cup {None}
                                   /\ c.said \in Saying
                                   /\ c.cookie \in Cookies \cup {None, Clear}
<1>1. CASE c = Idle
  BY <1>1 DEF Idle
<1>2. CASE c \in [at : {"sent"}, carries : Cookies \cup {None}, retry : {FALSE}]
  BY <1>2
<1>3. CASE c \in [at : {"answered"}, ended : 1..MaxLogins \cup {None},
                  said : Saying, cookie : Cookies \cup {None, Clear}]
  BY <1>3
<1> QED BY <1>1, <1>2, <1>3 DEF AuthRecord, Saying

\* Every call has a record, and an auth request one of its own kind.
LEMMA Calls ==
    ASSUME Inv
    PROVE  /\ DOMAIN call = Tab /\ \A u \in Tab : DOMAIN call[u] = Call
           /\ \A u \in Tab, j \in AuthCall : call[u][j] \in AuthRecord
<1> QED BY Names DEF Inv, SessionTypeOK

\* What a 5xx or a body cut off makes of a 2xx.
LEMMA Arrived ==
    ASSUME NEW c \in Cookies \cup {None, Clear}, NEW a, a.cookie = c,
           NEW x \in Arriving(a)
    PROVE  \/ x = a
           \/ /\ faults < MaxFaults /\ x \in AuthRecord /\ x.at = "answered" /\ x.ended = None
              /\ \/ x.said = "failed" /\ x.cookie = None
                 \/ x.said = "cut" /\ x.cookie = c
<1>1. CASE x = a
  BY <1>1
<1>2. CASE x = Answer("failed", None) /\ faults < MaxFaults
  BY <1>2, Answered DEF Saying
<1>3. CASE x = Answer("cut", c) /\ faults < MaxFaults
  BY <1>3, Answered DEF Saying
<1> QED BY <1>1, <1>2, <1>3 DEF Arriving

\* A 5xx in place of the handler.
LEMMA Failing ==
    ASSUME NEW t, NEW k, Fails(t, k)
    PROVE  \E x \in AuthRecord :
              /\ call' = [call EXCEPT ![t][k] = x]
              /\ x.at = "answered" /\ x.said = "failed" /\ x.cookie = None /\ x.ended = None
              /\ faults < MaxFaults
<1>1. LET a == Answer("failed", None) IN
      a.at = "answered" /\ a.said = "failed" /\ a.cookie = None /\ a.ended = None /\ a \in AuthRecord
  BY Answered DEF Saying
<1> QED BY <1>1 DEF Fails

\* The answers that are faulty are counted.
LEMMA Counted ==
    ASSUME Inv, NEW x, x.said \in {"failed", "cut"} => faults < MaxFaults,
           faults' = faults + IF x.said \in {"failed", "cut"} THEN 1 ELSE 0
    PROVE  faults' \in 0..MaxFaults
<1> QED BY SessionAssumption DEF Inv, SessionTypeOK, SessionConstants

\* A login that only the answer to its sign-in knows stays so, while a request
\* learns of no login but by the jar and passes on no login but its own.
LEMMA Strangers ==
    ASSUME Inv, NEW t \in Tab, NEW k \in AuthCall,
           \A u \in Tab, j \in AuthCall :
               (u # t \/ j # k) => call'[u][j] = call[u][j] \/ call'[u][j] = Idle,
           k = "login" => call'[t][k].at # "answered",
           \A l : Holds(t, k, l)' => Holds(t, k, l) \/ (jar # None /\ jar[1] = l),
           jar' # None => jar' = jar \/ Holds(t, k, jar'[1]),
           \A c \in Cookies : Newest(c) => Newest(c)' \/ Holds(t, k, c[1])
    PROVE  Private'
<1> USE Names, IdleFields
<1> SUFFICES ASSUME NEW v \in Tab, NEW c \in Cookies,
                    call'[v]["login"].at = "answered", call'[v]["login"].cookie = c
             PROVE  /\ Newest(c)'
                    /\ jar' # None => jar'[1] # c[1]
                    /\ \A u \in Tab, j \in AuthCall : Holds(u, j, c[1])' => u = v /\ j = "login"
  BY DEF Private
<1>1. (v # t \/ k # "login") /\ call'[v]["login"] = call[v]["login"]
  BY DEF AuthCall
<1>2. /\ Newest(c)
      /\ jar # None => jar[1] # c[1]
      /\ \A u \in Tab, j \in AuthCall : Holds(u, j, c[1]) => u = v /\ j = "login"
  BY <1>1 DEF Inv, Private
<1>3. ~Holds(t, k, c[1])
  BY <1>1, <1>2
<1>4. \A u \in Tab, j \in AuthCall : (u # t \/ j # k) => (Holds(u, j, c[1])' => Holds(u, j, c[1]))
  BY DEF Holds
<1>5. ~Holds(t, k, c[1])'
  BY <1>2, <1>3
<1> QED BY <1>2, <1>3, <1>4, <1>5

-----------------------------------------------------------------------------
(* The invariant is inductive: the initial states, then the steps.          *)

\* It holds before any tab is open, signed in or not.
LEMMA Starts == SessionInit => Inv
<1> SUFFICES ASSUME SessionInit PROVE Inv
  OBVIOUS
<1> USE Names, IdleFields
<1>0. \A t \in Tab, k \in Call : call[t][k] = Idle
  BY DEF SessionInit
<1>1. SessionTypeOK
  <2>1. logins \in 0..MaxLogins /\ live \in [1..MaxLogins -> Nat]
    BY SessionAssumption DEF SessionInit, SessionConstants
  <2>2. jar \in Cookies \cup {None} /\ expected \in 1..MaxLogins \cup {None}
    BY SessionAssumption DEF SessionInit, SessionConstants, Cookies
  <2>3. /\ wanted \in [Tab -> RedirectParam] /\ path \in [Tab -> AppPath \cup AuthPath]
        /\ loads \in 0..MaxLoads /\ expiries \in 0..MaxExpiries /\ faults \in 0..MaxFaults
    BY SessionAssumption DEF SessionInit, SessionConstants
  <2>4. /\ DOMAIN call = Tab
        /\ \A t \in Tab :
              /\ DOMAIN call[t] = Call
              /\ \A k \in Call : call[t][k] \in IF k \in Query THEN QueryRecord ELSE AuthRecord
    BY DEF SessionInit
  <2> QED BY <2>1, <2>2, <2>3, <2>4 DEF SessionTypeOK, SessionInit
<1>2. Genuine
  BY <1>0, SessionAssumption DEF Genuine, Real, SessionInit, Issued, Cookies, SessionConstants
<1>3. Ended /\ Bootstrapping /\ Private
  BY <1>0 DEF Ended, Bootstrapping, Private, InFlight, SessionInit
<1>4. Kept
  BY <1>0, SessionAssumption
  DEF Kept, Alone, Carrying, Answering, Renewing, Holding, InFlight, Newest, Cookies,
      SessionInit, SessionConstants, Renewal
<1> QED BY <1>1, <1>2, <1>3, <1>4 DEF Inv

\* Serving a refresh or a bootstrap: the live token is replaced and only the
\* answer knows the new one, if it arrives; a token that is not live gets a
\* refusal; or nothing is done and the answer says so.
LEMMA Renewing2xx ==
    ASSUME Inv, NEW t \in Tab, NEW k \in Renewal,
           call[t][k].at = "sent", RefreshSession(t, k),
           NEW c, c = call[t][k].carries
    PROVE  \E x \in AuthRecord :
             /\ call' = [call EXCEPT ![t][k] = x]
             /\ x.at = "answered" /\ x.ended = None /\ astray' \in BOOLEAN
             /\ x.said \in {"failed", "cut"} => faults < MaxFaults
             /\ ~astray' => ~astray
             /\ \/ /\ live' = live
                   /\ \/ ~Live(c) /\ x.cookie = Clear
                      \/ x.said = "failed" /\ x.cookie = None
                \/ /\ Live(c) /\ Issued(c) /\ live' = [live EXCEPT ![c[1]] = c[2] + 1]
                   /\ \/ x.cookie = <<c[1], c[2] + 1>> /\ x.said \in {"granted", "cut"}
                      \/ x.cookie = None /\ astray'
<1> USE Names
<1>0. astray \in BOOLEAN
  BY DEF Inv, SessionTypeOK
<1>1. CASE /\ Live(c)
           /\ live' = [live EXCEPT ![c[1]] = c[2] + 1]
           /\ \E a \in Arriving(Answer("granted", <<c[1], c[2] + 1>>)) :
                 /\ call' = [call EXCEPT ![t][k] = a]
                 /\ astray' = (astray \/ a.cookie = None)
  <2> PICK n : n = <<c[1], c[2] + 1>>
    OBVIOUS
  <2>1. Issued(c)
    BY <1>1 DEF Inv, Genuine, Real, Live, Renewal, AuthCall, CookieCall
  <2>2. n \in Cookies /\ n # None
    BY <2>1 DEF Issued, Cookies
  <2>3. PICK x \in Arriving(Answer("granted", n)) :
              call' = [call EXCEPT ![t][k] = x] /\ astray' = (astray \/ x.cookie = None)
    BY <1>1
  <2>4. LET a == Answer("granted", n) IN
        a.at = "answered" /\ a.said = "granted" /\ a.cookie = n /\ a.ended = None /\ a \in AuthRecord
    BY <2>2, Answered DEF Saying
  <2>5. /\ x \in AuthRecord /\ x.at = "answered" /\ x.ended = None
        /\ x.said \in {"failed", "cut"} => faults < MaxFaults
        /\ \/ x.cookie = n /\ x.said \in {"granted", "cut"}
           \/ x.cookie = None
    BY <2>2, <2>4, Arrived
  <2>6. astray' \in BOOLEAN /\ (~astray' => ~astray) /\ (x.cookie = None => astray')
    BY <1>0, <2>3
  <2> QED BY <1>1, <2>1, <2>3, <2>5, <2>6
<1>2. CASE /\ ~Live(c)
           /\ call' = [call EXCEPT ![t][k] = Answer("refused", Clear)]
           /\ UNCHANGED <<live, astray>>
  <2>1. LET a == Answer("refused", Clear) IN
        a.at = "answered" /\ a.said = "refused" /\ a.cookie = Clear /\ a.ended = None /\ a \in AuthRecord
    BY Answered DEF Saying
  <2> QED BY <1>0, <1>2, <2>1
<1>3. CASE Fails(t, k) /\ UNCHANGED <<live, astray>>
  BY <1>0, <1>3, Failing
<1> QED BY <1>1, <1>2, <1>3 DEF RefreshSession

\* Serving a refresh or a bootstrap keeps the invariant.
LEMMA RenewalServed ==
    ASSUME Inv, NEW t \in Tab, NEW k \in Renewal,
           call[t][k].at = "sent", RefreshSession(t, k),
           faults' = faults + IF call'[t][k].said \in {"failed", "cut"} THEN 1 ELSE 0,
           UNCHANGED <<logins, jar, token, page, loads, expiries, expected, closed>>
    PROVE  Inv'
<1> USE Names, IdleFields
<1> PICK c : c = call[t][k].carries
  OBVIOUS
<1>0. k \in AuthCall /\ k \in Call /\ k \notin Query /\ k # "login" /\ k # "logout"
  BY DEF Renewal, AuthCall, CookieCall, Call
<1>1. PICK x \in AuthRecord :
         /\ call' = [call EXCEPT ![t][k] = x]
         /\ x.at = "answered" /\ x.ended = None /\ astray' \in BOOLEAN
         /\ x.said \in {"failed", "cut"} => faults < MaxFaults
         /\ ~astray' => ~astray
         /\ \/ /\ live' = live
               /\ \/ ~Live(c) /\ x.cookie = Clear
                  \/ x.said = "failed" /\ x.cookie = None
            \/ /\ Live(c) /\ Issued(c) /\ live' = [live EXCEPT ![c[1]] = c[2] + 1]
               /\ \/ x.cookie = <<c[1], c[2] + 1>> /\ x.said \in {"granted", "cut"}
                  \/ x.cookie = None /\ astray'
  BY Renewing2xx
<1>2. /\ DOMAIN call' = Tab /\ \A u \in Tab : DOMAIN call'[u] = Call
      /\ call'[t][k] = x
      /\ \A u \in Tab, j \in Call : (u # t \/ j # k) => call'[u][j] = call[u][j]
  BY <1>0, <1>1, Calls
<1>3. \A u \in Tab, j \in AuthCall : (u # t \/ j # k) => call'[u][j] = call[u][j]
  BY <1>2
<1>4. /\ live' \in [1..MaxLogins -> Nat]
      /\ x.cookie \in Cookies =>
            /\ Issued(c) /\ Live(c) /\ Issued(x.cookie)' /\ Newest(x.cookie)'
            /\ x.cookie[1] = c[1] /\ x.said \in {"granted", "cut"}
      /\ \A l \in 1..MaxLogins : live'[l] = live[l] \/ (c # None /\ c[1] = l)
      /\ \A l \in 1..MaxLogins : Over(l) => Over(l)'
      /\ \A l \in 1..MaxLogins : logins' < l => live'[l] = 0
  <2>1. CASE live' = live /\ x.cookie \in {None, Clear}
    BY <2>1 DEF Inv, SessionTypeOK, Genuine, Over
  <2>2. CASE /\ Live(c) /\ Issued(c) /\ live' = [live EXCEPT ![c[1]] = c[2] + 1]
             /\ \/ x.cookie = <<c[1], c[2] + 1>> /\ x.said \in {"granted", "cut"}
                \/ x.cookie = None
    <3>1. c[1] \in 1..MaxLogins /\ c[2] \in Nat /\ c[2] # 0 /\ c[1] <= logins /\ live[c[1]] = c[2]
          /\ c # None
      BY <2>2 DEF Issued, Cookies, Live
    <3>2. live' \in [1..MaxLogins -> Nat] /\ live'[c[1]] = c[2] + 1
          /\ \A l \in 1..MaxLogins : l # c[1] => live'[l] = live[l]
      BY <2>2, <3>1 DEF Inv, SessionTypeOK
    <3>3. CASE x.cookie = None
      BY <3>1, <3>2, <3>3 DEF Inv, SessionTypeOK, Genuine, Over
    <3>4. CASE x.cookie = <<c[1], c[2] + 1>> /\ x.said \in {"granted", "cut"}
      <4>1. x.cookie \in Cookies /\ x.cookie[1] = c[1] /\ x.cookie[2] = c[2] + 1
        BY <3>1, <3>4 DEF Cookies
      <4>2. Issued(x.cookie)' /\ Newest(x.cookie)'
        BY <3>1, <3>2, <4>1 DEF Issued, Newest
      <4> QED BY <2>2, <3>1, <3>2, <3>4, <4>1, <4>2 DEF Inv, SessionTypeOK, Genuine, Over
    <3> QED BY <2>2, <3>3, <3>4
  <2> QED BY <1>1, <2>1, <2>2
<1>10. SessionTypeOK'
  <2>1. \A u \in Tab, j \in Call :
          call'[u][j] \in IF j \in Query THEN QueryRecord ELSE AuthRecord
    BY <1>0, <1>1, <1>2 DEF Inv, SessionTypeOK
  <2>2. faults' \in 0..MaxFaults
    BY <1>1, <1>2, Counted
  <2> QED BY <1>1, <1>2, <1>4, <2>1, <2>2 DEF Inv, SessionTypeOK, page
<1>11. Genuine'
  <2>1. \A u \in Tab, j \in AuthCall : Real(u, j)'
    BY <1>1, <1>2, <1>3, <1>4 DEF Inv, Genuine, Real, Issued
  <2>2. \A d : Issued(d) => Issued(d)'
    BY DEF Issued
  <2>3. \A u \in Tab : call'[u]["login"] = call[u]["login"]
    BY <1>0, <1>3
  <2> QED BY <1>4, <2>1, <2>2, <2>3 DEF Inv, Genuine
<1>12. Ended'
  BY <1>0, <1>3, <1>4, Calls, AuthFields DEF Inv, Ended, SessionTypeOK, Over
<1>13. Bootstrapping'
  BY <1>0, <1>1, <1>2, <1>3 DEF Inv, Bootstrapping, InFlight, page, AuthCall, CookieCall
<1>14. Private'
  <2>1. \A l : Holds(t, k, l)' => Holds(t, k, l)
    BY <1>1, <1>2, <1>4 DEF Holds, Live
  <2>2. \A d \in Cookies : Newest(d) => Newest(d)' \/ Holds(t, k, d[1])
    BY <1>4 DEF Newest, Holds, Cookies
  <2> QED BY <1>0, <1>3, <2>1, <2>2, Strangers
<1>15. Kept'
  <2> SUFFICES ASSUME ~astray' PROVE (Alone /\ Carrying /\ Answering /\ Renewing /\ Holding)'
    BY DEF Kept
  <2>1. Alone /\ Carrying /\ Answering /\ Renewing /\ Holding
    BY <1>1 DEF Inv, Kept
  <2>2. \A u \in Tab, j \in AuthCall : InFlight(u, j) => u = t /\ j = k
    BY <1>0, <2>1 DEF Alone, InFlight
  <2>3. \A u \in Tab, j \in AuthCall :
            (u # t \/ j # k) => ~InFlight(u, j) /\ call'[u][j] = call[u][j]
    BY <2>2, <1>3
  <2>4. Alone' /\ Carrying'
    BY <1>1, <1>2, <2>3 DEF InFlight, Alone, Carrying
  <2>5. expected # None => jar \in Cookies /\ jar[1] = expected /\ Newest(jar) /\ jar = c
    BY <1>0, <2>1, <2>2 DEF Holding, Carrying, Renewal, InFlight, AuthCall, CookieCall
  <2>6. expected # None => Live(c) /\ c[1] = expected
    BY <2>5 DEF Newest, Live
  <2>7. Answering' /\ Renewing'
    <3>1. \A u \in Tab, j \in AuthCall : call'[u][j].at = "answered" => u = t /\ j = k
      BY <2>3 DEF InFlight
    <3>2. Answering'
      BY <1>2, <1>4, <2>6, <3>1 DEF Answering
    <3>3. expected # None => \/ x.said \in {"granted", "cut"} /\ x.cookie \in Cookies
                             \/ x.said = "failed" /\ x.cookie = None
      <4> SUFFICES ASSUME expected # None
                   PROVE  \/ x.said \in {"granted", "cut"} /\ x.cookie \in Cookies
                          \/ x.said = "failed" /\ x.cookie = None
        OBVIOUS
      <4>1. x.cookie = <<c[1], c[2] + 1>> => x.cookie \in Cookies
        BY <2>5 DEF Cookies
      <4> QED BY <1>1, <1>2, <2>6, <4>1
    <3>4. Renewing'
      BY <1>0, <1>2, <3>1, <3>3 DEF Renewing, Renewal, AuthCall, CookieCall
    <3> QED BY <3>2, <3>4
  <2>8. Holding'
    <3> SUFFICES ASSUME expected # None PROVE Holding'
      BY DEF Holding
    <3>1. CASE x.cookie \in Cookies
      BY <1>1, <1>2, <3>1 DEF Holding
    <3>2. CASE live' = live
      BY <2>5, <3>2 DEF Holding, Newest
    <3>3. Live(c) /\ x.cookie = <<c[1], c[2] + 1>> => x.cookie \in Cookies
      BY <2>5 DEF Cookies
    <3> QED BY <1>1, <3>1, <3>2, <3>3
  <2> QED BY <2>4, <2>7, <2>8
<1> QED BY <1>10, <1>11, <1>12, <1>13, <1>14, <1>15 DEF Inv

\* Serving a sign-out ends the login whose live token it carries, or none.
LEMMA SignOutServed ==
    ASSUME Inv, NEW t \in Tab,
           call[t]["logout"].at = "sent", LogoutUser(t),
           faults' = faults + IF call'[t]["logout"].said \in {"failed", "cut"} THEN 1 ELSE 0,
           UNCHANGED <<logins, jar, token, page, loads, expiries, expected, closed, astray>>
    PROVE  Inv'
<1> USE Names
<1> PICK c : c = call[t]["logout"].carries
  OBVIOUS
<1>0. "logout" \in AuthCall /\ "logout" \in Call /\ "logout" \notin Query
  BY DEF AuthCall, CookieCall, Call
<1>1. /\ c \in Cookies \cup {None}
      /\ DOMAIN call = Tab /\ \A u \in Tab : DOMAIN call[u] = Call
      /\ \A u \in Tab, j \in AuthCall : call[u][j] \in AuthRecord
  <2>1. call[t]["logout"] \in AuthRecord
    BY <1>0 DEF Inv, SessionTypeOK
  <2> QED BY <2>1, <1>0, AuthFields DEF Inv, SessionTypeOK
<1>2. PICK x : call' = [call EXCEPT ![t]["logout"] = x] /\ x.at = "answered" /\ x \in AuthRecord
                  /\ x.cookie \notin Cookies
                  /\ (x.said \in {"failed", "cut"} => faults < MaxFaults)
                  /\ \/ /\ x.ended = None /\ live' = live
                     \/ /\ Issued(c) /\ x.ended \in {None, c[1]}
                        /\ live' = [live EXCEPT ![c[1]] = 0]
  <2>1. CASE /\ Live(c)
             /\ live' = [live EXCEPT ![c[1]] = 0]
             /\ \E a \in Arriving(SignedOut(c[1])) : call' = [call EXCEPT ![t]["logout"] = a]
    <3>1. Issued(c)
      BY <1>0, <1>1, <2>1 DEF Inv, Genuine, Real, Live
    <3>2. c[1] \in 1..MaxLogins
      BY <3>1 DEF Issued, Cookies
    <3>3. PICK a : a = SignedOut(c[1])
      OBVIOUS
    <3>4. /\ a.at = "answered" /\ a \in AuthRecord /\ a.said = "granted"
          /\ a.cookie = Clear /\ a.ended = c[1]
      BY <3>2, <3>3, SignedOutOne
    <3>5. PICK x \in Arriving(a) : call' = [call EXCEPT ![t]["logout"] = x]
      BY <2>1, <3>3
    <3>6. \/ x = a
          \/ /\ faults < MaxFaults /\ x \in AuthRecord /\ x.at = "answered" /\ x.ended = None
             /\ x.cookie \in {None, Clear}
      BY <3>4, Arrived
    <3> QED BY <2>1, <3>1, <3>4, <3>5, <3>6
  <2>2. CASE /\ call' = [call EXCEPT ![t]["logout"] = Answer("refused", None)]
             /\ UNCHANGED live
    <3>1. LET a == Answer("refused", None) IN
          a.at = "answered" /\ a.said = "refused" /\ a.cookie = None /\ a.ended = None /\ a \in AuthRecord
      BY Answered DEF Saying
    <3> QED BY <2>2, <3>1
  <2>3. CASE Fails(t, "logout") /\ UNCHANGED live
    BY <2>3, Failing
  <2> QED BY <2>1, <2>2, <2>3 DEF LogoutUser
<1>3. /\ DOMAIN call' = Tab /\ \A u \in Tab : DOMAIN call'[u] = Call
      /\ call'[t]["logout"] = x
      /\ \A u \in Tab, j \in Call : (u # t \/ j # "logout") => call'[u][j] = call[u][j]
  BY <1>0, <1>1, <1>2
<1>4. \A u \in Tab, j \in AuthCall : (u # t \/ j # "logout") => call'[u][j] = call[u][j]
  BY <1>3
<1>5. /\ live' \in [1..MaxLogins -> Nat]
      /\ \A l \in 1..MaxLogins : live'[l] \in {0, live[l]}
      /\ x.ended # None => Over(x.ended)'
  <2>1. CASE live' = live
    BY <1>2, <2>1 DEF Inv, SessionTypeOK, Over, Issued, Cookies
  <2>2. CASE Issued(c) /\ x.ended \in {None, c[1]} /\ live' = [live EXCEPT ![c[1]] = 0]
    BY <2>2 DEF Inv, SessionTypeOK, Over, Issued, Cookies
  <2> QED BY <1>2, <2>1, <2>2
<1>10. SessionTypeOK'
  <2>1. \A u \in Tab, j \in Call :
          call'[u][j] \in IF j \in Query THEN QueryRecord ELSE AuthRecord
    BY <1>0, <1>2, <1>3 DEF Inv, SessionTypeOK
  <2>2. faults' \in 0..MaxFaults
    BY <1>2, <1>3, Counted
  <2> QED BY <1>3, <1>5, <2>1, <2>2 DEF Inv, SessionTypeOK, page
<1>11. Genuine'
  <2>1. \A u \in Tab, j \in AuthCall : Real(u, j)'
    BY <1>2, <1>3, <1>4 DEF Inv, Genuine, Real, Issued
  <2>2. \A d : Issued(d) => Issued(d)'
    BY DEF Issued
  <2>3. \A u \in Tab : call'[u]["login"] = call[u]["login"]
    BY <1>4 DEF AuthCall
  <2>4. \A l \in 1..MaxLogins : logins' < l => live'[l] = 0
    BY <1>5 DEF Inv, Genuine
  <2> QED BY <2>1, <2>2, <2>3, <2>4 DEF Inv, Genuine
<1>12. Ended'
  <2>1. \A l \in 1..MaxLogins : Over(l) => Over(l)'
    BY <1>5 DEF Over
  <2> QED BY <1>0, <1>2, <1>3, <1>5, <2>1, <1>1, AuthFields DEF Inv, Ended, SessionTypeOK
<1>13. Bootstrapping'
  BY <1>4 DEF Inv, Bootstrapping, InFlight, page, AuthCall, CookieCall
<1>15. Private'
  <2>1. \A l : ~Holds(t, "logout", l)'
    BY <1>2, <1>3 DEF Holds
  <2>2. \A d \in Cookies : Newest(d) => Newest(d)' \/ Holds(t, "logout", d[1])
    <3>1. CASE live' = live
      BY <3>1 DEF Newest
    <3>2. CASE Issued(c) /\ live' = [live EXCEPT ![c[1]] = 0]
      BY <1>0, <3>2, Names DEF Newest, Holds, Issued, Cookies, Inv, SessionTypeOK
    <3> QED BY <1>2, <3>1, <3>2
  <2> QED BY <1>0, <1>4, <2>1, <2>2, Strangers
<1>14. Kept'
  <2> SUFFICES ASSUME ~astray' PROVE (Alone /\ Carrying /\ Answering /\ Renewing /\ Holding)'
    BY DEF Kept
  <2>1. Alone
    BY DEF Inv, Kept
  <2>2. \A u \in Tab, j \in AuthCall : InFlight(u, j) => u = t /\ j = "logout"
    BY <1>0, <2>1 DEF Alone, InFlight
  <2>3. \A u \in Tab, j \in AuthCall : (u # t \/ j # "logout") => ~InFlight(u, j) /\ call'[u][j] = call[u][j]
    BY <2>2, <1>4
  <2>4. Alone' /\ Carrying' /\ Answering'
    BY <1>2, <1>3, <2>3 DEF InFlight, Alone, Carrying, Answering
  <2>5. Renewing'
    BY <1>2, <1>3, <2>3 DEF InFlight, Renewing, Renewal, AuthCall, CookieCall
  <2>6. Holding'
    BY <1>2, <1>3 DEF Holding
  <2> QED BY <2>4, <2>5, <2>6
<1> QED BY <1>10, <1>11, <1>12, <1>13, <1>14, <1>15 DEF Inv

\* Serving a sign-in begins a login nobody held a token of, or refuses.
LEMMA SignInServed ==
    ASSUME Inv, NEW t \in Tab,
           call[t]["login"].at = "sent", LoginUser(t),
           faults' = faults + IF call'[t]["login"].said \in {"failed", "cut"} THEN 1 ELSE 0,
           UNCHANGED <<jar, token, page, loads, expiries, expected, closed, astray>>
    PROVE  Inv'
<1> USE Names
<1>0. "login" \in AuthCall /\ "login" \in Call /\ "login" \notin Query
  BY DEF AuthCall, CookieCall, Call
<1>1. /\ DOMAIN call = Tab /\ \A u \in Tab : DOMAIN call[u] = Call
      /\ \A u \in Tab, j \in AuthCall : call[u][j] \in AuthRecord
  BY DEF Inv, SessionTypeOK, AuthCall, Call
<1>2. PICK x : call' = [call EXCEPT ![t]["login"] = x] /\ x.at = "answered" /\ x \in AuthRecord
                  /\ (x.said \in {"failed", "cut"} => faults < MaxFaults)
                  /\ \/ /\ x.cookie = None /\ live' = live /\ logins' = logins
                     \/ /\ logins < MaxLogins /\ logins' = logins + 1
                        /\ live' = [live EXCEPT ![logins + 1] = 1]
                        /\ x.cookie \in {None, <<logins + 1, 1>>}
  <2>1. CASE /\ logins < MaxLogins
             /\ logins' = logins + 1
             /\ live' = [live EXCEPT ![logins + 1] = 1]
             /\ \E a \in Arriving(Answer("granted", <<logins + 1, 1>>)) :
                   call' = [call EXCEPT ![t]["login"] = a]
    <3>1. PICK n : n = <<logins + 1, 1>>
      OBVIOUS
    <3>2. n \in Cookies
      BY <2>1, <3>1, SessionAssumption DEF Inv, SessionTypeOK, SessionConstants, Cookies
    <3>3. PICK a : a = Answer("granted", n)
      OBVIOUS
    <3>4. a.at = "answered" /\ a.said = "granted" /\ a.cookie = n /\ a \in AuthRecord
      BY <3>2, <3>3, Answered DEF Saying
    <3>5. PICK x \in Arriving(a) : call' = [call EXCEPT ![t]["login"] = x]
      BY <2>1, <3>1, <3>3
    <3>6. \/ x = a
          \/ /\ faults < MaxFaults /\ x \in AuthRecord /\ x.at = "answered"
             /\ x.cookie \in {None, n}
      BY <3>2, <3>4, Arrived
    <3> QED BY <2>1, <3>1, <3>4, <3>5, <3>6
  <2>2. CASE call' = [call EXCEPT ![t]["login"] = Answer("refused", None)] /\ UNCHANGED server
    <3>1. LET a == Answer("refused", None) IN
          a.at = "answered" /\ a.said = "refused" /\ a.cookie = None /\ a \in AuthRecord
      BY Answered DEF Saying
    <3> QED BY <2>2, <3>1 DEF server
  <2>3. CASE Fails(t, "login") /\ UNCHANGED server
    BY <2>3, Failing DEF server
  <2> QED BY <2>1, <2>2, <2>3 DEF LoginUser
<1>3. /\ DOMAIN call' = Tab /\ \A u \in Tab : DOMAIN call'[u] = Call
      /\ call'[t]["login"] = x
      /\ \A u \in Tab, j \in Call : (u # t \/ j # "login") => call'[u][j] = call[u][j]
  BY <1>0, <1>1, <1>2
<1>4. \A u \in Tab, j \in AuthCall : (u # t \/ j # "login") => call'[u][j] = call[u][j]
  BY <1>3
<1>5. /\ live' \in [1..MaxLogins -> Nat] /\ logins' \in 0..MaxLogins /\ logins <= logins'
      /\ \A l \in 1..MaxLogins : l <= logins => live'[l] = live[l]
      /\ \A l \in 1..MaxLogins : logins' < l => live'[l] = 0
      /\ x.cookie \in Cookies => Issued(x.cookie)' /\ Newest(x.cookie)'
      /\ x.cookie \in Cookies \cup {None}
      /\ x.cookie \in Cookies => x.cookie[1] = logins + 1 /\ logins' = logins + 1
  <2>1. CASE x.cookie = None /\ live' = live /\ logins' = logins
    BY <2>1 DEF Inv, SessionTypeOK, Genuine
  <2>2. CASE /\ logins < MaxLogins /\ logins' = logins + 1
             /\ live' = [live EXCEPT ![logins + 1] = 1]
             /\ x.cookie \in {None, <<logins + 1, 1>>}
    BY <2>2, SessionAssumption DEF Inv, SessionTypeOK, Genuine, Issued, Newest, Cookies, SessionConstants
  <2> QED BY <1>2, <2>1, <2>2
<1>6. \A d : Issued(d) => Issued(d)'
  BY <1>5 DEF Issued, Inv, SessionTypeOK, Cookies
<1>10. SessionTypeOK'
  <2>1. \A u \in Tab, j \in Call :
          call'[u][j] \in IF j \in Query THEN QueryRecord ELSE AuthRecord
    BY <1>0, <1>2, <1>3 DEF Inv, SessionTypeOK
  <2>2. faults' \in 0..MaxFaults
    BY <1>2, <1>3, Counted
  <2> QED BY <1>3, <1>5, <2>1, <2>2 DEF Inv, SessionTypeOK, page
<1>11. Genuine'
  <2>1. \A u \in Tab, j \in AuthCall : Real(u, j)'
    BY <1>2, <1>3, <1>4, <1>5, <1>6 DEF Inv, Genuine, Real
  <2>3. \A u \in Tab : u # t => call'[u]["login"] = call[u]["login"]
    BY <1>4 DEF AuthCall
  <2>4. expected' # None => expected' <= logins'
    BY <1>5 DEF Inv, Genuine, SessionTypeOK
  <2> QED BY <2>1, <1>3, <1>5, <1>6, <2>3, <2>4 DEF Inv, Genuine
<1>12. Ended'
  <2>1. \A l \in 1..MaxLogins : Over(l) => Over(l)'
    BY <1>5 DEF Over, Inv, SessionTypeOK
  <2>2. \A u \in Tab : call'[u]["logout"] = call[u]["logout"]
    BY <1>4 DEF AuthCall, CookieCall
  <2> QED BY <2>1, <2>2, <1>1, AuthFields DEF Inv, Ended, SessionTypeOK, AuthCall, CookieCall
<1>13. Bootstrapping'
  BY <1>4 DEF Inv, Bootstrapping, InFlight, page, AuthCall, CookieCall
<1>15. Private'
  <2> SUFFICES ASSUME NEW v \in Tab, NEW d \in Cookies,
                      call'[v]["login"].at = "answered", call'[v]["login"].cookie = d
               PROVE  /\ Newest(d)'
                      /\ jar' # None => jar'[1] # d[1]
                      /\ \A u \in Tab, j \in AuthCall : Holds(u, j, d[1])' => u = v /\ j = "login"
    BY DEF Private
  <2>1. \A u \in Tab, j \in AuthCall, l \in 1..MaxLogins :
            (u # t \/ j # "login") => (Holds(u, j, l)' => Holds(u, j, l) /\ l <= logins)
    BY <1>4 DEF Holds, Inv, Genuine, Real, Issued
  <2>2. \A l : Holds(t, "login", l)' => x.cookie \in Cookies /\ l = logins + 1 /\ logins' = logins + 1
    BY <1>2, <1>3, <1>5 DEF Holds
  <2>3. d[1] \in 1..MaxLogins
    BY DEF Cookies
  <2>4. CASE v = t
    <3>1. d = x.cookie /\ Newest(d)' /\ d[1] = logins + 1
      BY <1>3, <1>5, <2>4
    <3>2. jar # None => jar[1] <= logins /\ jar[1] \in 1..MaxLogins
      BY DEF Inv, Genuine, Issued, Cookies
    <3>3. logins \in Nat /\ jar' = jar
      BY DEF Inv, SessionTypeOK
    <3>4. ~(logins + 1 <= logins)
      BY <3>3
    <3> QED BY <2>1, <2>3, <2>4, <3>1, <3>2, <3>3, <3>4
  <2>5. CASE v # t
    <3>1. call[v]["login"].at = "answered" /\ call[v]["login"].cookie = d
      BY <1>0, <1>3, <2>5
    <3>2. /\ Newest(d) /\ (jar # None => jar[1] # d[1])
          /\ \A u \in Tab, j \in AuthCall : Holds(u, j, d[1]) => u = v /\ j = "login"
      BY <3>1 DEF Inv, Private
    <3>3. d[1] <= logins
      BY <1>0, <3>1 DEF Inv, Genuine, Real, Issued
    <3>4. Newest(d)'
      BY <1>5, <2>3, <3>2, <3>3 DEF Newest
    <3>5. logins \in Nat /\ jar' = jar
      BY DEF Inv, SessionTypeOK
    <3>6. ~Holds(t, "login", d[1])'
      BY <2>2, <2>3, <3>3, <3>5
    <3> QED BY <2>1, <2>3, <3>2, <3>4, <3>5, <3>6
  <2> QED BY <2>4, <2>5
<1>14. Kept'
  <2> SUFFICES ASSUME ~astray' PROVE (Alone /\ Carrying /\ Answering /\ Renewing /\ Holding)'
    BY DEF Kept
  <2>1. Alone /\ Holding
    BY DEF Inv, Kept
  <2>2. \A u \in Tab, j \in AuthCall : InFlight(u, j) => u = t /\ j = "login"
    BY <1>0, <2>1 DEF Alone, InFlight
  <2>3. \A u \in Tab, j \in AuthCall : (u # t \/ j # "login") => ~InFlight(u, j) /\ call'[u][j] = call[u][j]
    BY <2>2, <1>4
  <2>4. Alone' /\ Carrying'
    BY <1>2, <1>3, <2>3 DEF InFlight, Alone, Carrying
  <2>5. Answering' /\ Renewing'
    BY <1>2, <1>3, <1>5, <2>3 DEF InFlight, Answering, Renewing, Renewal, AuthCall, CookieCall
  <2>6. Holding'
    <3>1. expected # None => jar \in Cookies /\ jar[1] = expected /\ Newest(jar)
      BY <2>1, <2>2 DEF Holding, InFlight, Renewal, AuthCall, CookieCall
    <3>2. expected # None => Newest(jar)'
      BY <3>1, <1>5 DEF Newest, Inv, Genuine, Issued, Cookies
    <3> QED BY <3>1, <3>2 DEF Holding
  <2> QED BY <2>4, <2>5, <2>6
<1> QED BY <1>10, <1>11, <1>12, <1>13, <1>14, <1>15 DEF Inv

\* A step that leaves the cookie requests and what they are about alone.
LEMMA Quiet ==
    ASSUME Inv,
           UNCHANGED <<server, jar, expected, closed, astray>>,
           \A u \in Tab, j \in AuthCall : call'[u][j] = call[u][j]
    PROVE  Genuine' /\ Ended' /\ Private' /\ Kept'
<1> USE Names
<1>1. \A d : Issued(d) <=> Issued(d)'
  BY DEF Issued, server
<1>2. \A u \in Tab : call'[u]["login"] = call[u]["login"] /\ call'[u]["logout"] = call[u]["logout"]
  BY DEF AuthCall, CookieCall
<1>3. Genuine'
  <2>1. \A u \in Tab, j \in AuthCall : Real(u, j)'
    BY <1>1 DEF Inv, Genuine, Real
  <2> QED BY <1>1, <1>2, <2>1 DEF Inv, Genuine, server
<1>4. Ended'
  BY <1>2 DEF Inv, Ended, Over, server
<1>6. Private'
  <2>1. \A u \in Tab, j \in AuthCall : \A l : Holds(u, j, l)' = Holds(u, j, l)
    BY DEF Holds
  <2>2. \A d : Newest(d)' = Newest(d)
    BY DEF Newest, server
  <2> QED BY <1>2, <2>1, <2>2 DEF Inv, Private
<1>5. Kept'
  <2> SUFFICES ASSUME ~astray' PROVE (Alone /\ Carrying /\ Answering /\ Renewing /\ Holding)'
    BY DEF Kept
  <2>1. Alone /\ Carrying /\ Answering /\ Renewing /\ Holding
    BY DEF Inv, Kept
  <2>2. \A u \in Tab, j \in AuthCall : InFlight(u, j)' = InFlight(u, j)
    BY DEF InFlight
  <2>3. Alone' /\ Carrying' /\ Renewing'
    BY <2>1, <2>2 DEF Alone, Carrying, Renewing, Renewal, AuthCall, CookieCall
  <2>4. Answering'
    BY <2>1 DEF Answering, Newest, server
  <2>5. Holding'
    BY <2>1 DEF Holding, Newest, server, Renewal, AuthCall, CookieCall
  <2> QED BY <2>3, <2>4, <2>5
<1> QED BY <1>3, <1>4, <1>5, <1>6

\* A cookie request goes out, while others of the same tab may be forgotten:
\* if none was in flight it is the only one and carries the live token.
LEMMA Sending ==
    ASSUME Inv, NEW t \in Tab, NEW k \in AuthCall, NEW what,
           UNCHANGED <<server, jar, expected, closed>>,
           ~astray' => ~astray /\ \A u \in Tab, j \in AuthCall : ~InFlight(u, j),
           call'[t][k] = Sent(what),
           what = IF k = "login" THEN None ELSE jar,
           \A u \in Tab, j \in AuthCall :
               (u # t \/ j # k) => call'[u][j] = call[u][j] \/ call'[u][j] = Idle
    PROVE  Genuine' /\ Ended' /\ Private' /\ Kept'
<1> USE Names, IdleFields
<1>1. \A d : Issued(d) <=> Issued(d)'
  BY DEF Issued, server
<1>2. call'[t][k].at = "sent" /\ call'[t][k].carries = what
  BY SentFields
<1>3. Genuine'
  <2>0. what # None => Issued(what)
    BY DEF Inv, Genuine
  <2>1. \A u \in Tab, j \in AuthCall : Real(u, j)'
    BY <1>1, <1>2, <2>0 DEF Inv, Genuine, Real
  <2>2. \A u \in Tab : call'[u]["login"].at = "answered" => call'[u]["login"] = call[u]["login"]
    BY <1>2 DEF AuthCall
  <2> QED BY <1>1, <2>1, <2>2 DEF Inv, Genuine, server
<1>4. Ended'
  <2>1. \A u \in Tab : call'[u]["logout"].at = "answered" => call'[u]["logout"] = call[u]["logout"]
    BY <1>2 DEF AuthCall, CookieCall
  <2> QED BY <2>1 DEF Inv, Ended, Over, server
<1>6. Private'
  <2>1. \A l : Holds(t, k, l)' => jar # None /\ jar[1] = l
    BY <1>2 DEF Holds
  <2>2. \A d : Newest(d)' = Newest(d)
    BY DEF Newest, server
  <2> QED BY <1>2, <2>1, <2>2, Strangers
<1>5. Kept'
  <2> SUFFICES ASSUME ~astray' PROVE (Alone /\ Carrying /\ Answering /\ Renewing /\ Holding)'
    BY DEF Kept
  <2>1. Holding /\ \A u \in Tab, j \in AuthCall : ~InFlight(u, j)
    BY DEF Inv, Kept
  <2>2. \A u \in Tab, j \in AuthCall :
           (u # t \/ j # k) => call'[u][j].at \notin {"sent", "answered"}
    BY <2>1 DEF InFlight
  <2>3. Alone' /\ Carrying' /\ Answering' /\ Renewing'
    BY <1>2, <2>2 DEF Alone, Carrying, Answering, Renewing, Renewal, InFlight, AuthCall, CookieCall
  <2>4. expected # None => jar \in Cookies /\ jar[1] = expected /\ Newest(jar)
    BY <2>1 DEF Holding, InFlight, Renewal, AuthCall, CookieCall
  <2>5. Holding'
    BY <2>4 DEF Holding, Newest, server
  <2> QED BY <2>3, <2>5
<1> QED BY <1>3, <1>4, <1>5, <1>6

\* A request that crosses none, from an idle slot, is the only one out.
LEMMA CrossingNothing ==
    ASSUME NEW t \in Tab, NEW k \in AuthCall, call[t][k] = Idle, Crossing(t, k)
    PROVE  ~astray' => ~astray /\ \A u \in Tab, j \in AuthCall : ~InFlight(u, j)
<1> QED BY IdleFields DEF Crossing, Beside, InFlight

\* A document is loaded: its bootstrap goes out.
LEMMA Loading ==
    ASSUME Inv, NEW t \in Tab, NEW p \in AppPath \cup AuthPath,
           NEW r \in RedirectParam, Load(t, p, r)
    PROVE  Inv'
<1> USE Names, IdleFields
<1>0. "bootstrap" \in AuthCall /\ "bootstrap" \in Call /\ "bootstrap" \notin Query
  BY DEF AuthCall, CookieCall, Call
<1>1. /\ DOMAIN call' = Tab /\ \A u \in Tab : DOMAIN call'[u] = Call
      /\ call'[t]["bootstrap"] = Sent(jar)
      /\ \A j \in AuthCall : j # "bootstrap" => call'[t][j] = Idle
      /\ \A q \in Query : call'[t][q] = Sent("none")
      /\ \A u \in Tab, j \in Call : u # t => call'[u][j] = call[u][j]
  BY <1>0 DEF Inv, SessionTypeOK, Load
<1>2. SessionTypeOK'
  <2>1. \A j \in Call :
          call'[t][j] \in IF j \in Query THEN QueryRecord ELSE AuthRecord
    BY <1>0, <1>1, SentFields DEF Inv, SessionTypeOK, Call
  <2>2. \A u \in Tab, j \in Call :
          call'[u][j] \in IF j \in Query THEN QueryRecord ELSE AuthRecord
    BY <1>1, <2>1 DEF Inv, SessionTypeOK
  <2>3. wanted' \in [Tab -> RedirectParam] /\ path' \in [Tab -> AppPath \cup AuthPath]
    BY SessionAssumption DEF Inv, SessionTypeOK, Load, SessionConstants
  <2>4. loads' \in 0..MaxLoads /\ astray' \in BOOLEAN
    BY SessionAssumption DEF Inv, SessionTypeOK, Load, SessionConstants
  <2>5. /\ token' \in [Tab -> {"none", "valid", "expired"}]
        /\ status' \in [Tab -> {"closed", "loading", "authenticated", "unauthenticated"}]
    BY DEF Inv, SessionTypeOK, Load
  <2> QED BY <1>1, <2>2, <2>3, <2>4, <2>5 DEF Inv, SessionTypeOK, Load, server
<1>3. Bootstrapping'
  <2>1. status'[t] = "loading" /\ \A u \in Tab : u # t => status'[u] = status[u]
    BY DEF Inv, SessionTypeOK, Load
  <2> QED BY <1>0, <1>1, <2>1 DEF Inv, Bootstrapping, InFlight
<1>4. Genuine' /\ Ended' /\ Private' /\ Kept'
  <2>1. \A u \in Tab, j \in AuthCall :
             (u # t \/ j # "bootstrap") => call'[u][j] = call[u][j] \/ call'[u][j] = Idle
    BY <1>1
  <2>2. /\ UNCHANGED <<server, jar, expected, closed>>
        /\ ~astray' => ~astray /\ \A u \in Tab, j \in AuthCall : ~InFlight(u, j)
    BY DEF Load
  <2>3. jar = IF "bootstrap" = "login" THEN None ELSE jar
    OBVIOUS
  <2> QED BY <1>0, <1>1, <2>1, <2>2, <2>3, Sending
<1> QED BY <1>2, <1>3, <1>4 DEF Inv

\* A list query goes out; it spends no cookie.
LEMMA Fetching ==
    ASSUME Inv, NEW t \in Tab, NEW q \in Query, Fetch(t, q)
    PROVE  Inv'
<1> USE Names, IdleFields
<1>1. /\ DOMAIN call' = Tab /\ \A u \in Tab : DOMAIN call'[u] = Call
      /\ call'[t][q] = Sent(token[t])
      /\ \A u \in Tab, j \in Call : (u # t \/ j # q) => call'[u][j] = call[u][j]
  BY DEF Inv, SessionTypeOK, Fetch
<1>2. SessionTypeOK'
  <2>1. \A u \in Tab, j \in Call :
          call'[u][j] \in IF j \in Query THEN QueryRecord ELSE AuthRecord
    <3>1. Sent(token[t]) \in QueryRecord
      BY SentFields DEF Inv, SessionTypeOK
    <3> QED BY <1>1, <3>1 DEF Inv, SessionTypeOK
  <2> QED BY <1>1, <2>1 DEF Inv, SessionTypeOK, Fetch, server, page, bounds
<1>3. \A u \in Tab, j \in AuthCall : call'[u][j] = call[u][j]
  BY <1>1
<1>4. Bootstrapping'
  BY <1>3 DEF Inv, Bootstrapping, InFlight, AuthCall, CookieCall, Fetch, page
<1>5. Genuine' /\ Ended' /\ Private' /\ Kept'
  BY <1>3, Quiet DEF Fetch
<1> QED BY <1>2, <1>4, <1>5 DEF Inv

\* Navigation and an expiring access token spend no cookie.
LEMMA Moving ==
    ASSUME Inv, NEW t \in Tab,
           GuardRedirects(t) \/ SignInRedirects(t) \/ Expire(t)
    PROVE  Inv'
<1> USE Names
<1>0. UNCHANGED <<server, jar, status, call, loads, expected, closed, astray>>
  BY DEF GuardRedirects, SignInRedirects, Expire, page, bounds
<1>1. SessionTypeOK'
  <2>1. CASE GuardRedirects(t) \/ SignInRedirects(t)
    <3>0. /\ AppPath \subseteq RedirectParam /\ None \in RedirectParam
          /\ \A raw : SafeRedirectTarget(raw) \in AppPath
      BY SessionAssumption DEF SessionConstants, SafeRedirectTarget
    <3>1. path' \in [Tab -> AppPath \cup AuthPath] /\ wanted' \in [Tab -> RedirectParam]
      <4>1. CASE GuardRedirects(t)
        BY <3>0, <4>1 DEF Inv, SessionTypeOK, GuardRedirects, AuthPath
      <4>2. CASE SignInRedirects(t)
        BY <3>0, <4>2 DEF Inv, SessionTypeOK, SignInRedirects
      <4> QED BY <2>1, <4>1, <4>2
    <3> QED BY <1>0, <2>1, <3>1 DEF Inv, SessionTypeOK, GuardRedirects, SignInRedirects, server, bounds
  <2>2. CASE Expire(t)
    <3>1. token' \in [Tab -> {"none", "valid", "expired"}]
      BY <2>2 DEF Inv, SessionTypeOK, Expire
    <3>2. expiries' \in 0..MaxExpiries
      BY <2>2, SessionAssumption DEF Inv, SessionTypeOK, Expire, SessionConstants
    <3> QED BY <1>0, <2>2, <3>1, <3>2 DEF Inv, SessionTypeOK, Expire, server, page
  <2> QED BY <2>1, <2>2
<1>2. Bootstrapping'
  BY <1>0 DEF Inv, Bootstrapping, InFlight
<1>3. Genuine' /\ Ended' /\ Private' /\ Kept'
  BY <1>0, Quiet
<1> QED BY <1>1, <1>2, <1>3 DEF Inv

\* A sign-in or a sign-out goes out, from a page that is not loading.
LEMMA Asking ==
    ASSUME Inv, NEW t \in Tab, Login(t) \/ Logout(t)
    PROVE  Inv'
<1> USE Names, IdleFields
<1>0. /\ UNCHANGED <<server, jar, token, page, bounds, expected, closed>>
      /\ status[t] # "loading"
  BY DEF Login, Logout
<1>1. PICK k, what :
         /\ k \in {"login", "logout"} /\ call[t][k] = Idle /\ Crossing(t, k)
         /\ call' = [call EXCEPT ![t][k] = Sent(what)]
         /\ what = IF k = "login" THEN None ELSE jar
  BY DEF Login, Logout, SendCookie
<1>2. k \in AuthCall /\ k \in Call /\ k \notin Query /\ k # "bootstrap"
  BY <1>1 DEF AuthCall, CookieCall, Call
<1>3. /\ DOMAIN call' = Tab /\ \A u \in Tab : DOMAIN call'[u] = Call
      /\ call'[t][k] = Sent(what)
      /\ \A u \in Tab, j \in Call : (u # t \/ j # k) => call'[u][j] = call[u][j]
  BY <1>1, <1>2 DEF Inv, SessionTypeOK
<1>4. SessionTypeOK'
  <2>1. \A u \in Tab, j \in Call :
          call'[u][j] \in IF j \in Query THEN QueryRecord ELSE AuthRecord
    <3>1. Sent(what) \in AuthRecord
      BY <1>1, SentFields DEF Inv, SessionTypeOK
    <3> QED BY <1>2, <1>3, <3>1 DEF Inv, SessionTypeOK
  <2>2. astray' \in BOOLEAN
    BY <1>1 DEF Crossing, Inv, SessionTypeOK
  <2> QED BY <1>0, <1>3, <2>1, <2>2 DEF Inv, SessionTypeOK, server, page, bounds
<1>5. \A u \in Tab, j \in AuthCall : (u # t \/ j # k) => call'[u][j] = call[u][j]
  BY <1>3
<1>6. Bootstrapping'
  BY <1>0, <1>2, <1>5 DEF Inv, Bootstrapping, InFlight, AuthCall, CookieCall, page
<1>7. Genuine' /\ Ended' /\ Private' /\ Kept'
  <2>1. ~astray' => ~astray /\ \A u \in Tab, j \in AuthCall : ~InFlight(u, j)
    BY <1>1, CrossingNothing
  <2> QED BY <1>0, <1>1, <1>2, <1>3, <1>5, <2>1, Sending
<1> QED BY <1>4, <1>6, <1>7 DEF Inv

\* A query is answered: it ends, waits, or starts the refresh others share.
LEMMA QueryAnswered ==
    ASSUME Inv, NEW t \in Tab, NEW q \in Query,
           call[t][q].at = "sent", DeliverQuery(t, q),
           UNCHANGED <<server, path, wanted, bounds>>
    PROVE  Inv'
<1> USE Names, IdleFields
<1>0. UNCHANGED <<server, path, wanted, bounds, jar, token, status, expected, closed>>
  BY DEF DeliverQuery
<1>1. Waiting \in QueryRecord
  BY DEF QueryRecord
<1>2. "refresh" \in AuthCall /\ "refresh" \in Call /\ "refresh" \notin Query
  BY DEF AuthCall, CookieCall, Call
<1>3. CASE /\ astray' = astray
           /\ \E x \in {Idle, Waiting} : call' = [call EXCEPT ![t][q] = x]
  <2>1. PICK x \in QueryRecord : call' = [call EXCEPT ![t][q] = x]
    BY <1>1, <1>3
  <2>2. /\ DOMAIN call' = Tab /\ \A u \in Tab : DOMAIN call'[u] = Call
        /\ call'[t][q] = x
        /\ \A u \in Tab, j \in Call : (u # t \/ j # q) => call'[u][j] = call[u][j]
    BY <2>1 DEF Inv, SessionTypeOK
  <2>3. \A u \in Tab, j \in Call :
          call'[u][j] \in IF j \in Query THEN QueryRecord ELSE AuthRecord
    BY <2>2 DEF Inv, SessionTypeOK
  <2>4. SessionTypeOK'
    BY <1>0, <1>3, <2>2, <2>3 DEF Inv, SessionTypeOK, server, bounds
  <2>5. \A u \in Tab, j \in AuthCall : call'[u][j] = call[u][j]
    BY <2>2
  <2>6. Bootstrapping'
    BY <1>0, <2>5 DEF Inv, Bootstrapping, InFlight, AuthCall, CookieCall
  <2>7. Genuine' /\ Ended' /\ Private' /\ Kept'
    BY <1>0, <1>3, <2>5, Quiet
  <2> QED BY <2>4, <2>6, <2>7 DEF Inv
<1>4. CASE /\ Crossing(t, "refresh") /\ call[t]["refresh"] = Idle
           /\ call' = [[call EXCEPT ![t][q] = Waiting] EXCEPT ![t]["refresh"] = Sent(jar)]
  <2>2. /\ DOMAIN call' = Tab /\ \A u \in Tab : DOMAIN call'[u] = Call
        /\ call'[t][q] = Waiting /\ call'[t]["refresh"] = Sent(jar)
        /\ \A u \in Tab, j \in Call : (u # t \/ j \notin {q, "refresh"}) => call'[u][j] = call[u][j]
    BY <1>2, <1>4 DEF Inv, SessionTypeOK
  <2>3. \A u \in Tab, j \in Call :
          call'[u][j] \in IF j \in Query THEN QueryRecord ELSE AuthRecord
    <3>1. Sent(jar) \in AuthRecord
      BY SentFields DEF Inv, SessionTypeOK
    <3> QED BY <1>1, <1>2, <2>2, <3>1 DEF Inv, SessionTypeOK
  <2>4. SessionTypeOK'
    <3>1. astray' \in BOOLEAN
      BY <1>4 DEF Crossing, Inv, SessionTypeOK
    <3> QED BY <1>0, <3>1, <2>2, <2>3 DEF Inv, SessionTypeOK, server, bounds
  <2>5. \A u \in Tab, j \in AuthCall : (u # t \/ j # "refresh") => call'[u][j] = call[u][j]
    BY <2>2
  <2>6. Bootstrapping'
    BY <1>0, <2>5 DEF Inv, Bootstrapping, InFlight, AuthCall, CookieCall
  <2>7. jar = IF "refresh" = "login" THEN None ELSE jar
    OBVIOUS
  <2>8. Genuine' /\ Ended' /\ Private' /\ Kept'
    <3>1. ~astray' => ~astray /\ \A u \in Tab, j \in AuthCall : ~InFlight(u, j)
      BY <1>2, <1>4, CrossingNothing
    <3> QED BY <1>0, <1>2, <2>2, <2>5, <2>7, <3>1, Sending
  <2> QED BY <2>4, <2>6, <2>8 DEF Inv
<1> QED BY <1>3, <1>4 DEF DeliverQuery, SendCookie

\* A cookie request ends, by its answer or by its loss, and brings nothing
\* that was not given out.
LEMMA Settling ==
    ASSUME Inv, NEW t \in Tab, NEW k \in AuthCall,
           UNCHANGED server,
           call'[t][k] = Idle,
           \A u \in Tab, j \in AuthCall : (u # t \/ j # k) => call'[u][j] = call[u][j],
           jar' \notin {jar, None} => Issued(jar') /\ Holds(t, k, jar'[1]),
           expected' \notin {expected, None} => expected' <= logins,
           \A l \in closed' : l \in closed \/ Over(l)
    PROVE  Genuine' /\ Ended' /\ Private'
<1> USE Names, IdleFields
<1>1. \A d : Issued(d) <=> Issued(d)'
  BY DEF Issued, server
<1>2. Genuine'
  <2>1. \A u \in Tab, j \in AuthCall : Real(u, j)'
    BY <1>1 DEF Inv, Genuine, Real
  <2>2. \A u \in Tab : call'[u]["login"].at = "answered" => call'[u]["login"] = call[u]["login"]
    BY DEF AuthCall
  <2>3. (jar # None => Issued(jar))'
    BY DEF Inv, Genuine, Issued, server
  <2>4. (expected # None => expected <= logins)'
    BY DEF Inv, Genuine, server
  <2> QED BY <2>1, <2>2, <2>3, <2>4 DEF Inv, Genuine, server
<1>3. Ended'
  <2>1. \A u \in Tab : call'[u]["logout"].at = "answered" => call'[u]["logout"] = call[u]["logout"]
    BY DEF AuthCall, CookieCall
  <2> QED BY <2>1 DEF Inv, Ended, Over, server
<1>4. Private'
  <2>1. \A l : ~Holds(t, k, l)'
    BY DEF Holds
  <2>2. \A d : Newest(d)' = Newest(d)
    BY DEF Newest, server
  <2> QED BY <2>1, <2>2, Strangers
<1> QED BY <1>2, <1>3, <1>4

\* An answer arrives: when it was the only cookie request, the jar now holds
\* the live token of the login the user is in.
LEMMA Delivered ==
    ASSUME Inv, NEW t \in Tab, NEW k \in AuthCall,
           call[t][k].at = "answered",
           UNCHANGED server,
           ~astray' => \/ ~astray
                       \/ k = "login" /\ call[t][k].cookie # None /\ ~Beside(t, k),
           ApplyCookie(call[t][k]),
           call'[t][k] = Idle,
           \A u \in Tab, j \in AuthCall : (u # t \/ j # k) => call'[u][j] = call[u][j],
           k \in Renewal => expected' = expected,
           k = "login" => expected' = IF call[t][k].cookie = None THEN expected ELSE call[t][k].cookie[1],
           k = "logout" => expected' = None,
           \A l \in closed' : l \in closed \/ Over(l)
    PROVE  /\ jar' \in Cookies \cup {None} /\ expected' \in 1..MaxLogins \cup {None}
           /\ Genuine' /\ Ended' /\ Private' /\ Kept'
<1> USE Names, IdleFields
<1> PICK x : x = call[t][k]
  OBVIOUS
<1>1. /\ x \in AuthRecord /\ x.at = "answered"
      /\ x.cookie \in Cookies \cup {None, Clear} /\ x.said \in Saying
  <2>1. call[t][k] \in AuthRecord
    BY DEF Inv, SessionTypeOK, Call
  <2> QED BY <2>1, AuthFields
<1>2. /\ jar' = IF x.cookie = None THEN jar ELSE IF x.cookie = Clear THEN None ELSE x.cookie
  BY DEF ApplyCookie
<1>3. x.cookie \in Cookies => Issued(x.cookie)
  BY <1>1 DEF Inv, Genuine, Real
<1>4. k = "login" => x.cookie \in Cookies \cup {None}
  BY <1>1 DEF Inv, Genuine
<1>5. k \in Renewal \/ k = "login" \/ k = "logout"
  BY DEF Renewal, AuthCall, CookieCall
<1>6. jar' \in Cookies \cup {None}
  BY <1>1, <1>2 DEF Inv, SessionTypeOK
<1>7. /\ expected' \in 1..MaxLogins \cup {None}
      /\ expected' \notin {expected, None} => expected' <= logins
  BY <1>3, <1>4, <1>5 DEF Inv, SessionTypeOK, Issued, Cookies
<1>8. Genuine' /\ Ended' /\ Private'
  <2>1. jar' \notin {jar, None} => Issued(jar') /\ Holds(t, k, jar'[1])
    BY <1>1, <1>2, <1>3 DEF Holds
  <2> QED BY <1>7, <2>1, Settling
<1>9. Kept'
  <2> SUFFICES ASSUME ~astray' PROVE (Alone /\ Carrying /\ Answering /\ Renewing /\ Holding)'
    BY DEF Kept
  <2>1. ~astray => Alone /\ Answering /\ Renewing /\ Holding
    BY DEF Inv, Kept
  <2>2. \A u \in Tab, j \in AuthCall : InFlight(u, j) => u = t /\ j = k
    <3>1. ~astray => \A u \in Tab, j \in AuthCall : InFlight(u, j) => u = t /\ j = k
      BY <2>1 DEF Alone, InFlight
    <3>2. ~Beside(t, k) => \A u \in Tab, j \in AuthCall : InFlight(u, j) => u = t /\ j = k
      BY DEF Beside
    <3> QED BY <3>1, <3>2
  <2>3. \A u \in Tab, j \in AuthCall : call'[u][j].at \notin {"sent", "answered"}
    BY <2>2 DEF InFlight
  <2>4. Alone' /\ Carrying' /\ Answering' /\ Renewing'
    BY <2>3 DEF Alone, Carrying, Answering, Renewing, Renewal, InFlight, AuthCall, CookieCall
  <2>5. expected' # None => jar' \in Cookies /\ jar'[1] = expected' /\ Newest(jar')
    <3>1. CASE k = "login" /\ x.cookie # None
      <4>1. x.cookie \in Cookies /\ Newest(x.cookie)
        BY <1>1, <1>4, <3>1 DEF Inv, Private
      <4> QED BY <1>2, <3>1, <4>1, Names
    <3>2. CASE k = "logout"
      BY <3>2
    <3>3. CASE ~astray /\ k \in Renewal
      <4>1. /\ x.cookie \in Cookies => Newest(x.cookie)
            /\ expected # None => x.cookie \in Cookies \cup {None}
            /\ expected # None /\ x.cookie \in Cookies => x.cookie[1] = expected
        BY <1>1, <2>1, <3>3 DEF Renewing, Answering
      <4>2. x.cookie = None /\ expected # None => jar \in Cookies /\ jar[1] = expected /\ Newest(jar)
        BY <2>1, <2>2, <3>3, Names DEF Holding, InFlight, Renewal, AuthCall, CookieCall
      <4> QED BY <1>2, <3>3, <4>1, <4>2, Names
    <3>4. CASE ~astray /\ k = "login" /\ x.cookie = None
      <4>1. jar' = jar /\ expected' = expected
        BY <1>2, <3>4
      <4> QED BY <2>1, <2>2, <3>4, <4>1 DEF Holding, InFlight, Renewal, AuthCall, CookieCall
    <3> QED BY <1>5, <3>1, <3>2, <3>3, <3>4
  <2>6. Holding'
    BY <2>5 DEF Holding, Newest, server
  <2> QED BY <2>4, <2>6
<1> QED BY <1>6, <1>7, <1>8, <1>9

\* The queries that waited are resumed, and no other call is touched.
LEMMA Resuming ==
    ASSUME Inv, NEW t \in Tab, NEW renewed,
           call' = [call EXCEPT ![t] = Resumed(t, renewed)]
    PROVE  /\ DOMAIN call' = Tab /\ \A u \in Tab : DOMAIN call'[u] = Call
           /\ \A u \in Tab, j \in Call :
                 call'[u][j] \in IF j \in Query THEN QueryRecord ELSE AuthRecord
           /\ call'[t]["refresh"] = Idle
           /\ \A u \in Tab, j \in AuthCall :
                 (u # t \/ j # "refresh") => call'[u][j] = call[u][j]
<1> USE Names, IdleFields
<1>1. \A j \in AuthCall : call[t][j].at # "waiting"
  BY AuthFields DEF Inv, SessionTypeOK, Call
<1>2. Retried("valid") \in QueryRecord
  BY DEF Retried, QueryRecord
<1>3. /\ DOMAIN call' = Tab /\ \A u \in Tab : DOMAIN call'[u] = Call
      /\ \A u \in Tab : u # t => call'[u] = call[u]
      /\ \A j \in Call : call'[t][j] = CASE call[t][j].at = "waiting" -> IF renewed THEN Retried("valid") ELSE Idle
                                         [] j = "refresh" -> Idle
                                         [] OTHER -> call[t][j]
  BY DEF Inv, SessionTypeOK, Resumed
<1>4. \A j \in AuthCall : call'[t][j] = IF j = "refresh" THEN Idle ELSE call[t][j]
  BY <1>1, <1>3 DEF Call
<1>5. \A q \in Query : call'[t][q] \in {call[t][q], Retried("valid"), Idle}
  BY <1>3 DEF Call, AuthCall, CookieCall
<1>6. \A u \in Tab, j \in Call :
         call'[u][j] \in IF j \in Query THEN QueryRecord ELSE AuthRecord
  BY <1>2, <1>3, <1>4, <1>5 DEF Inv, SessionTypeOK, Call
<1> QED BY <1>3, <1>4, <1>6

\* The answer of a refresh.
LEMMA RefreshDelivered ==
    ASSUME Inv, NEW t \in Tab,
           call[t]["refresh"].at = "answered", DeliverRefresh(t),
           UNCHANGED <<server, path, wanted, bounds>>
    PROVE  Inv'
<1> USE Names, IdleFields
<1>0. "refresh" \in AuthCall /\ "refresh" \in Call /\ "refresh" \in Renewal
  BY DEF AuthCall, CookieCall, Call, Renewal
<1>1. /\ DOMAIN call' = Tab /\ \A u \in Tab : DOMAIN call'[u] = Call
      /\ \A u \in Tab, j \in Call :
            call'[u][j] \in IF j \in Query THEN QueryRecord ELSE AuthRecord
      /\ call'[t]["refresh"] = Idle
      /\ \A u \in Tab, j \in AuthCall :
            (u # t \/ j # "refresh") => call'[u][j] = call[u][j]
  <2>1. call' = [call EXCEPT ![t] = Resumed(t, Granted(t, "refresh"))]
    BY DEF DeliverRefresh
  <2> QED BY <2>1, Resuming
<1>2. /\ jar' \in Cookies \cup {None} /\ expected' \in 1..MaxLogins \cup {None}
      /\ Genuine' /\ Ended' /\ Private' /\ Kept'
  <2>1. UNCHANGED <<expected, closed, astray>> /\ ApplyCookie(call[t]["refresh"])
    BY DEF DeliverRefresh
  <2> QED BY <1>0, <1>1, <2>1, Delivered DEF AuthCall, CookieCall
<1>3. /\ token' \in [Tab -> {"none", "valid", "expired"}]
      /\ status' \in [Tab -> {"closed", "loading", "authenticated", "unauthenticated"}]
      /\ \A u \in Tab : status[u] = "loading" => status'[u] = "loading"
  BY DEF DeliverRefresh, SetToken, ClearToken, Cleared, Inv, SessionTypeOK
<1>4. SessionTypeOK'
  BY <1>1, <1>2, <1>3 DEF DeliverRefresh, Inv, SessionTypeOK, server, bounds
<1>5. Bootstrapping'
  BY <1>0, <1>1, <1>3 DEF Inv, Bootstrapping, InFlight, AuthCall, CookieCall
<1> QED BY <1>2, <1>4, <1>5 DEF Inv

\* The answer of a bootstrap, a sign-in or a sign-out.
LEMMA PageDelivered ==
    ASSUME Inv, NEW t \in Tab, NEW k \in {"bootstrap", "login", "logout"},
           call[t][k].at = "answered",
           \/ k = "bootstrap" /\ DeliverBootstrap(t)
           \/ k = "login" /\ DeliverLogin(t)
           \/ k = "logout" /\ DeliverLogout(t),
           UNCHANGED <<server, path, wanted, bounds>>
    PROVE  Inv'
<1> USE Names, IdleFields
<1>0. k \in AuthCall /\ k \in Call /\ k \notin Query /\ (k \in Renewal => k = "bootstrap")
  BY DEF AuthCall, CookieCall, Call, Renewal
<1>1. /\ call' = [call EXCEPT ![t][k] = Idle] /\ ApplyCookie(call[t][k])
      /\ astray' \in BOOLEAN
      /\ astray' \/ ~astray \/ (k = "login" /\ call[t][k].cookie # None /\ ~Beside(t, k))
  <2>0. astray \in BOOLEAN
    BY DEF Inv, SessionTypeOK
  <2>1. CASE k = "bootstrap"
    <3>1. /\ call' = [call EXCEPT ![t]["bootstrap"] = Idle]
          /\ ApplyCookie(call[t]["bootstrap"]) /\ astray' = astray
      BY <2>1 DEF DeliverBootstrap
    <3> QED BY <2>0, <2>1, <3>1
  <2>3. CASE k = "logout"
    <3>1. /\ call' = [call EXCEPT ![t]["logout"] = Idle]
          /\ ApplyCookie(call[t]["logout"]) /\ astray' = astray
      BY <2>3 DEF DeliverLogout
    <3> QED BY <2>0, <2>3, <3>1
  <2>2. CASE k = "login"
    <3>1. /\ call' = [call EXCEPT ![t]["login"] = Idle] /\ ApplyCookie(call[t]["login"])
          /\ astray' = IF call[t]["login"].cookie = None THEN astray ELSE Beside(t, "login")
      BY <2>2 DEF DeliverLogin
    <3>2. Beside(t, "login") \in BOOLEAN
      BY DEF Beside
    <3>3. CASE call[t]["login"].cookie = None
      <4>1. astray' = astray
        BY <3>1, <3>3
      <4>2. /\ call' = [call EXCEPT ![t][k] = Idle] /\ ApplyCookie(call[t][k])
        BY <2>2, <3>1
      <4>3. astray' \in BOOLEAN /\ (astray' \/ ~astray)
        BY <2>0, <4>1
      <4> QED BY <4>2, <4>3
    <3>4. CASE call[t]["login"].cookie # None
      <4>1. astray' = Beside(t, "login")
        BY <3>1, <3>4
      <4> QED BY <2>2, <3>1, <3>2, <3>4, <4>1
    <3> QED BY <3>3, <3>4
  <2> QED BY <2>1, <2>2, <2>3
<1>2. /\ DOMAIN call' = Tab /\ \A u \in Tab : DOMAIN call'[u] = Call
      /\ call'[t][k] = Idle
      /\ \A u \in Tab, j \in Call : (u # t \/ j # k) => call'[u][j] = call[u][j]
  BY <1>0, <1>1 DEF Inv, SessionTypeOK
<1>3. \A u \in Tab, j \in AuthCall : (u # t \/ j # k) => call'[u][j] = call[u][j]
  BY <1>2
<1>4. /\ k \in Renewal => expected' = expected
      /\ k = "login" => expected' = IF call[t][k].cookie = None THEN expected ELSE call[t][k].cookie[1]
      /\ k = "logout" => expected' = None
  BY <1>0 DEF DeliverBootstrap, DeliverLogin, DeliverLogout, EndSession
<1>5. closed' \subseteq 1..MaxLogins /\ \A l \in closed' : l \in closed \/ Over(l)
  <2>1. CASE closed' = closed
    BY <2>1 DEF Inv, SessionTypeOK
  <2>2. CASE k = "logout" /\ closed' = closed \cup ({call[t]["logout"].ended} \ {None})
    <3>1. call[t]["logout"].ended \in 1..MaxLogins \cup {None}
      BY <1>0, <2>2, AuthFields DEF Inv, SessionTypeOK
    <3> QED BY <2>2, <3>1 DEF Inv, SessionTypeOK, Ended
  <2> QED BY <2>1, <2>2 DEF DeliverBootstrap, DeliverLogin, DeliverLogout, EndSession
<1>6. /\ jar' \in Cookies \cup {None} /\ expected' \in 1..MaxLogins \cup {None}
      /\ Genuine' /\ Ended' /\ Private' /\ Kept'
  BY <1>0, <1>1, <1>2, <1>3, <1>4, <1>5, Delivered
<1>7. /\ token' \in [Tab -> {"none", "valid", "expired"}]
      /\ status' \in [Tab -> {"closed", "loading", "authenticated", "unauthenticated"}]
      /\ \A u \in Tab : u # t => status'[u] = status[u]
  BY DEF DeliverBootstrap, DeliverLogin, DeliverLogout, EndSession, ApplySession, SetToken, Inv, SessionTypeOK
<1>8. SessionTypeOK'
  <2>1. \A u \in Tab, j \in Call :
          call'[u][j] \in IF j \in Query THEN QueryRecord ELSE AuthRecord
    BY <1>0, <1>2 DEF Inv, SessionTypeOK
  <2> QED BY <1>1, <1>2, <1>5, <1>6, <1>7, <2>1 DEF Inv, SessionTypeOK, server, bounds
<1>9. Bootstrapping'
  <2>1. ~InFlight(t, "bootstrap")'
    BY <1>0, <1>2, <1>3 DEF Inv, Bootstrapping, InFlight, AuthCall, CookieCall
  <2> QED BY <1>3, <1>7, <2>1 DEF Inv, Bootstrapping, InFlight, AuthCall, CookieCall
<1> QED BY <1>6, <1>8, <1>9 DEF Inv

\* Losing the only cookie request loses nothing, unless it renewed the cookie.
LEMMA Lost ==
    ASSUME Inv, NEW t \in Tab, NEW k \in AuthCall,
           InFlight(t, k), astray' = (astray \/ Renewed(t, k)),
           UNCHANGED <<server, jar>>,
           call'[t][k] = Idle,
           \A u \in Tab, j \in AuthCall : (u # t \/ j # k) => call'[u][j] = call[u][j],
           expected' = IF k = "logout" THEN None ELSE expected
    PROVE  Kept'
<1> USE Names, IdleFields
<1> SUFFICES ASSUME ~astray' PROVE (Alone /\ Carrying /\ Answering /\ Renewing /\ Holding)'
  BY DEF Kept
<1>1. /\ Alone /\ Carrying /\ Answering /\ Renewing /\ Holding
      /\ ~Renewed(t, k)
  BY DEF Inv, Kept
<1>2. \A u \in Tab, j \in AuthCall : InFlight(u, j) => u = t /\ j = k
  BY <1>1 DEF Alone
<1>3. \A u \in Tab, j \in AuthCall : call'[u][j].at \notin {"sent", "answered"}
  BY <1>2 DEF InFlight
<1>4. Alone' /\ Carrying' /\ Answering' /\ Renewing'
  BY <1>3 DEF Alone, Carrying, Answering, Renewing, Renewal, InFlight, AuthCall, CookieCall
<1>5. k \in Renewal /\ call[t][k].at = "answered" => call[t][k].cookie \notin Cookies
  BY <1>1 DEF Renewed, Renewal
<1>6. expected' # None => jar \in Cookies /\ jar[1] = expected /\ Newest(jar)
  BY <1>1, <1>2, <1>5 DEF Holding, InFlight, Renewal, AuthCall, CookieCall
<1>7. Holding'
  BY <1>6 DEF Holding, Newest, server
<1> QED BY <1>4, <1>7

\* A request or its answer is lost: the tokens stay where they are.
LEMMA Losing ==
    ASSUME Inv, NEW t \in Tab, NEW k \in Call, Lose(t, k)
    PROVE  Inv'
<1> USE Names, IdleFields
<1>0. /\ UNCHANGED <<server, jar, path, wanted, bounds>> /\ InFlight(t, k)
      /\ astray' = (astray \/ Renewed(t, k)) /\ astray' \in BOOLEAN
  BY DEF Lose, Inv, SessionTypeOK
<1>1. CASE k = "refresh"
  <2>0. "refresh" \in AuthCall
    BY DEF AuthCall, CookieCall
  <2>1. RefreshFails(t)
    BY <1>1 DEF Lose
  <2>2. /\ DOMAIN call' = Tab /\ \A u \in Tab : DOMAIN call'[u] = Call
        /\ \A u \in Tab, j \in Call :
              call'[u][j] \in IF j \in Query THEN QueryRecord ELSE AuthRecord
        /\ call'[t]["refresh"] = Idle
        /\ \A u \in Tab, j \in AuthCall :
              (u # t \/ j # "refresh") => call'[u][j] = call[u][j]
    <3>1. call' = [call EXCEPT ![t] = Resumed(t, FALSE)]
      BY <2>1 DEF RefreshFails
    <3> QED BY <3>1, Resuming
  <2>3. UNCHANGED <<token, status, expected, closed>>
    BY <2>1 DEF RefreshFails
  <2>4. Genuine' /\ Ended' /\ Private'
    BY <1>0, <2>0, <2>2, <2>3, Settling
  <2>5. Kept'
    BY <1>0, <1>1, <2>0, <2>2, <2>3, Lost
  <2>6. SessionTypeOK'
    BY <1>0, <1>1, <2>0, <2>2, <2>3 DEF Inv, SessionTypeOK, server, bounds
  <2>7. Bootstrapping'
    BY <2>0, <2>2, <2>3 DEF Inv, Bootstrapping, InFlight, AuthCall, CookieCall
  <2> QED BY <2>4, <2>5, <2>6, <2>7 DEF Inv
<1>2. CASE k \in {"bootstrap", "logout", "login"}
  <2>0. k \in AuthCall /\ k \in Call /\ k \notin Query
    BY <1>2 DEF AuthCall, CookieCall, Call
  <2>1. /\ call' = [call EXCEPT ![t][k] = Idle]
        /\ expected' = (IF k = "logout" THEN None ELSE expected) /\ closed' = closed
    BY <1>2, <2>0 DEF Lose, EndSession
  <2>2. /\ DOMAIN call' = Tab /\ \A u \in Tab : DOMAIN call'[u] = Call
        /\ call'[t][k] = Idle
        /\ \A u \in Tab, j \in Call : (u # t \/ j # k) => call'[u][j] = call[u][j]
    BY <2>0, <2>1 DEF Inv, SessionTypeOK
  <2>3. \A u \in Tab, j \in AuthCall : (u # t \/ j # k) => call'[u][j] = call[u][j]
    BY <2>2
  <2>4. Genuine' /\ Ended' /\ Private'
    BY <1>0, <2>0, <2>1, <2>2, <2>3, Settling
  <2>5. Kept'
    BY <1>0, <2>0, <2>1, <2>2, <2>3, Lost
  <2>6. /\ token' \in [Tab -> {"none", "valid", "expired"}]
        /\ status' \in [Tab -> {"closed", "loading", "authenticated", "unauthenticated"}]
        /\ \A u \in Tab : u # t => status'[u] = status[u]
    BY <1>2, <2>0 DEF Lose, BootstrapFails, EndSession, Inv, SessionTypeOK
  <2>7. SessionTypeOK'
    <3>1. \A u \in Tab, j \in Call :
            call'[u][j] \in IF j \in Query THEN QueryRecord ELSE AuthRecord
      BY <2>0, <2>2 DEF Inv, SessionTypeOK
    <3>2. astray' \in BOOLEAN /\ expected' \in 1..MaxLogins \cup {None} /\ closed' \subseteq 1..MaxLogins
      BY <1>0, <2>0, <2>1 DEF Inv, SessionTypeOK
    <3> QED BY <1>0, <2>2, <2>6, <3>1, <3>2 DEF Inv, SessionTypeOK, server, bounds
  <2>8. Bootstrapping'
    <3>1. ~InFlight(t, "bootstrap")'
      BY <1>0, <1>2, <2>2, <2>3 DEF Inv, Bootstrapping, InFlight, AuthCall, CookieCall
    <3> QED BY <2>3, <2>6, <3>1 DEF Inv, Bootstrapping, InFlight, AuthCall, CookieCall
  <2> QED BY <2>4, <2>5, <2>7, <2>8 DEF Inv
<1>3. CASE k \in Query
  <2>1. /\ call' = [call EXCEPT ![t][k] = Idle] /\ UNCHANGED <<token, status, expected, closed>>
    BY <1>3 DEF Lose, AuthCall, CookieCall
  <2>2. /\ DOMAIN call' = Tab /\ \A u \in Tab : DOMAIN call'[u] = Call
        /\ call'[t][k] = Idle
        /\ \A u \in Tab, j \in Call : (u # t \/ j # k) => call'[u][j] = call[u][j]
    BY <2>1 DEF Inv, SessionTypeOK
  <2>3. \A u \in Tab, j \in AuthCall : call'[u][j] = call[u][j]
    BY <1>3, <2>2
  <2>4. \A u \in Tab, j \in Call :
          call'[u][j] \in IF j \in Query THEN QueryRecord ELSE AuthRecord
    BY <1>3, <2>2 DEF Inv, SessionTypeOK
  <2>5. astray' = astray
    BY <1>0, <1>3 DEF Renewed, AuthCall, CookieCall, Inv, SessionTypeOK
  <2>6. SessionTypeOK'
    BY <1>0, <2>1, <2>2, <2>4, <2>5 DEF Inv, SessionTypeOK, server, bounds
  <2>7. Bootstrapping'
    BY <2>1, <2>3 DEF Inv, Bootstrapping, InFlight, AuthCall, CookieCall
  <2>8. Genuine' /\ Ended' /\ Private' /\ Kept'
    BY <1>0, <2>1, <2>3, <2>5, Quiet
  <2> QED BY <2>6, <2>7, <2>8 DEF Inv
<1> QED BY <1>1, <1>2, <1>3 DEF Call, AuthCall, CookieCall

\* Every step of every tab keeps the invariant.
LEMMA Steps == Inv /\ [SessionNext]_session => Inv'
<1> SUFFICES ASSUME Inv, [SessionNext]_session PROVE Inv'
  OBVIOUS
<1>1. CASE UNCHANGED session
  <2>1. UNCHANGED <<server, jar, token, status, path, wanted, call, loads, expiries, faults, expected, closed, astray>>
    BY <1>1 DEF session, page, bounds
  <2>2. Genuine' /\ Ended' /\ Private' /\ Kept'
    BY <2>1, Quiet
  <2>3. SessionTypeOK' /\ Bootstrapping'
    BY <2>1 DEF Inv, SessionTypeOK, Bootstrapping, InFlight, server
  <2> QED BY <2>2, <2>3 DEF Inv
<1>2. CASE SessionNext
  <2> PICK t \in Tab :
        \/ \E p \in AppPath \cup AuthPath, r \in RedirectParam : Load(t, p, r)
        \/ \E q \in Query : Fetch(t, q)
        \/ \E k \in Call : Serve(t, k) \/ Deliver(t, k) \/ Lose(t, k)
        \/ Login(t)
        \/ Logout(t)
        \/ GuardRedirects(t)
        \/ SignInRedirects(t)
        \/ Expire(t)
    BY <1>2 DEF SessionNext
  <2>1. ASSUME NEW k \in Call, Serve(t, k) PROVE Inv'
    <3>1. /\ k \in AuthCall /\ call[t][k].at = "sent"
          /\ faults' = faults + IF call'[t][k].said \in {"failed", "cut"} THEN 1 ELSE 0
          /\ UNCHANGED <<jar, token, page, loads, expiries, expected, closed>>
      BY <2>1 DEF Serve
    <3>2. CASE k \in Renewal
      BY <2>1, <3>1, <3>2, RenewalServed DEF Serve, Renewal
    <3>3. CASE k = "logout"
      BY <2>1, <3>1, <3>3, SignOutServed DEF Serve
    <3>4. CASE k = "login"
      BY <2>1, <3>1, <3>4, SignInServed DEF Serve
    <3> QED BY <3>1, <3>2, <3>3, <3>4 DEF AuthCall, CookieCall, Renewal
  <2>2. ASSUME NEW k \in Call, Deliver(t, k) PROVE Inv'
    <3>1. /\ call[t][k].at = IF k \in Query THEN "sent" ELSE "answered"
          /\ UNCHANGED <<server, path, wanted, bounds>>
      BY <2>2 DEF Deliver
    <3>2. CASE k = "refresh"
      BY <2>2, <3>1, <3>2, Names, RefreshDelivered DEF Deliver, AuthCall, CookieCall
    <3>3. CASE k \in {"bootstrap", "login", "logout"}
      <4>1. \/ k = "bootstrap" /\ DeliverBootstrap(t)
            \/ k = "login" /\ DeliverLogin(t)
            \/ k = "logout" /\ DeliverLogout(t)
        BY <2>2, <3>3, Names DEF Deliver, AuthCall, CookieCall
      <4> QED BY <3>1, <3>3, <4>1, Names, PageDelivered DEF AuthCall, CookieCall
    <3>4. CASE k \in Query
      BY <2>2, <3>1, <3>4, Names, QueryAnswered DEF Deliver, AuthCall, CookieCall
    <3> QED BY <3>2, <3>3, <3>4 DEF Call, AuthCall, CookieCall
  <2> QED BY <2>1, <2>2, Loading, Fetching, Losing, Asking, Moving
<1> QED BY <1>1, <1>2

-----------------------------------------------------------------------------
(* What follows.                                                            *)

\* The inductive invariant holds in every state of the browser and server.
THEOREM Invariance == SessionSpec => []Inv
<1>1. SessionInit => Inv
  BY Starts
<1>2. Inv /\ [SessionNext]_session => Inv'
  BY Steps
<1> QED BY <1>1, <1>2, PTL DEF SessionSpec

\* Every variable of the session keeps its type.
THEOREM TypeCorrect == SessionSpec => []SessionTypeOK
<1>1. Inv => SessionTypeOK
  BY DEF Inv
<1> QED BY <1>1, Invariance, PTL

\* A sign-out reported without the warning (user-button.tsx:54) left no
\* refresh token of that login alive, whatever raced it in other tabs.
THEOREM SignOutsAreTruthful == SessionSpec => []SignOutTruthful
<1>1. Inv => SignOutTruthful
  BY DEF Inv, Ended, Over, SignOutTruthful
<1> QED BY <1>1, Invariance, PTL

\* A tab never presents the one refresh token twice, and whatever is lost, fails
\* or comes back cut off the browser holds the live token of its session, unless
\* different requests crossed or an answer that renewed the cookie did not
\* arrive, and no sign-in followed (authenticated-fetch.ts:63).
THEOREM SessionIsKept == SessionSpec => []SessionKept
<1>1. Inv => SessionKept
  <2> SUFFICES ASSUME Inv, ~astray, expected # None, ~SigningOut
               PROVE  /\ live[expected] # 0
                      /\ jar = <<expected, live[expected]>> \/ OnItsWay(expected)
    BY DEF SessionKept
  <2>1. Holding /\ Renewing /\ Answering
    BY DEF Inv, Kept
  <2>2. CASE jar \in Cookies /\ jar[1] = expected /\ Newest(jar)
    <3>1. jar = <<jar[1], jar[2]>> /\ jar[2] # 0
      BY <2>2, Names DEF Inv, Genuine, Issued, Cookies
    <3> QED BY <2>2, <3>1 DEF Newest
  <2>3. CASE \E t \in Tab, k \in Renewal :
               call[t][k].at = "answered" /\ call[t][k].cookie \in Cookies
    <3> PICK t \in Tab, k \in Renewal :
               call[t][k].at = "answered" /\ call[t][k].cookie \in Cookies
      BY <2>3
    <3> PICK c : c = call[t][k].cookie
      OBVIOUS
    <3>0. k \in AuthCall
      BY DEF Renewal, AuthCall, CookieCall
    <3>1. c \in Cookies /\ c[1] = expected /\ Newest(c) /\ Issued(c)
      BY <3>0, <2>1 DEF Renewing, Answering, Inv, Genuine, Real
    <3>2. c = <<c[1], c[2]>> /\ c[2] # 0
      BY <3>1 DEF Issued, Cookies
    <3> QED BY <3>0, <3>1, <3>2 DEF Newest, OnItsWay
  <2>4. ~ \E t \in Tab : call[t]["logout"].at = "answered"
    BY DEF SigningOut, InFlight
  <2> QED BY <2>1, <2>2, <2>3, <2>4 DEF Holding
<1> QED BY <1>1, Invariance, PTL

\* While the live token has not gone astray, no refresh of a session that nobody
\* ended is refused, and its answer leaves the live token in the jar.
LEMMA RefreshHolds ==
    ASSUME Inv, NEW t \in Tab,
           call[t]["refresh"].at = "answered", DeliverRefresh(t),
           ~astray, expected # None
    PROVE  /\ call[t]["refresh"].said # "refused"
           /\ jar' \in Cookies /\ jar'[1] = expected /\ Newest(jar') /\ Issued(jar')
<1> USE Names
<1> PICK x : x = call[t]["refresh"]
  OBVIOUS
<1>0. "refresh" \in AuthCall /\ "refresh" \in Renewal /\ "refresh" # "logout"
  BY DEF AuthCall, CookieCall, Renewal
<1>1. Alone /\ Answering /\ Renewing /\ Holding
  BY DEF Inv, Kept
<1>2. \/ x.said \in {"granted", "cut"} /\ x.cookie \in Cookies
      \/ x.said = "failed" /\ x.cookie = None
  BY <1>0, <1>1 DEF Renewing
<1>3. jar' = IF x.cookie = None THEN jar ELSE IF x.cookie = Clear THEN None ELSE x.cookie
  BY DEF DeliverRefresh, ApplyCookie
<1>4. x.cookie \in Cookies => Newest(x.cookie) /\ x.cookie[1] = expected /\ Issued(x.cookie)
  BY <1>0, <1>1 DEF Answering, Inv, Genuine, Real
<1>5. \A u \in Tab, j \in AuthCall : InFlight(u, j) => u = t /\ j = "refresh"
  BY <1>0, <1>1 DEF Alone, InFlight
<1>6. x.cookie = None => jar \in Cookies /\ jar[1] = expected /\ Newest(jar) /\ Issued(jar)
  BY <1>0, <1>1, <1>5 DEF Holding, InFlight, Renewal, AuthCall, CookieCall, Inv, Genuine
<1> QED BY <1>2, <1>3, <1>4, <1>6

\* A tab loses its session to a sign-out or to an answer that brings no token,
\* never to a refresh without an answer (authenticated-fetch.ts:90); and unless
\* the live token went astray the answer was no refusal of a session that lives,
\* and the jar has what a reload resumes it with.
THEOREM NetworkNeverSignsOut == SessionSpec => OnlyAnswersSignOut
<1> DEFINE Kindly(t) ==
      \/ InFlight(t, "logout")
      \/ /\ call[t]["refresh"].at = "answered" /\ ~Granted(t, "refresh")
         /\ \/ astray \/ expected = None
            \/ /\ call[t]["refresh"].said \in {"failed", "cut"}
               /\ jar' = <<expected, live[expected]>>
<1> DEFINE Rejected ==
      \A t \in Tab :
          status[t] = "authenticated" /\ status'[t] = "unauthenticated" => Kindly(t)
<1>1. Inv /\ [SessionNext]_session => [Rejected]_session
  <2> SUFFICES ASSUME Inv, SessionNext PROVE Rejected
    OBVIOUS
  <2> SUFFICES ASSUME NEW u \in Tab, status[u] = "authenticated", status'[u] = "unauthenticated"
               PROVE  Kindly(u)
    OBVIOUS
  <2>0. status \in [Tab -> {"closed", "loading", "authenticated", "unauthenticated"}]
    BY DEF Inv, SessionTypeOK
  <2>1. ~InFlight(u, "bootstrap")
    BY DEF Inv, Bootstrapping
  <2> PICK t \in Tab :
        \/ \E p \in AppPath \cup AuthPath, r \in RedirectParam : Load(t, p, r)
        \/ \E q \in Query : Fetch(t, q)
        \/ \E k \in Call : Serve(t, k) \/ Deliver(t, k) \/ Lose(t, k)
        \/ Login(t)
        \/ Logout(t)
        \/ GuardRedirects(t)
        \/ SignInRedirects(t)
        \/ Expire(t)
    BY DEF SessionNext
  <2>2. ASSUME NEW k \in Call, Serve(t, k) PROVE FALSE
    BY <2>2 DEF Serve, page
  <2>3. ASSUME NEW k \in Call, Deliver(t, k)
        PROVE  Kindly(u)
    <3>1. CASE k = "refresh"
      <4>1. call[t]["refresh"].at = "answered" /\ DeliverRefresh(t)
        BY <2>3, <3>1, Names DEF Deliver, AuthCall, CookieCall
      <4>2. status' # status => t = u /\ ~Granted(t, "refresh")
        BY <4>1, <2>0 DEF DeliverRefresh, ClearToken
      <4>3. ~astray /\ expected # None =>
               /\ call[t]["refresh"].said # "refused"
               /\ jar' \in Cookies /\ jar'[1] = expected /\ Newest(jar') /\ Issued(jar')
        BY <4>1, RefreshHolds
      <4>4. \A c \in Cookies : c = <<c[1], c[2]>>
        BY DEF Cookies
      <4>5. ~astray /\ expected # None => jar' = <<expected, live[expected]>>
        BY <4>3, <4>4 DEF Newest
      <4>6. call[t]["refresh"].said \in Saying
        BY <4>1, Calls, AuthFields DEF AuthCall, CookieCall
      <4> QED BY <4>1, <4>2, <4>3, <4>5, <4>6 DEF Granted, Saying
    <3>2. CASE k = "bootstrap"
      <4>1. InFlight(t, "bootstrap") /\ DeliverBootstrap(t)
        BY <2>3, <3>2, Names DEF Deliver, AuthCall, CookieCall, InFlight
      <4>2. \A v \in Tab : v # t => status'[v] = status[v]
        BY <4>1, <2>0 DEF DeliverBootstrap, ApplySession
      <4> QED BY <2>1, <4>1, <4>2
    <3>3. CASE k = "login"
      <4>1. DeliverLogin(t)
        BY <2>3, <3>3, Names DEF Deliver, AuthCall, CookieCall
      <4> QED BY <4>1, <2>0 DEF DeliverLogin, ApplySession
    <3>4. CASE k = "logout"
      <4>1. InFlight(t, "logout") /\ DeliverLogout(t)
        BY <2>3, <3>4, Names DEF Deliver, AuthCall, CookieCall, InFlight
      <4>2. \A v \in Tab : v # t => status'[v] = status[v]
        BY <4>1, <2>0 DEF DeliverLogout, EndSession
      <4> QED BY <4>1, <4>2
    <3>5. CASE k \in Query
      <4>1. DeliverQuery(t, k)
        BY <2>3, <3>5, Names DEF Deliver, AuthCall, CookieCall
      <4> QED BY <4>1 DEF DeliverQuery
    <3> QED BY <3>1, <3>2, <3>3, <3>4, <3>5 DEF Call, AuthCall, CookieCall
  <2>4. ASSUME NEW k \in Call, Lose(t, k) PROVE InFlight(u, "logout")
    <3>1. CASE k = "bootstrap"
      <4>1. \A v \in Tab : v # t => status'[v] = status[v]
        BY <2>4, <3>1, <2>0 DEF Lose, BootstrapFails
      <4> QED BY <2>1, <2>4, <3>1, <4>1 DEF Lose
    <3>2. CASE k = "logout"
      <4>1. \A v \in Tab : v # t => status'[v] = status[v]
        BY <2>4, <3>2, <2>0 DEF Lose, EndSession
      <4> QED BY <2>4, <3>2, <4>1 DEF Lose
    <3>3. CASE k \notin {"bootstrap", "logout"}
      <4>1. status' = status
        BY <2>4, <3>3, Names DEF Lose, RefreshFails, Call, AuthCall, CookieCall
      <4> QED BY <4>1
    <3> QED BY <3>1, <3>2, <3>3
  <2>5. ASSUME NEW p, NEW r, Load(t, p, r) PROVE FALSE
    BY <2>5, <2>0 DEF Load
  <2>6. ASSUME NEW q, Fetch(t, q) PROVE FALSE
    BY <2>6 DEF Fetch, page
  <2>7. ASSUME Login(t) \/ Logout(t) \/ GuardRedirects(t) \/ SignInRedirects(t) \/ Expire(t) PROVE FALSE
    BY <2>7 DEF Login, Logout, GuardRedirects, SignInRedirects, Expire, page
  <2> QED BY <2>2, <2>3, <2>4, <2>5, <2>6, <2>7
<1> HIDE DEF Rejected
<1>2. SessionSpec => [][Rejected]_session
  BY <1>1, Invariance, PTL DEF SessionSpec
<1> QED BY <1>2 DEF Rejected, OnlyAnswersSignOut

=============================================================================
