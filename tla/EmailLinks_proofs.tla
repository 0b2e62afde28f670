-------------------------- MODULE EmailLinks_proofs --------------------------
(***************************************************************************)
(* Proofs that the pages of the emailed links tell the truth, for any      *)
(* links, requests and visits.                                             *)
(*                                                                         *)
(* What a page shows is an answer it was given some time ago.  So the      *)
(* invariant follows each answer from the server to the screen: which      *)
(* requests there can be for one link, which of them the page still hears, *)
(* and what the memo may replay.                                           *)
(***************************************************************************)
EXTENDS EmailLinks, TLAPS

\* The types, in parts.
AskRecord == [at : {"unused", "sent", "answered", "settled"},
              token : VerifyLink \cup {None}, answer : LinkOutcome \cup {None}]
FormRecord == [at : {"editing", "submitting", "answered", "done"},
               token : Link \cup {None}, outcome : LinkOutcome \cup {None}]
Shown == [token : VerifyLink, outcome : LinkOutcome]
ServerTyped ==
  /\ account \in [VerifyLink -> {"none", "unverified", "verified"}]
  /\ link \in [Link -> {"unissued", "live", "dead"}]
  /\ spent \subseteq Link
PageTyped ==
  /\ at \in VerifyLink \cup {None} /\ settled \in {None} \cup Shown
  /\ hears \subseteq Ask /\ memo \in 0..MaxAsks /\ moves \in 0..MaxMoves
  /\ ask \in [Ask -> AskRecord]
FormsTyped == form \in [FormPage -> FormRecord] /\ muddled \subseteq Link \cup {None}

\* A request has an answer once it is answered, and "ok" is a true one.
AskInv(r) ==
  /\ ask[r].at = "unused" => ask[r].token = None
  /\ ask[r].at # "unused" => ask[r].token \in VerifyLink
  /\ ask[r].at \in {"unused", "sent"} <=> ask[r].answer = None
  /\ ask[r].answer = "ok" => ask[r].token \in spent

\* The memo is of the link the page is at.  Only the request it remembers is
\* heard, until it settles; what it settled to, which is not a failure, is
\* shown, unless the page was mounted again.
MemoInv ==
  /\ hears \subseteq {memo}
  /\ memo # 0 =>
       /\ ask[memo].at # "unused" /\ ask[memo].token = at
       /\ ask[memo].at # "settled" => memo \in hears
       /\ ask[memo].at = "settled" =>
            /\ ask[memo].answer # "failed"
            /\ settled = None \/ settled = [token |-> at, outcome |-> ask[memo].answer]

\* Of the requests for one link all but one have failed, and of the link the
\* page is at all but the one that is remembered.
OnlyOne ==
  \A r, q \in Ask : r # q /\ ask[r].token = ask[q].token /\ ask[r].token \in VerifyLink \ muddled =>
    ask[r].answer = "failed" \/ ask[q].answer = "failed"
OthersFailed ==
  \A r \in Ask : r # memo /\ ask[r].token = at /\ at \in VerifyLink \ muddled =>
    ask[r].answer = "failed"

\* A link that is spent has a request that says so, if no answer was lost.
SpentInv ==
  \A l \in VerifyLink \cap spent : l \notin muddled =>
    \E r \in Ask : ask[r].token = l /\ ask[r].answer = "ok"

\* What the page shows is the answer of a settled request, or a failure.
SettledInv ==
  settled # None /\ settled.outcome # "failed" =>
    \E r \in Ask : ask[r] = [at |-> "settled", token |-> settled.token, answer |-> settled.outcome]

PageInv ==
  /\ \A r \in Ask : AskInv(r)
  /\ MemoInv /\ OnlyOne /\ OthersFailed /\ SpentInv /\ SettledInv

\* A form that was answered has the token it was sent with, "ok" is a true
\* answer, and only that ends the form.
FormInv(p) ==
  /\ form[p].token \in CASE p = "reset-password" -> ResetLink \cup {None}
                         [] p = "sign-up" -> VerifyLink \cup {None}
                         [] p = "forgot-password" -> {None}
  /\ form[p].at # "editing" /\ p # "forgot-password" => form[p].token # None
  /\ form[p].outcome = "ok" /\ p = "reset-password" => form[p].token \in spent
  /\ form[p].outcome = "ok" /\ p = "sign-up" =>
       form[p].token # None /\ account[form[p].token] # "none"
  /\ form[p].at = "done" => form[p].outcome = "ok"

\* The inductive invariant.
LinksInv ==
  /\ ServerTyped /\ PageTyped /\ FormsTyped
  /\ PageInv
  /\ \A p \in FormPage : FormInv(p)

\* What the action property says of one step.
RetryStep ==
  settled # None /\ settled' = None /\ at' = at /\ moves' = moves =>
    \E r \in DOMAIN ask : hears' = {r} /\ ask'[r].at # "settled"

\* Spending or issuing a link keeps the server's types, and what is spent or
\* registered stays so; only the spent link is new.
ServerStep(l) ==
  /\ ServerTyped'
  /\ spent \subseteq spent' /\ spent' \subseteq spent \cup {l}
  /\ \A a \in VerifyLink : account[a] # "none" => account'[a] # "none"

\* Spending a link makes it spent, if it was alive.
LEMMA SpendStep ==
  ASSUME ServerTyped, NEW l \in Link, NEW a, SpendLink(l, a)
  PROVE  ServerStep(l) /\ a \in {"ok", "INVALID_TOKEN"} /\ (a = "ok" => l \in spent')
<1>1. CASE Consume(l) /\ a = "ok"
  BY <1>1 DEF Consume, ServerTyped, ServerStep, LiveLinks
<1>2. CASE UNCHANGED linkServer /\ a = "INVALID_TOKEN"
  BY <1>2 DEF linkServer, ServerTyped, ServerStep
<1> QED
  BY <1>1, <1>2 DEF SpendLink

\* Registering changes no link that is spent.
LEMMA RegisterStep ==
  ASSUME ServerTyped, NEW l \in VerifyLink, NEW a, RegisterUser(l, a)
  PROVE  /\ ServerTyped' /\ UNCHANGED spent /\ a \in {"ok", "EMAIL_ALREADY_REGISTERED"}
         /\ \A b \in VerifyLink : account[b] # "none" => account'[b] # "none"
         /\ a = "ok" => account'[l] # "none"
  BY DEF RegisterUser, ServerTyped, linkServer

\* Asking for a reset link spends none.
LEMMA ForgotStep ==
  ASSUME ServerTyped, NEW a, RequestPasswordReset(a)
  PROVE  ServerTyped' /\ UNCHANGED <<account, spent>> /\ a = "ok"
  BY DEF RequestPasswordReset, ServerTyped, linkServer, Unissued, LiveLinks

\* The page does not mind what the server does to other links, nor forms.
LEMMA PageKept ==
  ASSUME LinksInv, UNCHANGED verifyPage,
         spent \subseteq spent', spent' \cap VerifyLink = spent \cap VerifyLink, muddled \subseteq muddled'
  PROVE  PageTyped' /\ PageInv' /\ RetryStep
<1>1. UNCHANGED <<at, settled, hears, memo, ask, moves>>
  BY DEF verifyPage
<1> QED
  BY <1>1 DEF LinksInv, PageTyped, PageInv, AskInv, MemoInv, OnlyOne, OthersFailed, SpentInv,
              SettledInv, RetryStep

\* The forms do not mind what the page does.
LEMMA FormsKept ==
  ASSUME LinksInv, UNCHANGED form, spent \subseteq spent',
         \A a \in VerifyLink : account[a] # "none" => account'[a] # "none"
  PROVE  \A p \in FormPage : FormInv(p)'
<1> SUFFICES ASSUME NEW p \in FormPage
             PROVE  FormInv(p)'
  OBVIOUS
<1>1. p \in {"sign-up", "forgot-password", "reset-password"} /\ FormInv(p)
  BY LinksAssumption DEF LinksInv
<1> QED
  BY <1>1 DEF FormInv

\* A link expires.
LEMMA ExpireStep ==
  ASSUME LinksInv, NEW l \in Link, ExpireLink(l)
  PROVE  LinksInv' /\ RetryStep
<1>1. /\ link' = [link EXCEPT ![l] = "dead"]
      /\ UNCHANGED <<account, spent, verifyPage, form, muddled>>
  BY DEF ExpireLink
<1>2. ServerTyped' /\ FormsTyped'
  BY <1>1 DEF LinksInv, ServerTyped, FormsTyped
<1> QED
  BY <1>1, <1>2, PageKept, FormsKept DEF LinksInv

\* A request for link t, as it is sent.
SentAsk(t) == [NoAsk EXCEPT !.at = "sent", !.token = t]

\* It is a record of a request that waits for its answer.
LEMMA SentAskIs ==
  ASSUME NEW t \in VerifyLink
  PROVE  /\ SentAsk(t) \in AskRecord /\ t # None
         /\ SentAsk(t).at = "sent" /\ SentAsk(t).token = t /\ SentAsk(t).answer = None
  BY LinksAssumption DEF SentAsk, NoAsk, AskRecord, Link

\* A new request, for a link of which every request so far has failed.
LEMMA NewAsk ==
  ASSUME LinksInv, NEW t \in VerifyLink, NEW r \in NextAsk, Send(r, t),
         hears' = {r}, at' = t, settled' \in {None, settled},
         spent' = spent, muddled \subseteq muddled',
         t \notin muddled' => \A q \in Ask : ask[q].token = t => ask[q].answer = "failed"
  PROVE  PageInv' /\ r \in Ask /\ ask' \in [Ask -> AskRecord] /\ memo' = r /\ ask'[r].at = "sent"
<1> USE DEF LinksInv, PageTyped, PageInv
<1>1. /\ r \in Ask /\ ask[r].at = "unused" /\ ask' = [ask EXCEPT ![r] = SentAsk(t)] /\ memo' = r
  BY DEF NextAsk, Send, SentAsk
<1>2. /\ ask' \in [Ask -> AskRecord] /\ r # 0
      /\ ask'[r].at = "sent" /\ ask'[r].token = t /\ ask'[r].answer = None
      /\ \A q \in Ask : q # r => ask'[q] = ask[q]
  BY <1>1, SentAskIs, LinksAssumption DEF Ask
<1>3. ask[r].token = None /\ ask[r].answer = None /\ None \notin VerifyLink /\ None \notin LinkOutcome
  BY <1>1, LinksAssumption DEF AskInv, Link
<1>4. \A q \in Ask : AskInv(q)'
  <2>1. AskInv(r)'
    BY <1>2, <1>3 DEF AskInv, LinkOutcome
  <2>2. \A q \in Ask : q # r => AskInv(q)'
    BY <1>2 DEF AskInv
  <2> QED
    BY <2>1, <2>2
<1>5. MemoInv'
  BY <1>1, <1>2 DEF MemoInv
<1>6. OnlyOne' /\ OthersFailed'
  BY <1>1, <1>2 DEF OnlyOne, OthersFailed
<1>7. SpentInv'
  BY <1>2, <1>3 DEF SpentInv, LinkOutcome
<1>8. SettledInv'
  <2>1. \A q \in Ask : ask[q].at = "settled" => ask'[q] = ask[q]
    BY <1>1, <1>2
  <2> QED
    BY <2>1, <1>1, <1>3 DEF SettledInv
<1> QED
  BY <1>1, <1>2, <1>4, <1>5, <1>6, <1>7, <1>8

\* A mount that is answered from the memo, or hears what it waits for.
LEMMA Replayed ==
  ASSUME LinksInv, at \in VerifyLink, memo # 0, UNCHANGED <<ask, memo, at, spent, muddled>>,
         hears' = {memo}, settled' = None
  PROVE  PageInv'
  BY DEF LinksInv, PageInv, AskInv, MemoInv, OnlyOne, OthersFailed, SpentInv, SettledInv

\* The page is shown for a link: a new request, or the remembered one.
LEMMA VisitStep ==
  ASSUME LinksInv, NEW t \in VerifyLink, NEW mounted \in BOOLEAN, VisitVerify(t, mounted)
  PROVE  LinksInv' /\ RetryStep
<1>1. /\ moves < MaxMoves /\ moves' = moves + 1
      /\ ~mounted => at \notin {None, t}
      /\ at' = t /\ settled' = IF mounted THEN None ELSE settled
      /\ muddled' = IF ~Remembered(t) /\ Known(t) THEN muddled \cup {t} ELSE muddled
      /\ UNCHANGED <<account, link, spent, form>>
  BY DEF VisitVerify, linkServer
<1>2. PICK r \in Ask : VerifyOnce(t, r) /\ HearOnly(r)
  BY DEF VisitVerify
<1>3. moves' \in 0..MaxMoves /\ moves' # moves
  BY <1>1, LinksAssumption DEF LinksInv, PageTyped
<1>4. ServerTyped' /\ FormsTyped'
  BY <1>1 DEF LinksInv, ServerTyped, FormsTyped, Link
<1>5. PageInv' /\ ask' \in [Ask -> AskRecord] /\ memo' \in 0..MaxAsks
  <2>1. CASE Remembered(t)
    <3>1. memo # 0 /\ ask[memo].token = t /\ r = memo /\ UNCHANGED <<ask, memo, muddled>> /\ at = t
      BY <1>1, <1>2, <2>1 DEF Remembered, VerifyOnce, LinksInv, PageInv, MemoInv
    <3> QED
      BY <1>1, <1>2, <3>1, Replayed DEF HearOnly, LinksInv, PageTyped
  <2>2. CASE ~Remembered(t)
    <3>1. r \in NextAsk /\ Send(r, t) /\ hears' = {r}
      BY <1>2, <2>2 DEF VerifyOnce, HearOnly
    <3>2. t \notin muddled' => \A q \in Ask : ask[q].token # t
      BY <1>1, <2>2, LinksAssumption DEF Known, Remembered, Ask
    <3> QED
      BY <1>1, <3>1, <3>2, NewAsk, LinksAssumption DEF Ask
  <2> QED
    BY <2>1, <2>2
<1>6. PageTyped'
  BY <1>1, <1>2, <1>3, <1>5 DEF LinksInv, PageTyped, HearOnly
<1> QED
  BY <1>1, <1>3, <1>4, <1>5, <1>6, FormsKept DEF LinksInv, RetryStep

\* Try again asks again, or waits for a request that is under way.
LEMMA TryAgainStep ==
  ASSUME LinksInv, TryAgain
  PROVE  LinksInv' /\ RetryStep
<1>1. /\ settled # None /\ settled.token = at /\ settled.outcome = "failed" /\ settled' = None
      /\ UNCHANGED <<account, link, spent, at, moves, form, muddled>>
  BY DEF TryAgain, linkServer
<1>2. PICK r \in Ask : VerifyOnce(at, r) /\ HearOnly(r)
  BY DEF TryAgain
<1>3. at \in VerifyLink
  BY <1>1 DEF LinksInv, PageTyped, Shown
<1>4. ServerTyped' /\ FormsTyped'
  BY <1>1 DEF LinksInv, ServerTyped, FormsTyped
<1>5. PageInv' /\ ask' \in [Ask -> AskRecord] /\ memo' \in 0..MaxAsks /\ ask'[r].at # "settled"
  <2>1. CASE Remembered(at)
    <3>1. memo # 0 /\ r = memo /\ UNCHANGED <<ask, memo>>
      BY <1>2, <2>1 DEF Remembered, VerifyOnce
    <3>2. ask[memo].at # "settled"
      BY <1>1, <3>1 DEF LinksInv, PageInv, MemoInv
    <3> QED
      BY <1>1, <1>2, <1>3, <3>1, <3>2, Replayed DEF HearOnly, LinksInv, PageTyped
  <2>2. CASE ~Remembered(at)
    <3>1. r \in NextAsk /\ Send(r, at) /\ hears' = {r}
      BY <1>2, <2>2 DEF VerifyOnce, HearOnly
    <3>2. memo = 0
      BY <2>2 DEF Remembered, LinksInv, PageInv, MemoInv
    <3>3. at \notin muddled' => \A q \in Ask : ask[q].token = at => ask[q].answer = "failed"
      BY <1>1, <1>3, <3>2, LinksAssumption DEF LinksInv, PageInv, OthersFailed, Ask
    <3> QED
      BY <1>1, <1>3, <3>1, <3>3, NewAsk, LinksAssumption DEF Ask
  <2> QED
    BY <2>1, <2>2
<1>6. PageTyped'
  BY <1>1, <1>2, <1>5 DEF LinksInv, PageTyped, HearOnly
<1>7. RetryStep
  BY <1>2, <1>5 DEF RetryStep, HearOnly, LinksInv, PageTyped
<1> QED
  BY <1>1, <1>4, <1>5, <1>6, <1>7, FormsKept DEF LinksInv

\* A request that is served: the one that spends its link says so.
LEMMA ServeAskStep ==
  ASSUME LinksInv, NEW r \in Ask, ServeAsk(r)
  PROVE  LinksInv' /\ RetryStep
<1> USE DEF LinksInv, PageInv
<1>1. PICK a \in {"ok", "INVALID_TOKEN"} :
        /\ SpendLink(ask[r].token, a)
        /\ ask' = [ask EXCEPT ![r].at = "answered", ![r].answer = a]
  BY DEF ServeAsk
<1>2. /\ ask[r].at = "sent" /\ UNCHANGED <<at, settled, hears, memo, moves, form, muddled>>
  BY DEF ServeAsk
<1> DEFINE l == ask[r].token
<1>3. l \in VerifyLink /\ l \in Link /\ ask[r].answer = None
  BY <1>2 DEF AskInv, Link
<1>4. ServerStep(l) /\ (a = "ok" => l \in spent')
  BY <1>1, <1>3, SpendStep
<1>5. /\ ask' \in [Ask -> AskRecord]
      /\ ask'[r].at = "answered" /\ ask'[r].answer = a /\ ask'[r].token = l
      /\ \A q \in Ask : q # r => ask'[q] = ask[q]
  BY <1>1 DEF PageTyped, AskRecord, LinkOutcome
<1>6. a # "failed" /\ a # None /\ None # "failed" /\ None # "ok"
  BY LinksAssumption DEF LinkOutcome
<1> HIDE DEF l
<1>7. \A q \in Ask : AskInv(q)'
  BY <1>2, <1>3, <1>4, <1>5, <1>6 DEF AskInv, ServerStep
<1>8. MemoInv'
  <2>1. memo # 0 => memo \in Ask
    BY LinksAssumption DEF PageTyped, Ask
  <2> QED
    BY <1>2, <1>5, <2>1 DEF MemoInv, l
<1>9. OnlyOne' /\ OthersFailed'
  BY <1>2, <1>3, <1>5, <1>6 DEF OnlyOne, OthersFailed, l
<1>10. SpentInv'
  <2> SUFFICES ASSUME NEW k \in VerifyLink \cap spent', k \notin muddled
               PROVE  \E q \in Ask : ask'[q].token = k /\ ask'[q].answer = "ok"
    BY <1>2 DEF SpentInv
  <2>1. CASE k \in spent
    <3>1. PICK q \in Ask : ask[q].token = k /\ ask[q].answer = "ok"
      BY <2>1 DEF SpentInv
    <3> QED
      BY <3>1, <1>3, <1>5, <1>6
  <2>2. CASE k \notin spent
    <3>1. k = l
      BY <2>2, <1>4 DEF ServerStep
    <3>2. l \in spent => FALSE
      BY <2>2, <3>1
    <3>3. a = "ok"
      <4>1. SpendLink(ask[r].token, "INVALID_TOKEN") => UNCHANGED spent
        BY DEF SpendLink, linkServer
      <4> QED
        BY <1>1, <2>2, <4>1
    <3> QED
      BY <1>5, <3>1, <3>3
  <2> QED
    BY <2>1, <2>2
<1>11. SettledInv'
  BY <1>2, <1>5 DEF SettledInv
<1>12. PageTyped' /\ FormsTyped' /\ RetryStep
  BY <1>2, <1>5 DEF PageTyped, FormsTyped, RetryStep
<1> QED
  BY <1>2, <1>4, <1>7, <1>8, <1>9, <1>10, <1>11, <1>12, FormsKept DEF ServerStep

\* An answer that is lost; if it was "ok", its link is muddled.
LEMMA LoseAskStep ==
  ASSUME LinksInv, NEW r \in Ask, LoseAsk(r)
  PROVE  LinksInv' /\ RetryStep
<1> USE DEF LinksInv, PageInv
<1>1. /\ ask[r].at \in {"sent", "answered"} /\ ask[r].answer # "failed"
      /\ muddled' = IF ask[r].answer = "ok" THEN muddled \cup {ask[r].token} ELSE muddled
      /\ ask' = [ask EXCEPT ![r].at = "answered", ![r].answer = "failed"]
      /\ UNCHANGED <<account, link, spent, at, settled, hears, memo, moves, form>>
  BY DEF LoseAsk, linkServer
<1>2. /\ ask' \in [Ask -> AskRecord]
      /\ ask'[r].at = "answered" /\ ask'[r].answer = "failed" /\ ask'[r].token = ask[r].token
      /\ \A q \in Ask : q # r => ask'[q] = ask[q]
  BY <1>1 DEF PageTyped, AskRecord, LinkOutcome
<1>3. None # "failed"
  BY LinksAssumption DEF LinkOutcome
<1>4. \A q \in Ask : AskInv(q)'
  BY <1>1, <1>2, <1>3 DEF AskInv
<1>5. MemoInv'
  <2>1. memo # 0 => memo \in Ask
    BY LinksAssumption DEF PageTyped, Ask
  <2> QED
    BY <1>1, <1>2, <2>1 DEF MemoInv
<1>6. OnlyOne' /\ OthersFailed'
  BY <1>1, <1>2 DEF OnlyOne, OthersFailed
<1>7. SpentInv'
  BY <1>1, <1>2 DEF SpentInv
<1>8. SettledInv'
  BY <1>1, <1>2 DEF SettledInv
<1>9. ask[r].token \in Link \cup {None}
  BY DEF PageTyped, AskRecord, Link
<1>10. ServerTyped' /\ PageTyped' /\ FormsTyped' /\ RetryStep
  BY <1>1, <1>2, <1>9 DEF ServerTyped, PageTyped, FormsTyped, RetryStep
<1> QED
  BY <1>1, <1>4, <1>5, <1>6, <1>7, <1>8, <1>10, FormsKept

\* What settles is shown if it is heard, and a failure is forgotten.
LEMMA SettleAskStep ==
  ASSUME LinksInv, NEW r \in Ask, SettleAsk(r)
  PROVE  LinksInv' /\ RetryStep
<1> USE DEF LinksInv, PageInv
<1>1. /\ ask[r].at \in {"answered", "settled"}
      /\ ask' = [ask EXCEPT ![r].at = "settled"]
      /\ memo' = IF ask[r].answer = "failed" /\ memo = r THEN 0 ELSE memo
      /\ hears' = hears \ {r}
      /\ settled' = IF r \in hears
                    THEN [token |-> ask[r].token, outcome |-> ask[r].answer] ELSE settled
      /\ UNCHANGED <<account, link, spent, at, moves, form, muddled>>
  BY DEF SettleAsk, Forget, linkServer
<1>2. /\ ask' \in [Ask -> AskRecord]
      /\ ask'[r] = [at |-> "settled", token |-> ask[r].token, answer |-> ask[r].answer]
      /\ \A q \in Ask : /\ q # r => ask'[q] = ask[q]
                        /\ ask'[q].token = ask[q].token /\ ask'[q].answer = ask[q].answer
  BY <1>1 DEF PageTyped, AskRecord
<1>3. ask[r].token \in VerifyLink /\ ask[r].answer \in LinkOutcome
  BY <1>1 DEF AskInv, PageTyped, AskRecord
<1>4. [token |-> ask[r].token, outcome |-> ask[r].answer] \in Shown
  BY <1>3 DEF Shown
<1>5. 0 \notin Ask
  BY DEF Ask
<1>6. \A q \in Ask : AskInv(q)'
  <2>1. ask'[r].at = "settled" /\ ask'[r].token = ask[r].token /\ ask'[r].answer = ask[r].answer
    BY <1>2
  <2>2. AskInv(r)'
    BY <1>1, <2>1 DEF AskInv
  <2>3. \A q \in Ask : q # r => AskInv(q)'
    BY <1>1, <1>2 DEF AskInv
  <2> QED
    BY <2>2, <2>3
<1>7. MemoInv'
  <2>1. CASE memo = r
    BY <1>1, <1>2, <1>5, <2>1 DEF MemoInv
  <2>2. CASE memo # r
    <3>1. r \notin hears /\ memo' = memo /\ hears' = hears /\ settled' = settled
      BY <1>1, <2>2 DEF MemoInv
    <3>2. memo # 0 => memo \in Ask /\ ask'[memo] = ask[memo]
      BY <1>2, <2>2, LinksAssumption DEF PageTyped, Ask
    <3> QED
      BY <1>1, <3>1, <3>2 DEF MemoInv
  <2> QED
    BY <2>1, <2>2
<1>8. OnlyOne' /\ OthersFailed'
  BY <1>1, <1>2 DEF OnlyOne, OthersFailed
<1>9. SpentInv'
  BY <1>1, <1>2 DEF SpentInv
<1>10. SettledInv'
  <2>1. CASE r \in hears
    BY <1>1, <1>2, <2>1 DEF SettledInv
  <2>2. CASE r \notin hears
    <3>1. settled' = settled
      BY <1>1, <2>2
    <3>2. \A q \in Ask : ask[q].at = "settled" => ask'[q] = ask[q]
      <4>1. ask[r] = [at |-> ask[r].at, token |-> ask[r].token, answer |-> ask[r].answer]
        BY DEF PageTyped, AskRecord
      <4> QED
        BY <1>1, <1>2, <4>1
    <3> QED
      BY <3>1, <3>2 DEF SettledInv
  <2> QED
    BY <2>1, <2>2
<1>11. PageTyped'
  BY <1>1, <1>2, <1>4, LinksAssumption DEF PageTyped
<1>12. ServerTyped' /\ FormsTyped'
  BY <1>1 DEF ServerTyped, FormsTyped
<1>13. RetryStep
  <2>1. settled # None => settled' # None
    BY <1>1, <1>4, LinksAssumption DEF Shown
  <2> QED
    BY <2>1 DEF RetryStep
<1> QED
  BY <1>1, <1>6, <1>7, <1>8, <1>9, <1>10, <1>11, <1>12, <1>13, FormsKept

\* What a step of one form has to see to: the other forms, and the page, do
\* not mind it.
LEMMA FormStep ==
  ASSUME LinksInv, NEW p \in FormPage, form' \in [FormPage -> FormRecord],
         \A q \in FormPage : q # p => form'[q] = form[q], FormInv(p)', ServerTyped',
         UNCHANGED verifyPage, muddled' \subseteq Link \cup {None}, muddled \subseteq muddled',
         spent \subseteq spent', spent' \cap VerifyLink = spent \cap VerifyLink,
         \A a \in VerifyLink : account[a] # "none" => account'[a] # "none"
  PROVE  LinksInv' /\ RetryStep
<1>1. FormsTyped'
  BY DEF LinksInv, FormsTyped
<1>2. ASSUME NEW q \in FormPage
      PROVE  FormInv(q)'
  <2>1. q # p => form'[q] = form[q]
    OBVIOUS
  <2>2. q \in {"sign-up", "forgot-password", "reset-password"} /\ FormInv(q)
    BY LinksAssumption DEF LinksInv
  <2>3. CASE q # p
    BY <2>1, <2>2, <2>3 DEF FormInv
  <2> QED
    BY <2>3
<1> QED
  BY <1>1, <1>2, PageKept DEF LinksInv

\* A form as it is before a step of its own.
LEMMA FormBefore ==
  ASSUME LinksInv, NEW p \in FormPage
  PROVE  /\ p \in {"sign-up", "forgot-password", "reset-password"} /\ FormInv(p)
         /\ form[p] \in FormRecord
         /\ form[p] = [at |-> form[p].at, token |-> form[p].token, outcome |-> form[p].outcome]
  BY LinksAssumption DEF LinksInv, FormsTyped, FormRecord

\* A form that is opened, submitted or shown its answer.
LEMMA FormUseStep ==
  ASSUME LinksInv, NEW p \in FormPage,
         (\E t \in Link \cup {None} : OpenForm(p, t)) \/ SendForm(p) \/ ShowAnswer(p)
  PROVE  LinksInv' /\ RetryStep
<1>1. UNCHANGED <<linkServer, verifyPage, muddled>>
  BY DEF OpenForm, SendForm, ShowAnswer
<1>2. ServerTyped' /\ muddled' \subseteq Link \cup {None} /\ UNCHANGED <<account, spent>>
  BY <1>1 DEF linkServer, LinksInv, ServerTyped, FormsTyped
<1>3. None \notin LinkOutcome
  BY LinksAssumption
<1>4. form' \in [FormPage -> FormRecord] /\ \A q \in FormPage : q # p => form'[q] = form[q]
  <2>1. form \in [FormPage -> FormRecord]
    BY DEF LinksInv, FormsTyped
  <2>2. ASSUME NEW t \in Link \cup {None}, OpenForm(p, t)
        PROVE  form' \in [FormPage -> FormRecord] /\ \A q \in FormPage : q # p => form'[q] = form[q]
    <3>1. form' = [form EXCEPT ![p] = [Blank EXCEPT !.token = t]]
      BY <2>2 DEF OpenForm
    <3>2. [Blank EXCEPT !.token = t] \in FormRecord
      BY DEF Blank, FormRecord
    <3> QED
      BY <2>1, <3>1, <3>2
  <2>3. CASE SendForm(p)
    BY <2>1, <2>3 DEF SendForm, FormRecord
  <2>4. CASE ShowAnswer(p)
    <3>1. Unwrapped(form[p]) \in FormRecord
      BY FormBefore DEF FormRecord, Unwrapped
    <3> QED
      BY <2>1, <2>4, <3>1 DEF ShowAnswer
  <2> QED
    BY <2>2, <2>3, <2>4
<1>5. FormInv(p)'
  <2>1. form \in [FormPage -> FormRecord]
    BY DEF LinksInv, FormsTyped
  <2>2. ASSUME NEW t \in Link \cup {None}, OpenForm(p, t)
        PROVE  FormInv(p)'
    <3>1. form'[p].at = "editing" /\ form'[p].token = t /\ form'[p].outcome = None
      BY <2>1, <2>2 DEF OpenForm, Blank
    <3>2. t \in CASE p = "reset-password" -> ResetLink \cup {None}
                  [] p = "sign-up" -> VerifyLink \cup {None}
                  [] p = "forgot-password" -> {None}
      BY <2>2, FormBefore DEF OpenForm
    <3> QED
      BY <1>3, <3>1, <3>2 DEF FormInv, LinkOutcome
  <2>3. CASE SendForm(p)
    <3>1. /\ form'[p].at = "submitting" /\ form'[p].token = form[p].token /\ form'[p].outcome = None
          /\ p # "forgot-password" => form[p].token # None
      BY <2>1, <2>3 DEF SendForm, FormRecord
    <3> QED
      BY <1>3, <3>1, FormBefore DEF FormInv, LinkOutcome
  <2>4. CASE ShowAnswer(p)
    <3>1. /\ form'[p].token = form[p].token /\ form'[p].outcome = form[p].outcome
          /\ form'[p].at \in {"done", "editing"}
          /\ form'[p].at = "done" => form[p].outcome = "ok"
      BY <2>1, <2>4 DEF ShowAnswer, Unwrapped, FormRecord
    <3>2. FormInv(p) /\ form[p].at = "answered"
      BY <2>4, FormBefore DEF ShowAnswer
    <3> QED
      BY <1>2, <3>1, <3>2 DEF FormInv
  <2> QED
    BY <2>2, <2>3, <2>4
<1> QED
  BY <1>1, <1>2, <1>4, <1>5, FormStep

\* A form's request is served.  No form spends a link of the page's.
LEMMA ServeFormStep ==
  ASSUME LinksInv, NEW p \in FormPage, ServeForm(p)
  PROVE  LinksInv' /\ RetryStep
<1>1. PICK a \in {"ok", "INVALID_TOKEN", "EMAIL_ALREADY_REGISTERED"} :
        /\ CASE p = "sign-up" -> RegisterUser(form[p].token, a)
             [] p = "forgot-password" -> RequestPasswordReset(a)
             [] p = "reset-password" -> SpendLink(form[p].token, a)
        /\ form' = [form EXCEPT ![p].at = "answered", ![p].outcome = a]
  BY DEF ServeForm
<1>2. form[p].at = "submitting" /\ UNCHANGED <<verifyPage, muddled>>
  BY DEF ServeForm
<1>3. form \in [FormPage -> FormRecord]
  BY DEF LinksInv, FormsTyped
<1>4. form' \in [FormPage -> FormRecord] /\ \A q \in FormPage : q # p => form'[q] = form[q]
  BY <1>1, <1>3 DEF FormRecord, LinkOutcome
<1>5. form'[p].at = "answered" /\ form'[p].token = form[p].token /\ form'[p].outcome = a
  BY <1>1, <1>3 DEF FormRecord
<1>6. p # "forgot-password" => form[p].token # None
  BY <1>2, FormBefore DEF FormInv
<1>7. ServerTyped
  BY DEF LinksInv
<1>8. /\ ServerTyped' /\ spent \subseteq spent' /\ spent' \cap VerifyLink = spent \cap VerifyLink
      /\ \A b \in VerifyLink : account[b] # "none" => account'[b] # "none"
      /\ a = "ok" /\ p = "reset-password" => form[p].token \in spent'
      /\ a = "ok" /\ p = "sign-up" => account'[form[p].token] # "none"
  <2>1. CASE p = "sign-up"
    <3>1. form[p].token \in VerifyLink /\ RegisterUser(form[p].token, a)
      BY <1>1, <1>6, <2>1, FormBefore DEF FormInv
    <3> QED
      BY <1>7, <2>1, <3>1, RegisterStep
  <2>2. CASE p = "forgot-password"
    <3>1. RequestPasswordReset(a)
      BY <1>1, <2>2
    <3> QED
      BY <1>7, <2>2, <3>1, ForgotStep
  <2>3. CASE p = "reset-password"
    <3>1. form[p].token \in ResetLink /\ SpendLink(form[p].token, a)
      BY <1>1, <1>6, <2>3, FormBefore DEF FormInv
    <3>2. ServerStep(form[p].token) /\ (a = "ok" => form[p].token \in spent')
      BY <1>7, <3>1, SpendStep DEF Link
    <3> QED
      BY <2>3, <3>1, <3>2, LinksAssumption DEF ServerStep
  <2> QED
    BY <2>1, <2>2, <2>3, FormBefore
<1>9. FormInv(p)'
  BY <1>5, <1>6, <1>8, FormBefore DEF FormInv
<1>10. muddled' \subseteq Link \cup {None} /\ muddled \subseteq muddled'
  BY <1>2 DEF LinksInv, FormsTyped
<1> QED
  BY <1>2, <1>4, <1>8, <1>9, <1>10, FormStep

\* A form whose answer is lost is shown an error.
LEMMA LoseFormStep ==
  ASSUME LinksInv, NEW p \in FormPage, LoseForm(p)
  PROVE  LinksInv' /\ RetryStep
<1>1. /\ form[p].at \in {"submitting", "answered"}
      /\ muddled' = IF form[p].outcome = "ok" THEN muddled \cup {form[p].token} ELSE muddled
      /\ form' = [form EXCEPT ![p].at = "answered", ![p].outcome = "failed"]
      /\ UNCHANGED <<account, link, spent, verifyPage>>
  BY DEF LoseForm, linkServer
<1>2. form \in [FormPage -> FormRecord]
  BY DEF LinksInv, FormsTyped
<1>3. form' \in [FormPage -> FormRecord] /\ \A q \in FormPage : q # p => form'[q] = form[q]
  BY <1>1, <1>2 DEF FormRecord, LinkOutcome
<1>4. form'[p].at = "answered" /\ form'[p].token = form[p].token /\ form'[p].outcome = "failed"
  BY <1>1, <1>2 DEF FormRecord
<1>5. p # "forgot-password" => form[p].token # None
  BY <1>1, FormBefore DEF FormInv
<1>6. FormInv(p)'
  BY <1>4, <1>5, FormBefore DEF FormInv
<1>7. ServerTyped' /\ muddled \subseteq muddled' /\ muddled' \subseteq Link \cup {None}
  BY <1>1, FormBefore DEF LinksInv, ServerTyped, FormsTyped, FormRecord
<1> QED
  BY <1>1, <1>3, <1>6, <1>7, FormStep

\* Every step keeps the invariant and does what the action property says.
LEMMA LinksStep ==
  ASSUME LinksInv, [LinksNext]_linkvars
  PROVE  LinksInv' /\ RetryStep
<1>1. CASE UNCHANGED linkvars
  <2>1. UNCHANGED <<account, link, spent, verifyPage, form, muddled>>
    BY <1>1 DEF linkvars, linkServer
  <2>2. ServerTyped' /\ FormsTyped'
    BY <2>1 DEF LinksInv, ServerTyped, FormsTyped
  <2> QED
    BY <2>1, <2>2, PageKept, FormsKept DEF LinksInv
<1>2. CASE LinksNext
  BY <1>2, ExpireStep, VisitStep, TryAgainStep, ServeAskStep, LoseAskStep, SettleAskStep,
     FormUseStep, ServeFormStep, LoseFormStep DEF LinksNext
<1> QED
  BY <1>1, <1>2

\* Nothing is asked at first, and nothing is spent.
LEMMA LinksStart ==
  ASSUME LinksInit
  PROVE  LinksInv
<1>1. NoAsk \in AskRecord /\ NoAsk.at = "unused" /\ NoAsk.token = None /\ NoAsk.answer = None
  BY DEF NoAsk, AskRecord
<1>2. Blank \in FormRecord /\ Blank.at = "editing" /\ Blank.token = None /\ Blank.outcome = None
  BY DEF Blank, FormRecord
<1>3. None \notin LinkOutcome /\ None \notin VerifyLink
  BY LinksAssumption DEF Link
<1>4. ServerTyped
  BY LinksAssumption DEF LinksInit, ServerTyped
<1>5. PageTyped /\ FormsTyped
  BY <1>1, <1>2, LinksAssumption DEF LinksInit, PageTyped, FormsTyped
<1>6. PageInv
  BY <1>1, <1>3 DEF LinksInit, PageInv, AskInv, MemoInv, OnlyOne, OthersFailed, SpentInv, SettledInv,
     LinkOutcome
<1>7. \A p \in FormPage : FormInv(p)
  BY <1>2, <1>3, LinksAssumption DEF LinksInit, FormInv, LinkOutcome
<1> QED
  BY <1>4, <1>5, <1>6, <1>7 DEF LinksInv

\* The type invariant of EmailLinks.
THEOREM LinksTyped == LinksSpec => []LinksTypeOK
<1>1. LinksInv => LinksTypeOK
  BY DEF LinksInv, LinksTypeOK, ServerTyped, PageTyped, FormsTyped, AskRecord, FormRecord, Shown
<1> QED
  BY <1>1, LinksStart, LinksStep, PTL DEF LinksSpec

\* The pages of the emailed links say that it worked, or failed, only if it
\* did, and Try again asks again (session-requests.ts:113, 120, 186).
THEOREM OutcomesHold == LinksSpec => OutcomesAreTrue
<1>1. LinksInv => SuccessIsTrue /\ FailureIsTrue
  <2> SUFFICES ASSUME LinksInv
               PROVE  SuccessIsTrue /\ FailureIsTrue
    OBVIOUS
  <2>1. settled # None => settled \in Shown
    BY DEF LinksInv, PageTyped
  <2>2. settled # None /\ settled.outcome # "failed" =>
          \E r \in Ask : /\ ask[r].token = settled.token /\ ask[r].answer = settled.outcome
                         /\ AskInv(r)
    BY DEF LinksInv, PageInv, SettledInv
  <2>3. settled # None /\ settled.outcome = "ok" => settled.token \in spent
    BY <2>2 DEF AskInv
  <2>4. ASSUME NEW p \in FormPage, form[p].at = "done"
        PROVE  CASE p = "reset-password" -> form[p].token \in spent
                 [] p = "sign-up" -> account[form[p].token] # "none"
                 [] p = "forgot-password" -> TRUE
    BY <2>4, FormBefore DEF FormInv
  <2>5. SuccessIsTrue
    BY <2>3, <2>4 DEF SuccessIsTrue, LinksInv, FormsTyped
  <2>6. FailureIsTrue
    <3> SUFFICES ASSUME settled # None, settled.outcome = "INVALID_TOKEN",
                        settled.token \in spent, settled.token \notin muddled
                 PROVE  FALSE
      BY DEF FailureIsTrue
    <3>1. settled.token \in VerifyLink
      BY <2>1 DEF Shown
    <3>2. PICK r \in Ask : ask[r].token = settled.token /\ ask[r].answer = "INVALID_TOKEN"
      BY <2>2
    <3>3. PICK q \in Ask : ask[q].token = settled.token /\ ask[q].answer = "ok"
      BY <3>1 DEF LinksInv, PageInv, SpentInv
    <3> QED
      BY <3>1, <3>2, <3>3 DEF LinksInv, PageInv, OnlyOne
  <2> QED
    BY <2>5, <2>6
<1>2. RetryStep => (settled # None /\ settled' = None /\ at' = at /\ moves' = moves =>
          \E r \in DOMAIN ask : hears' = {r} /\ ask'[r].at # "settled")
  BY DEF RetryStep
<1> QED
  BY <1>1, <1>2, LinksStart, LinksStep, PTL DEF LinksSpec, OutcomesAreTrue, RetriesAreReal
=============================================================================
