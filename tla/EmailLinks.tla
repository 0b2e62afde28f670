----------------------------- MODULE EmailLinks -----------------------------
(***************************************************************************)
(* The pages that spend or ask for an emailed link: /verify-email, which   *)
(* submits its ?token= as soon as it is shown (verify-email/page.tsx, with *)
(* the memo of session-requests.ts), and the forms of /sign-up,            *)
(* /forgot-password and /reset-password.  The server is the API of         *)
(* auth.go, one atomic step per request.                                   *)
(*                                                                         *)
(* A link is single-use.  A request for it may be lost before or after it  *)
(* took effect; an effect of React may run again for the same token, and   *)
(* the token may change while a request is in flight.                      *)
(***************************************************************************)
EXTENDS Naturals, FiniteSets, Nothing

CONSTANTS
    VerifyLink,              \* verification links, one for each address there is
    ResetLink,               \* the reset links the server may come to mail
    Seeded,                  \* addresses that are registered, unverified, at first
    FormPage,                \* of "sign-up", "forgot-password", "reset-password"
    MaxAsks,                 \* verification requests there may be
    MaxMoves                 \* visits of /verify-email

Link == VerifyLink \cup ResetLink
Ask == 1..MaxAsks
LinkOutcome == {"ok", "INVALID_TOKEN", "EMAIL_ALREADY_REGISTERED", "failed"}

ASSUME LinksAssumption ==
    /\ VerifyLink \cap ResetLink = {} /\ Seeded \subseteq VerifyLink
    /\ FormPage \subseteq {"sign-up", "forgot-password", "reset-password"}
    /\ MaxAsks \in Nat /\ MaxMoves \in Nat
    /\ None \notin Link \cup LinkOutcome
    /\ None \notin [token : VerifyLink, outcome : LinkOutcome]

VARIABLES
    account,   \* the row of each address: "none", "unverified", "verified"
    link,      \* what the server makes of each link
    spent,     \* links that took effect
    at,        \* the ?token= /verify-email shows, None if it is not open
    settled,   \* its outcome, tagged with the token, or None
    hears,     \* the verification requests whose answer the page still takes
    memo,     \* the request verifyOnce remembers, 0 if none
    ask,       \* the verification requests
    moves,
    form,      \* the three forms
    muddled    \* links of which an answer was lost or that were come back to

linkServer == <<account, link, spent>>
verifyPage == <<at, settled, hears, memo, ask, moves>>
linkvars == <<linkServer, verifyPage, form, muddled>>

-----------------------------------------------------------------------------
(* The API.                                                                *)

LiveLinks == {l \in Link : link[l] = "live"}
Unissued(S) == {l \in S : link[l] = "unissued"}

\* RegisterUser: an address that has a row is a conflict, verified or not.
RegisterUser(a, answer) ==
    \/ /\ account[a] = "none"
       /\ account' = [account EXCEPT ![a] = "unverified"]
       /\ link' = [link EXCEPT ![a] = "live"]
       /\ answer = "ok"
       /\ UNCHANGED spent
    \/ /\ account[a] # "none"
       /\ answer = "EMAIL_ALREADY_REGISTERED"
       /\ UNCHANGED linkServer

\* RequestPasswordReset answers the same whether or not it issued a link.
RequestPasswordReset(answer) ==
    /\ answer = "ok"
    /\ \/ /\ \E l \in Unissued(ResetLink) :
                link' = [k \in Link |->
                    CASE k = l -> "live"
                      [] k \in ResetLink \cap LiveLinks -> "dead"
                      [] OTHER -> link[k]]
          /\ UNCHANGED <<account, spent>>
       \/ UNCHANGED linkServer

\* The effect of a live link; an outstanding reset link dies with a reset.
Consume(l) ==
    /\ spent' = spent \cup {l}
    /\ link' = [k \in Link |->
           IF k = l \/ (l \in ResetLink /\ k \in ResetLink \cap LiveLinks) THEN "dead" ELSE link[k]]
    /\ account' = [a \in VerifyLink |-> IF a = l THEN "verified" ELSE account[a]]

\* VerifyEmail and ConfirmPasswordReset.
SpendLink(l, answer) ==
    \/ /\ l \in LiveLinks
       /\ Consume(l)
       /\ answer = "ok"
    \/ /\ l \notin LiveLinks
       /\ answer = "INVALID_TOKEN"
       /\ UNCHANGED linkServer

ExpireLink(l) ==
    /\ l \in LiveLinks
    /\ link' = [link EXCEPT ![l] = "dead"]
    /\ UNCHANGED <<account, spent, verifyPage, form, muddled>>

-----------------------------------------------------------------------------
(* verifyOnce: one request per token, whose definite answer is replayed.   *)

NoAsk == [at |-> "unused", token |-> None, answer |-> None]
NextAsk == {r \in Ask : ask[r].at = "unused" /\ \A q \in 1..(r - 1) : ask[q].at # "unused"}

Remembered(t) == memo # 0 /\ ask[memo].token = t

Send(r, t) ==
    /\ ask' = [ask EXCEPT ![r] = [NoAsk EXCEPT !.at = "sent", !.token = t]]
    /\ memo' = r

\* The request that answers an effect for token t.
\* UnmemoizedVerify, a faulty variant: every effect asks again.
UnmemoizedVerify(t, r) == r \in NextAsk /\ Send(r, t)
VerifyOnce(t, r) ==
    IF Remembered(t)
      THEN r = memo /\ UNCHANGED <<ask, memo>>
      ELSE r \in NextAsk /\ Send(r, t)

\* The effect's cleanup made the answers to earlier effects unheard.
\* HearAll, a faulty variant: without the `active` flag.
HearAll(r) == hears' = hears \cup {r}
HearOnly(r) == hears' = {r}

\* A transient failure is forgotten, so that the page may try again.
\* Keep, a faulty variant: failures are replayed like definite answers.
Keep(r) == UNCHANGED memo
Forget(r) ==
    memo' = IF ask[r].answer = "failed" /\ memo = r THEN 0 ELSE memo

-----------------------------------------------------------------------------
(* /verify-email                                                           *)

\* Known: links this browser already asked the server about, under another
\* entry of the memo than the present one.
Known(t) == \E r \in Ask : ask[r].token = t /\ r # memo

\* VisitVerify: the page is opened, mounted again, or its ?token= changes, which
\* keeps its state.
VisitVerify(t, mounted) ==
    /\ moves < MaxMoves /\ moves' = moves + 1
    /\ ~mounted => at \notin {None, t}
    /\ at' = t
    /\ settled' = IF mounted THEN None ELSE settled
    /\ \E r \in Ask : VerifyOnce(t, r) /\ HearOnly(r)
    /\ muddled' = IF ~Remembered(t) /\ Known(t) THEN muddled \cup {t} ELSE muddled
    /\ UNCHANGED <<linkServer, form>>

\* TryAgain: the button of a transient failure.
TryAgain ==
    /\ settled # None /\ settled.token = at /\ settled.outcome = "failed"
    /\ settled' = None
    /\ \E r \in Ask : VerifyOnce(at, r) /\ HearOnly(r)
    /\ UNCHANGED <<linkServer, at, moves, form, muddled>>

ServeAsk(r) ==
    /\ ask[r].at = "sent"
    /\ \E a \in {"ok", "INVALID_TOKEN"} :
          /\ SpendLink(ask[r].token, a)
          /\ ask' = [ask EXCEPT ![r].at = "answered", ![r].answer = a]
    /\ UNCHANGED <<at, settled, hears, memo, moves, form, muddled>>

\* LoseAsk: no answer comes, or a 408, 429 or 5xx; it may have taken effect.
LoseAsk(r) ==
    /\ ask[r].at \in {"sent", "answered"}
    /\ muddled' = IF ask[r].answer = "ok" THEN muddled \cup {ask[r].token} ELSE muddled
    /\ ask' = [ask EXCEPT ![r].at = "answered", ![r].answer = "failed"]
    /\ ask[r].answer # "failed"
    /\ UNCHANGED <<linkServer, at, settled, hears, memo, moves, form>>

\* SettleAsk: the promise settles, or a settled one meets a new listener.
SettleAsk(r) ==
    /\ \/ ask[r].at = "answered"
       \/ ask[r].at = "settled" /\ r \in hears
    /\ ask' = [ask EXCEPT ![r].at = "settled"]
    /\ Forget(r)
    /\ hears' = hears \ {r}
    /\ settled' = IF r \in hears
                  THEN [token |-> ask[r].token, outcome |-> ask[r].answer]
                  ELSE settled
    /\ UNCHANGED <<linkServer, at, moves, form, muddled>>

-----------------------------------------------------------------------------
(* The forms: a submission locks the form until its answer is there.       *)

Blank == [at |-> "editing", token |-> None, outcome |-> None]

\* OpenForm: the page is loaded, with the link it spends, and its user will
\* fill in the address that the link it asks for is for.
OpenForm(p, t) ==
    /\ form[p].at \notin {"submitting", "answered"}
    /\ t \in CASE p = "reset-password" -> ResetLink
               [] p = "sign-up" -> VerifyLink
               [] p = "forgot-password" -> {None}
    /\ form' = [form EXCEPT ![p] = [Blank EXCEPT !.token = t]]
    /\ UNCHANGED <<linkServer, verifyPage, muddled>>

SendForm(p) ==
    /\ form[p].at = "editing"
    /\ p # "forgot-password" => form[p].token # None
    /\ form' = [form EXCEPT ![p].at = "submitting", ![p].outcome = None]
    /\ UNCHANGED <<linkServer, verifyPage, muddled>>

ServeForm(p) ==
    /\ form[p].at = "submitting"
    /\ \E a \in {"ok", "INVALID_TOKEN", "EMAIL_ALREADY_REGISTERED"} :
          /\ CASE p = "sign-up" -> RegisterUser(form[p].token, a)
               [] p = "forgot-password" -> RequestPasswordReset(a)
               [] p = "reset-password" -> SpendLink(form[p].token, a)
          /\ form' = [form EXCEPT ![p].at = "answered", ![p].outcome = a]
    /\ UNCHANGED <<verifyPage, muddled>>

\* unwrap throws for an answer that is not a success: the form is shown again
\* with its error.
\* Unchecked, a faulty variant: an answer is a success.  StillLocked, another:
\* the form stays disabled after a failure.
Unchecked(f) == [f EXCEPT !.at = "done"]
StillLocked(f) == [f EXCEPT !.at = IF f.outcome = "ok" THEN "done" ELSE "answered"]
Unwrapped(f) == [f EXCEPT !.at = IF f.outcome = "ok" THEN "done" ELSE "editing"]

ShowAnswer(p) ==
    /\ form[p].at = "answered"
    /\ form' = [form EXCEPT ![p] = Unwrapped(@)]
    /\ UNCHANGED <<linkServer, verifyPage, muddled>>

LoseForm(p) ==
    /\ form[p].at \in {"submitting", "answered"}
    /\ muddled' = IF form[p].outcome = "ok" THEN muddled \cup {form[p].token} ELSE muddled
    /\ form' = [form EXCEPT ![p].at = "answered", ![p].outcome = "failed"]
    /\ form[p].outcome # "failed"
    /\ UNCHANGED <<linkServer, verifyPage>>

-----------------------------------------------------------------------------

LinksInit ==
    /\ account = [a \in VerifyLink |-> IF a \in Seeded THEN "unverified" ELSE "none"]
    /\ link = [l \in Link |-> IF l \in Seeded THEN "live" ELSE "unissued"]
    /\ spent = {}
    /\ at = None /\ settled = None /\ hears = {} /\ memo = 0 /\ moves = 0
    /\ ask = [r \in Ask |-> NoAsk]
    /\ form = [p \in FormPage |-> Blank]
    /\ muddled = {}

LinksNext ==
    \/ \E l \in Link : ExpireLink(l)
    \/ \E t \in VerifyLink, mounted \in BOOLEAN : VisitVerify(t, mounted)
    \/ TryAgain
    \/ \E r \in Ask : ServeAsk(r) \/ LoseAsk(r) \/ SettleAsk(r)
    \/ \E p \in FormPage :
          \/ \E t \in Link \cup {None} : OpenForm(p, t)
          \/ SendForm(p) \/ ServeForm(p) \/ ShowAnswer(p) \/ LoseForm(p)

LinksSpec == LinksInit /\ [][LinksNext]_linkvars

LinksFairness ==
    /\ \A r \in Ask : WF_linkvars(ServeAsk(r)) /\ WF_linkvars(SettleAsk(r))
    /\ \A p \in FormPage : WF_linkvars(ServeForm(p)) /\ WF_linkvars(ShowAnswer(p))

LinksFairSpec == LinksSpec /\ LinksFairness

-----------------------------------------------------------------------------
(* Properties.                                                             *)

\* The type of every variable.
LinksTypeOK ==
    /\ account \in [VerifyLink -> {"none", "unverified", "verified"}]
    /\ link \in [Link -> {"unissued", "live", "dead"}]
    /\ spent \subseteq Link /\ muddled \subseteq Link \cup {None}
    /\ at \in VerifyLink \cup {None}
    /\ settled \in {None} \cup [token : VerifyLink, outcome : LinkOutcome]
    /\ hears \subseteq Ask /\ memo \in 0..MaxAsks /\ moves \in 0..MaxMoves
    /\ ask \in [Ask -> [at : {"unused", "sent", "answered", "settled"},
                        token : VerifyLink \cup {None}, answer : LinkOutcome \cup {None}]]
    /\ form \in [FormPage -> [at : {"editing", "submitting", "answered", "done"},
                              token : Link \cup {None}, outcome : LinkOutcome \cup {None}]]

\* A screen that says it worked is true: the link took effect, the account is
\* there.  The client resolves normally for a non-2xx answer, so each page
\* must look (session-requests.ts:186).
SuccessIsTrue ==
    /\ settled # None /\ settled.outcome = "ok" => settled.token \in spent
    /\ \A p \in DOMAIN form : form[p].at = "done" =>
          CASE p = "reset-password" -> form[p].token \in spent
            [] p = "sign-up" -> account[form[p].token] # "none"
            [] p = "forgot-password" -> TRUE

\* "Verification failed" is never shown for a link this browser verified
\* itself (session-requests.ts:113), whichever effects ran again, with two
\* exceptions: the answer was lost after the link was spent, or the user went
\* to another link and came back, which the memo of one entry forgets.
FailureIsTrue ==
    settled # None /\ settled.outcome = "INVALID_TOKEN" /\ settled.token \in spent =>
        settled.token \in muddled

\* /verify-email shows an outcome for the link it is at, whatever answers
\* arrive late (verify-email/page.tsx:60), and Try again asks again.
Verifying(t) == at = t /\ (settled = None \/ settled.token # t)
VerifyingEnds == \A t \in VerifyLink : Verifying(t) ~> ~Verifying(t)

\* A try after a transient failure is a real one: it is not answered from the
\* memo (session-requests.ts:120).
RetriesAreReal ==
    [][settled # None /\ settled' = None /\ at' = at /\ moves' = moves =>
          \E r \in DOMAIN ask : hears' = {r} /\ ask'[r].at # "settled"]_linkvars

\* The pages of the emailed links say that it worked only if it did, and that
\* it failed only if it did or an answer was lost; Try again tries again
\* (session-requests.ts:113, 120).
OutcomesAreTrue == [](SuccessIsTrue /\ FailureIsTrue) /\ RetriesAreReal

\* A form that was submitted can be used again or is done.
Locked(p) == form[p].at \in {"submitting", "answered"}
FormsUnlock == \A p \in FormPage : Locked(p) ~> ~Locked(p)

\* "If it stops working just sign up again with the same address"
\* (sign-up/page.tsx:82, docs/product/auth.md:37): a sign-up for an address
\* that was never verified and has no working link is given a fresh one.
SignUpAgainRenews ==
    \A p \in DOMAIN form : form[p].outcome = "EMAIL_ALREADY_REGISTERED" =>
        account[form[p].token] = "verified" \/ link[form[p].token] = "live"
=============================================================================
