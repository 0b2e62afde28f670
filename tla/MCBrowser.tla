----------------------------- MODULE MCBrowser -----------------------------
(***************************************************************************)
(* The components that do not share state with one another, each on small  *)
(* instances of its own: the mutation rate limiter of the API, those of    *)
(* the browser and the development script.  Each component is extended;    *)
(* one that is checked on several instances is instantiated for the others.*)
(*                                                                         *)
(* `part` names the instance a behaviour is about.  It never changes; the  *)
(* variables of the other components stay as they were at first.  Two      *)
(* instances of one component use the same variables.                      *)
(***************************************************************************)
EXTENDS MutationRateLimiter, BrowserSession, CsvImport, EmailLinks, Dashboard, DevStack, TLC

CONSTANTS
    t1, t2, q1, q2, v1, v2, r1, i1, i2, c1,
    Parts          \* the instances that are checked

VARIABLE part

all == <<part, vars, session, import, linkvars, cvars, tvars, evars, newvars, dvars,
         datevars, devvars>>

-----------------------------------------------------------------------------
(* The instances.                                                          *)

\* OneTab is the session as it is extended: two queries share a refresh in t1,
\* and t2 stays closed.  In Again its access token expires and its user may
\* sign in a second time.  In TwoTabs both tabs share the jar.
MCRedirectParam == {"/", None}
TwoTabs == INSTANCE BrowserSession WITH
    Query <- {}, MaxLoads <- 3, MaxFaults <- 0
Again == INSTANCE BrowserSession WITH
    Query <- {q1}, MaxLogins <- 2, MaxExpiries <- 1, MaxFaults <- 0,
    RedirectParam <- {"/", "elsewhere", None}
OneTabNext == SessionNext /\ status'[t2] = "closed"
AgainNext == Again!SessionNext /\ status'[t2] = "closed"

\* Two files that parse, one with a row the API refuses, and one that does not.
MCRows == [june |-> <<"good", "good", "good">>,
           july |-> <<"good", "good", "good", "good", "refused">>,
           torn |-> <<"good", "malformed">>]

\* Two verification links and the page they lead to, as it is extended; the
\* forms, in pairs.
SignUp == INSTANCE EmailLinks WITH
    VerifyLink <- {v1}, ResetLink <- {r1}, Seeded <- {},
    FormPage <- {"sign-up", "reset-password"}, MaxAsks <- 1, MaxMoves <- 1
Forgot == INSTANCE EmailLinks WITH
    VerifyLink <- {v1}, ResetLink <- {r1}, Seeded <- {},
    FormPage <- {"forgot-password", "reset-password"}, MaxAsks <- 1, MaxMoves <- 1

\* A rename and a bulk delete, seen by the list of transactions, since no list
\* depends on another; and each hook by itself, seen by a list of its own too.
Hooks == DOMAIN Hook
Own(c) == CASE "accounts" \in Affects(c) -> "accounts"
            [] "categories" \in Affects(c) -> "categories"
            [] OTHER -> "summary"
OneChange(c) == INSTANCE QueryCache WITH
    List <- {Own(c), "transactions"}, Change <- {c}, Path <- {"/transactions"}

\* The sheet for categories is the one that is extended, and loses the
\* connection once; that for transactions has another writer, of the one row
\* it is opened for.
AccountSheets == INSTANCE EditSheet WITH Sheet <- "account", MaxOffline <- 0
TransactionSheets == INSTANCE EditSheet WITH
    Sheet <- "transaction", MaxOffline <- 0, MaxChanges <- 1
OneRowNext == TransactionSheets!EditNext /\ sheet' # i2 /\ row'[i2] = row[i2]

\* The months of 2023 to 2025; three days on which the years and the lengths
\* of the months bite, and every day of two of the years.
MCMonths == <<0, 31, 59, 90, 120, 151, 181, 212, 243, 273, 304, 334,
              365, 396, 425, 456, 486, 517, 547, 578, 609, 639, 670, 700,
              731, 762, 790, 821, 851, 882, 912, 943, 974, 1004, 1035, 1065, 1096>>
MCSkew == {-1, 1}
EveryDay == INSTANCE DateFilter WITH
    Today <- 365..1095, Skew <- {0},
    Account <- {c1}, Preset <- {}, FirstFrom <- {None}, MaxPushes <- 0

MCZone == {-24, -6, 7, 28}

\* Of the modules that are extended TLC checks the assumptions by itself.
ASSUME Constants ==
    /\ TwoTabs!SessionConstants /\ Again!SessionConstants /\ Batches!BatchUploadConstants
    /\ SignUp!LinksAssumption /\ Forgot!LinksAssumption
    /\ AccountSheets!EditAssumption /\ TransactionSheets!EditAssumption
    /\ EveryDay!FilterAssumption /\ EveryDay!CalendarAssumption

-----------------------------------------------------------------------------
(* The union.                                                              *)

Session == {"OneTab", "Again", "TwoTabs"}
Emails == {"Verify", "SignUp", "Forgot"}
Caches == {"Lists"} \cup Hooks
Sheets == {"AccountSheet", "CategorySheet", "TransactionSheet"}
Headers == {"Filters", "EveryDay"}
Every == Session \cup {"Import"} \cup Emails \cup Caches \cup {"Table"} \cup Sheets
             \cup {"Fresh"} \cup Headers \cup {"Dates", "Script", "Limiter"}

ASSUME Parts \subseteq Every

\* Each component begins as the instance that is checked, if it is one of its
\* own, and otherwise as any other of them, in one state.
BrowserInit ==
    /\ part \in Parts
    /\ Init
    /\ CASE part = "TwoTabs" -> TwoTabs!SessionInit
         [] part = "Again" -> Again!SessionInit
         [] OTHER -> SessionInit /\ (part = "OneTab" \/ logins = 0)
    /\ ImportInit
    /\ CASE part = "Verify" -> LinksInit [] part = "Forgot" -> Forgot!LinksInit
         [] OTHER -> SignUp!LinksInit
    /\ IF part \in Hooks THEN \E c \in Hooks : part = c /\ OneChange(c)!CacheInit
                        ELSE CacheInit /\ (part = "Lists" \/ showing = "/")
    /\ TableInit /\ NewInit
    /\ IF part = "TransactionSheet" THEN TransactionSheets!EditInit ELSE EditInit
    /\ IF part = "EveryDay" THEN EveryDay!FilterInit
       ELSE FilterInit /\ (part = "Filters" \/ (today = 455 /\ skew = 1 /\ past = 1 /\ url.from = None))
    /\ DatesInit /\ (part = "Dates" \/ (zone = 7 /\ springs = None /\ storedDay = 1))
    /\ StackInit

\* The components whose instances P are not checked stay as they are.
Still(P, v) == IF part \in P THEN TRUE ELSE UNCHANGED v

Others ==
    /\ UNCHANGED part
    /\ Still({"Limiter"}, vars)
    /\ Still(Session, session)
    /\ Still({"Import"}, import)
    /\ Still(Emails, linkvars)
    /\ Still(Caches, cvars)
    /\ Still({"Table"}, tvars)
    /\ Still(Sheets, evars)
    /\ Still({"Fresh"}, newvars)
    /\ Still(Headers, dvars)
    /\ Still({"Dates"}, datevars)
    /\ Still({"Script"}, devvars)

BrowserNext ==
    \/ part = "Limiter" /\ Next /\ Others
    \/ part = "OneTab" /\ OneTabNext /\ Others
    \/ part = "Again" /\ AgainNext /\ Others
    \/ part = "TwoTabs" /\ TwoTabs!SessionNext /\ Others
    \/ part = "Import" /\ ImportNext /\ Others
    \/ part = "Verify" /\ LinksNext /\ Others
    \/ part = "SignUp" /\ SignUp!LinksNext /\ Others
    \/ part = "Forgot" /\ Forgot!LinksNext /\ Others
    \/ part = "Lists" /\ CacheNext /\ Others
    \/ \E c \in Hooks : part = c /\ OneChange(c)!CacheNext /\ Others
    \/ part = "Table" /\ TableNext /\ Others
    \/ part = "AccountSheet" /\ AccountSheets!EditNext /\ Others
    \/ part = "CategorySheet" /\ EditNext /\ Others
    \/ part = "TransactionSheet" /\ OneRowNext /\ Others
    \/ part = "Fresh" /\ NewNext /\ Others
    \/ part = "Filters" /\ FilterNext /\ Others
    \/ part = "EveryDay" /\ EveryDay!FilterNext /\ Others
    \/ part = "Dates" /\ DatesNext /\ Others
    \/ part = "Script" /\ StackNext /\ Others

BrowserSpec == BrowserInit /\ [][BrowserNext]_all

\* Of the fairness each component states, what its properties need, while it
\* is the one that is checked.
FairSession ==
    /\ \A t \in {t1, t2} :
          /\ WF_session(part \in Session /\ Serve(t, "bootstrap"))
          /\ WF_session(part \in Session /\ Deliver(t, "bootstrap"))
          /\ WF_session(part \in Session /\ GuardRedirects(t))
          /\ WF_session(part \in Session /\ SignInRedirects(t))
    /\ WF_session(part = "OneTab" /\ Serve(t1, "refresh"))
    /\ WF_session(part = "OneTab" /\ Deliver(t1, "refresh"))

FairImport ==
    /\ WF_import(part = "Import" /\ \E a \in Attempt : ServeChunk(a))
    /\ WF_import(part = "Import" /\ \E a \in Attempt : DeliverChunk(a))

FairEmails ==
    /\ WF_linkvars(part = "Verify" /\ \E r \in Ask : ServeAsk(r))
    /\ WF_linkvars(part = "Verify" /\ \E r \in Ask : SettleAsk(r))
    /\ \A p \in {"sign-up", "reset-password"} :
          /\ WF_linkvars(part = "SignUp" /\ SignUp!ServeForm(p))
          /\ WF_linkvars(part = "SignUp" /\ SignUp!ShowAnswer(p))
    /\ WF_linkvars(part = "Forgot" /\ Forgot!ServeForm("forgot-password"))
    /\ WF_linkvars(part = "Forgot" /\ Forgot!ShowAnswer("forgot-password"))

FairCaches ==
    /\ WF_cvars(part = "Lists" /\ ServeFetch("transactions"))
    /\ WF_cvars(part = "Lists" /\ DeliverFetch("transactions"))

FairScript ==
    /\ WF_devvars(part = "Script" /\ \E c \in Child : ToldExit(c))
    /\ WF_devvars(part = "Script" /\ \E c \in Child : HearExit(c))

BrowserFairSpec ==
    /\ BrowserSpec
    /\ FairSession /\ FairImport /\ FairEmails /\ FairCaches /\ FairScript

-----------------------------------------------------------------------------
(* The properties of the components, each about the instances of its own.  *)
(* A formula about steps, or about what comes next, is evaluated in every  *)
(* state, so it is one that all instances of its component share, or its   *)
(* predicates are asked of one instance only.                              *)

In(p, predicate) == part = p /\ predicate

\* Every variable of the component that runs has its type.
PartsTypeOK ==
    CASE part = "OneTab" -> SessionTypeOK
      [] part = "Again" -> Again!SessionTypeOK
      [] part = "TwoTabs" -> TwoTabs!SessionTypeOK
      [] part = "Import" -> ImportTypeOK
      [] part = "Verify" -> LinksTypeOK
      [] part = "SignUp" -> SignUp!LinksTypeOK
      [] part = "Forgot" -> Forgot!LinksTypeOK
      [] part = "Lists" -> CacheTypeOK
      [] part \in Hooks -> \E c \in Hooks : part = c /\ OneChange(c)!CacheTypeOK
      [] part = "Table" -> TableTypeOK
      [] part = "AccountSheet" -> AccountSheets!EditTypeOK
      [] part = "CategorySheet" -> EditTypeOK
      [] part = "TransactionSheet" -> TransactionSheets!EditTypeOK
      [] part = "Fresh" -> NewTypeOK
      [] part = "Filters" -> FilterTypeOK
      [] part = "EveryDay" -> EveryDay!FilterTypeOK
      [] part = "Dates" -> DatesTypeOK
      [] part = "Script" -> StackTypeOK
      [] part = "Limiter" -> TypeOK

\* What is sent comes to an end that its sender hears of: a query that waits
\* for the shared refresh, an import with its last chunk, the forms, and
\* /verify-email, which comes to show the outcome of the link it is at; and
\* when one of the two processes of `bun dev` ends the other follows
\* (authenticated-fetch.ts:106, dev-local.ts:269, page.tsx:91,
\* session-requests.ts:186, verify-email/page.tsx:60).
Pending(n) ==
    CASE part = "OneTab" -> Waits(t1, <<q1, q2>>[n])
      [] part = "Import" -> Submitting(n)
      [] part = "SignUp" -> SignUp!Locked(<<"sign-up", "reset-password">>[n])
      [] part = "Verify" -> Verifying(<<v1, v2>>[n])
      [] part = "Forgot" -> n = 1 /\ Forgot!Locked("forgot-password")
      [] OTHER -> FALSE
EverythingSettles == (\A n \in {1, 2} : Pending(n) ~> ~Pending(n)) /\ OneDownAllDown

\* A page comes to show what a reported change made of its lists.
PageCatchesUp ==
    In("Lists", Touched("transactions")) ~> In("Lists", CaughtUp("transactions"))
=============================================================================
