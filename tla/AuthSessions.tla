---------------------------- MODULE AuthSessions ----------------------------
(***************************************************************************)
(* The authentication handlers of backend/internal/http/auth.go, run       *)
(* concurrently by request goroutines over one PostgreSQL database.        *)
(*                                                                         *)
(* The database is READ COMMITTED: every statement sees what was committed *)
(* when it started, an UPDATE waits for the row locks of other open        *)
(* transactions and then looks at the newest committed version of the row, *)
(* and nothing a transaction wrote is seen by others before its COMMIT.    *)
(* A request is therefore a sequence of statements, one action each; its   *)
(* writes are kept in the request until it commits, its row locks follow   *)
(* from them.                                                              *)
(*                                                                         *)
(* A request slot of Req may serve any number of requests, one at a time.  *)
(* An arrival that the handler answers without a write and without waiting *)
(* (malformed body, unknown email, wrong password, unverified login,       *)
(* duplicate registration, expired or unknown token) changes no state and  *)
(* is not an action.                                                       *)
(***************************************************************************)
EXTENDS Naturals, FiniteSets

CONSTANTS
    User,                   \* email addresses; a registered one has a users row
    Password,
    RefreshTok,             \* rows refresh_tokens may come to hold
    ResetTok,               \* rows password_reset_tokens may come to hold
    VerifyTok,              \* rows email_verification_tokens may come to hold
    Owner,                  \* the user each token row is (or will be) issued to
    Req,                    \* request slots: goroutines serving a request
    Seeded,                 \* users registered and verified before the run
    InitialPassword,        \* the password of the seeded users
    Ops,                    \* which endpoints receive requests (a bound)
    Perishable,             \* tokens whose expiry the run explores (a bound)
    MaxResetTokensPerHour,  \* maxResetTokensPerHour, auth.go
    None

Token == RefreshTok \cup ResetTok \cup VerifyTok

AllOps == {"register", "login", "refresh", "logout", "verify", "issue", "confirm"}

ASSUME TokensAssumption ==
    /\ RefreshTok \cap ResetTok = {}
    /\ RefreshTok \cap VerifyTok = {}
    /\ ResetTok \cap VerifyTok = {}
    /\ IsFiniteSet(ResetTok)
    /\ Owner \in [Token -> User]

ASSUME ParametersAssumption ==
    /\ Seeded \subseteq User
    /\ InitialPassword \in Password
    /\ Ops \subseteq AllOps
    /\ Perishable \subseteq Token
    /\ MaxResetTokensPerHour \in Nat \ {0}

ASSUME NoneAssumption == None \notin User \cup Password \cup Token

VARIABLES
    registered,  \* users with a committed row
    verified,    \* of those, email_verified_at IS NOT NULL
    password,    \* password_hash (a password and its hash are identified)
    status,      \* each token row: "fresh" (not inserted), "live", "used"
    expired,     \* tokens whose expires_at has passed
    recent,      \* reset tokens created within the last hour
    mailed,      \* tokens whose link reached the user's mailbox
    root,        \* history: the login a refresh token descends from
    txn          \* the request each slot is serving

db == <<registered, verified, password, status, expired, recent, mailed, root>>
vars == <<registered, verified, password, status, expired, recent, mailed, root, txn>>

-----------------------------------------------------------------------------
(* Requests.                                                               *)
(*   op, pc  the endpoint, and the statement it executes next              *)
(*   who     the user it acts for; tok the token presented; pw the password*)
(*           presented (login, as verified) or to be set                   *)
(*   new     the token it will insert                                      *)
(*   lock    the row lock it holds on the users row of who                 *)
(*   kill    token rows it has marked used or revoked, uncommitted: locked *)
(*   todo    rows its current multi-row UPDATE still has to visit          *)
(*   prior   history: the sessions of who when confirm consumed its token  *)

LockMode == {"none", "keyShare", "noKeyUpdate", "update"}

Pc == {"idle", "consume", "insert", "markVerified", "setPassword", "lockUser",
       "count", "invalidate", "revokeAll", "commit"}

Transaction ==
    [op : AllOps \cup {"none"}, pc : Pc, who : User \cup {None}, tok : Token \cup {None},
     pw : Password \cup {None}, new : Token \cup {None}, lock : LockMode,
     kill : SUBSET Token, todo : SUBSET Token, prior : SUBSET RefreshTok]

Request(op, pc, who, tok, pw, new) ==
    [op |-> op, pc |-> pc, who |-> who, tok |-> tok, pw |-> pw, new |-> new,
     lock |-> "none", kill |-> {}, todo |-> {}, prior |-> {}]

NoTxn == Request("none", "idle", None, None, None, None)

\* The statements an endpoint goes through, and the arguments it has.
WellFormed(x) ==
    /\ x.op = "none" <=> x.pc = "idle"
    /\ x.op = "register" => x.pc = "commit" /\ x.new \in VerifyTok
    /\ x.op = "login" => x.pc = "insert" /\ x.new \in RefreshTok
    /\ x.op = "refresh" => /\ x.pc \in {"consume", "insert", "commit"}
                           /\ x.new \in RefreshTok /\ x.tok \in RefreshTok
    /\ x.op = "logout" => x.pc = "consume" /\ x.tok \in RefreshTok
    /\ x.op = "verify" => x.pc \in {"consume", "markVerified", "commit"} /\ x.tok \in VerifyTok
    /\ x.op = "issue" => /\ x.pc \in {"lockUser", "count", "invalidate", "insert"}
                         /\ x.new \in ResetTok
    /\ x.op = "confirm" => /\ x.pc \in {"consume", "setPassword", "invalidate", "revokeAll", "commit"}
                           /\ x.tok \in ResetTok
    /\ x.op # "none" => x.who \in User
    /\ x.op \in {"register", "login", "confirm"} => x.pw \in Password
    /\ x.op \in {"none", "logout", "verify", "confirm"} => x.new = None
    /\ x.new # None => Owner[x.new] = x.who
    /\ x.tok # None => Owner[x.tok] = x.who

TypeOK ==
    /\ registered \subseteq User
    /\ verified \subseteq User
    /\ password \in [User -> Password]
    /\ status \in [Token -> {"fresh", "live", "used"}]
    /\ expired \subseteq Token
    /\ recent \subseteq ResetTok
    /\ mailed \subseteq ResetTok \cup VerifyTok
    /\ root \in [RefreshTok -> RefreshTok]
    /\ txn \in [Req -> Transaction]
    /\ \A r \in Req : WellFormed(txn[r])

Init ==
    /\ registered = Seeded
    /\ verified = Seeded
    /\ password = [u \in User |-> InitialPassword]
    /\ status = [t \in Token |-> "fresh"]
    /\ expired = {}
    /\ recent = {}
    /\ mailed = {}
    /\ root = [t \in RefreshTok |-> t]
    /\ txn = [r \in Req |-> NoTxn]

Live(toks, u) == {t \in toks : Owner[t] = u /\ status[t] = "live"}

RecentTokens(u) == {t \in recent : Owner[t] = u}

\* Token values not yet generated by any request.  Requests that will insert
\* a row arrive only while one is left: the pool bounds the run.
Unissued(toks, u) ==
    {t \in toks : /\ Owner[t] = u
                  /\ status[t] = "fresh"
                  /\ \A r \in Req : txn[r].new # t}

-----------------------------------------------------------------------------
(* PostgreSQL row locks.                                                   *)

\* The row-level lock conflict table, for the three modes taken on users.
Conflicts(m, n) ==
    \/ m = "update" /\ n # "none"
    \/ n = "update" /\ m # "none"
    \/ m = "noKeyUpdate" /\ n = "noKeyUpdate"

\* The other transactions r would wait for to lock token row t.
RowHolders(r, t) == {q \in Req \ {r} : t \in txn[q].kill}

\* The other transactions r would wait for to lock the users row of u.
UserHolders(r, u, mode) ==
    {q \in Req \ {r} : txn[q].who = u /\ Conflicts(txn[q].lock, mode)}

UserFree(r, mode) == UserHolders(r, txn[r].who, mode) = {}

Idle(r, op) == op \in Ops /\ txn[r].pc = "idle"

At(r, op, pc) == txn[r].op = op /\ txn[r].pc = pc

\* COMMIT of the token rows r touched.
Publish(r) ==
    status' = [t \in Token |-> IF t \in txn[r].kill THEN "used"
                               ELSE IF t = txn[r].new THEN "live"
                               ELSE status[t]]

\* Slot r continues as request x, the others as they were.
Serve(r, x) == txn' = [txn EXCEPT ![r] = x]

\* The end of a transaction, either way, frees its locks and its slot.
Finish(r) == Serve(r, NoTxn)

\* After commit the handler starts a goroutine that mails the link and only
\* logs a failure: the mail arrives, or it does not (SMTP error, crash, or a
\* COMMIT whose answer was lost, after which the handler does not send).
SendAsync(t) == mailed' \in {mailed, mailed \cup {t}}

\* First statement of the token endpoints: an UPDATE guarded by "still unused"
\* that waits while another transaction holds the row.  Whether the token had
\* expired is decided by now(), the start of the transaction.
CanConsume(r, op) ==
    /\ At(r, op, "consume")
    /\ status[txn[r].tok] = "live"
    /\ RowHolders(r, txn[r].tok) = {}

\* No row matched: the token was used in the meantime.  401, rollback.
ConsumeRejected(r) ==
    /\ txn[r].pc = "consume"
    /\ status[txn[r].tok] = "used"
    /\ Finish(r)
    /\ UNCHANGED db

-----------------------------------------------------------------------------
(* Faulty variants of statements below, the kind of mistake each property  *)
(* is there to catch.  No specification uses them.                         *)

\* the email is not unique
CreateUserNotUnique(r, u, p) ==
    /\ Idle(r, "register")
    /\ u \notin registered
    /\ \E t \in Unissued(VerifyTok, u) :
         Serve(r, Request("register", "commit", u, None, p, t))
    /\ UNCHANGED db

\* the mail leaves before COMMIT
CreateUserMailFirst(r, u, p) ==
    /\ Idle(r, "register")
    /\ u \notin registered
    /\ \A q \in Req : ~(txn[q].op = "register" /\ txn[q].who = u)
    /\ \E t \in Unissued(VerifyTok, u) :
         /\ Serve(r, Request("register", "commit", u, None, p, t))
         /\ SendAsync(t)
    /\ UNCHANGED <<registered, verified, password, status, expired, recent, root>>

\* a validity read, then a revoke
ConsumeRefreshUnlocked(r) ==
    /\ At(r, "refresh", "consume")
    /\ status[txn[r].tok] = "live"
    /\ Serve(r, [txn[r] EXCEPT !.pc = "insert", !.kill = {txn[r].tok}])
    /\ UNCHANGED db

\* consumed outside the transaction
ConsumeRefreshOnPool(r) ==
    /\ CanConsume(r, "refresh")
    /\ status' = [status EXCEPT ![txn[r].tok] = "used"]
    /\ Serve(r, [txn[r] EXCEPT !.pc = "insert"])
    /\ UNCHANGED <<registered, verified, password, expired, recent, mailed, root>>

\* no token is generated
BeginIssueNoToken(r, u) ==
    /\ Idle(r, "issue")
    /\ u \in registered
    /\ Serve(r, Request("issue", "lockUser", u, None, None, None))
    /\ UNCHANGED db

\* a SELECT without FOR UPDATE
LockUserPlain(r) ==
    /\ At(r, "issue", "lockUser")
    /\ Serve(r, [txn[r] EXCEPT !.pc = "count"])
    /\ UNCHANGED db

\* > for >=
CountRecentOffByOne(r) ==
    /\ At(r, "issue", "count")
    /\ \/ /\ Cardinality(RecentTokens(txn[r].who)) > MaxResetTokensPerHour
          /\ Finish(r)
       \/ /\ Cardinality(RecentTokens(txn[r].who)) <= MaxResetTokensPerHour
          /\ Serve(r, [txn[r] EXCEPT !.pc = "invalidate"])
    /\ UNCHANGED db

\* at the cap the transaction is left open
CountRecentKeepsLock(r) ==
    /\ At(r, "issue", "count")
    /\ Cardinality(RecentTokens(txn[r].who)) < MaxResetTokensPerHour
    /\ Serve(r, [txn[r] EXCEPT !.pc = "invalidate"])
    /\ UNCHANGED db

\* consumed outside the transaction
ConsumeResetOnPool(r) ==
    /\ CanConsume(r, "confirm")
    /\ status' = [status EXCEPT ![txn[r].tok] = "used"]
    /\ Serve(r, [txn[r] EXCEPT !.pc = "setPassword", !.prior = Live(RefreshTok, txn[r].who)])
    /\ UNCHANGED <<registered, verified, password, expired, recent, mailed, root>>

\* the stronger row lock
UpdatePasswordForUpdate(r) ==
    /\ At(r, "confirm", "setPassword")
    /\ UserFree(r, "update")
    /\ Serve(r, [txn[r] EXCEPT !.pc = "invalidate", !.lock = "update"])
    /\ UNCHANGED db

\* rows held by others are skipped
RevokeAllSkipLocked(r) ==
    /\ At(r, "confirm", "revokeAll")
    /\ txn[r].todo = {}
    /\ Serve(r, [txn[r] EXCEPT !.pc = "commit",
                               !.todo = {t \in Live(RefreshTok, txn[r].who) : RowHolders(r, t) = {}}])
    /\ UNCHANGED db

-----------------------------------------------------------------------------
(* POST /api/auth/register                                                 *)

\* BEGIN, CreateUser, CreateEmailVerificationToken.  The unique index on email
\* makes the insert wait for another open registration of the same email; a
\* registered email is a 409.
CreateUser(r, u, p) ==
    /\ Idle(r, "register")
    /\ u \notin registered
    /\ \A q \in Req : ~(txn[q].op = "register" /\ txn[q].who = u)
    /\ \E t \in Unissued(VerifyTok, u) :
         Serve(r, Request("register", "commit", u, None, p, t))
    /\ UNCHANGED db

CommitRegister(r) ==
    /\ At(r, "register", "commit")
    /\ registered' = registered \cup {txn[r].who}
    /\ password' = [password EXCEPT ![txn[r].who] = txn[r].pw]
    /\ Publish(r)
    /\ SendAsync(txn[r].new)
    /\ Finish(r)
    /\ UNCHANGED <<verified, expired, recent, root>>

-----------------------------------------------------------------------------
(* POST /api/auth/login                                                    *)

\* GetUserByEmail, and the checks on the row it returned: the password sent is
\* the one stored and the email is verified.  No transaction is open.
VerifyLogin(r, u) ==
    /\ Idle(r, "login")
    /\ u \in registered
    /\ u \in verified
    /\ \E t \in Unissued(RefreshTok, u) :
         Serve(r, Request("login", "insert", u, None, password[u], t))
    /\ UNCHANGED db

\* CreateRefreshToken on the pool: committed at once.  Its foreign key check
\* takes FOR KEY SHARE on the users row.
MintSession(r) ==
    /\ At(r, "login", "insert")
    /\ UserFree(r, "keyShare")
    /\ Publish(r)
    /\ Finish(r)
    /\ UNCHANGED <<registered, verified, password, expired, recent, mailed, root>>

-----------------------------------------------------------------------------
(* POST /api/auth/refresh and /api/auth/logout                             *)

BeginRefresh(r, t) ==
    /\ Idle(r, "refresh")
    /\ status[t] # "fresh"
    /\ t \notin expired
    /\ \E n \in Unissued(RefreshTok, Owner[t]) :
         Serve(r, Request("refresh", "consume", Owner[t], t, None, n))
    /\ UNCHANGED db

ConsumeRefreshToken(r) ==
    /\ CanConsume(r, "refresh")
    /\ Serve(r, [txn[r] EXCEPT !.pc = "insert", !.kill = {txn[r].tok}])
    /\ UNCHANGED db

CreateRefreshToken(r) ==
    /\ At(r, "refresh", "insert")
    /\ UserFree(r, "keyShare")
    /\ Serve(r, [txn[r] EXCEPT !.pc = "commit", !.lock = "keyShare"])
    /\ UNCHANGED db

CommitRefresh(r) ==
    /\ At(r, "refresh", "commit")
    /\ root' = [root EXCEPT ![txn[r].new] = root[txn[r].tok]]
    /\ Publish(r)
    /\ Finish(r)
    /\ UNCHANGED <<registered, verified, password, expired, recent, mailed>>

BeginLogout(r, t) ==
    /\ Idle(r, "logout")
    /\ status[t] # "fresh"
    /\ t \notin expired
    /\ Serve(r, Request("logout", "consume", Owner[t], t, None, None))
    /\ UNCHANGED db

\* ConsumeRefreshToken on the pool: committed at once.
ConsumeLogout(r) ==
    /\ CanConsume(r, "logout")
    /\ status' = [status EXCEPT ![txn[r].tok] = "used"]
    /\ Finish(r)
    /\ UNCHANGED <<registered, verified, password, expired, recent, mailed, root>>

-----------------------------------------------------------------------------
(* POST /api/auth/verify-email                                             *)

BeginVerify(r, t) ==
    /\ Idle(r, "verify")
    /\ t \in mailed \ expired
    /\ Serve(r, Request("verify", "consume", Owner[t], t, None, None))
    /\ UNCHANGED db

ConsumeEmailVerificationToken(r) ==
    /\ CanConsume(r, "verify")
    /\ Serve(r, [txn[r] EXCEPT !.pc = "markVerified", !.kill = {txn[r].tok}])
    /\ UNCHANGED db

\* No row to update, and so none to lock, when the user already is verified.
MarkUserEmailVerified(r) ==
    /\ At(r, "verify", "markVerified")
    /\ \/ /\ txn[r].who \in verified
          /\ Serve(r, [txn[r] EXCEPT !.pc = "commit"])
       \/ /\ txn[r].who \notin verified
          /\ UserFree(r, "noKeyUpdate")
          /\ Serve(r, [txn[r] EXCEPT !.pc = "commit", !.lock = "noKeyUpdate"])
    /\ UNCHANGED db

CommitVerify(r) ==
    /\ At(r, "verify", "commit")
    /\ verified' = verified \cup {txn[r].who}
    /\ Publish(r)
    /\ Finish(r)
    /\ UNCHANGED <<registered, password, expired, recent, mailed, root>>

-----------------------------------------------------------------------------
(* Statements that mark every outstanding token of a user as used.  The    *)
(* rows are those the statement's snapshot shows; rows held by another     *)
(* transaction are waited for, and skipped if it used them.                *)

VisitRow(r, t) ==
    /\ t \in txn[r].todo
    /\ RowHolders(r, t) = {}
    /\ Serve(r, [txn[r] EXCEPT !.todo = txn[r].todo \ {t},
                               !.kill = IF status[t] = "live" THEN txn[r].kill \cup {t} ELSE txn[r].kill])
    /\ UNCHANGED db

\* InvalidateUserPasswordResetTokens, in both transactions that execute it; a
\* row the transaction itself has used is not outstanding for it.
InvalidateUserPasswordResetTokens(r) ==
    /\ txn[r].pc = "invalidate"
    /\ Serve(r, [txn[r] EXCEPT !.pc = IF txn[r].op = "issue" THEN "insert" ELSE "revokeAll",
                               !.todo = Live(ResetTok, txn[r].who) \ txn[r].kill])
    /\ UNCHANGED db

-----------------------------------------------------------------------------
(* POST /api/auth/password-reset/request                                   *)

\* GetUserByEmail found the user; issuePasswordResetToken begins.
BeginIssue(r, u) ==
    /\ Idle(r, "issue")
    /\ u \in registered
    /\ \E n \in Unissued(ResetTok, u) :
         Serve(r, Request("issue", "lockUser", u, None, None, n))
    /\ UNCHANGED db

LockUser(r) ==
    /\ At(r, "issue", "lockUser")
    /\ UserFree(r, "update")
    /\ Serve(r, [txn[r] EXCEPT !.pc = "count", !.lock = "update"])
    /\ UNCHANGED db

\* At the cap the transaction commits with nothing written and no mail is sent.
CountRecentPasswordResetTokens(r) ==
    /\ At(r, "issue", "count")
    /\ \/ /\ Cardinality(RecentTokens(txn[r].who)) >= MaxResetTokensPerHour
          /\ Finish(r)
       \/ /\ Cardinality(RecentTokens(txn[r].who)) < MaxResetTokensPerHour
          /\ Serve(r, [txn[r] EXCEPT !.pc = "invalidate"])
    /\ UNCHANGED db

\* CreatePasswordResetToken and COMMIT: the insert cannot wait, the
\* transaction holds the users row FOR UPDATE already.
CommitIssue(r) ==
    /\ At(r, "issue", "insert")
    /\ txn[r].todo = {}
    /\ recent' = recent \cup {txn[r].new}
    /\ Publish(r)
    /\ SendAsync(txn[r].new)
    /\ Finish(r)
    /\ UNCHANGED <<registered, verified, password, expired, root>>

-----------------------------------------------------------------------------
(* POST /api/auth/password-reset/confirm                                   *)

BeginConfirm(r, t, p) ==
    /\ Idle(r, "confirm")
    /\ t \in mailed \ expired
    /\ Serve(r, Request("confirm", "consume", Owner[t], t, p, None))
    /\ UNCHANGED db

ConsumePasswordResetToken(r) ==
    /\ CanConsume(r, "confirm")
    /\ Serve(r, [txn[r] EXCEPT !.pc = "setPassword", !.kill = {txn[r].tok},
                               !.prior = Live(RefreshTok, txn[r].who)])
    /\ UNCHANGED db

UpdateUserPassword(r) ==
    /\ At(r, "confirm", "setPassword")
    /\ UserFree(r, "noKeyUpdate")
    /\ Serve(r, [txn[r] EXCEPT !.pc = "invalidate", !.lock = "noKeyUpdate"])
    /\ UNCHANGED db

RevokeAllUserRefreshTokens(r) ==
    /\ At(r, "confirm", "revokeAll")
    /\ txn[r].todo = {}
    /\ Serve(r, [txn[r] EXCEPT !.pc = "commit", !.todo = Live(RefreshTok, txn[r].who)])
    /\ UNCHANGED db

CommitConfirm(r) ==
    /\ At(r, "confirm", "commit")
    /\ txn[r].todo = {}
    /\ password' = [password EXCEPT ![txn[r].who] = txn[r].pw]
    /\ Publish(r)
    /\ Finish(r)
    /\ UNCHANGED <<registered, verified, expired, recent, mailed, root>>

-----------------------------------------------------------------------------
(* Failures and time.                                                      *)

\* Any error of a statement or of COMMIT, a panic, a client that disconnects
\* (its context is cancelled) or a crash of the server: the deferred Rollback,
\* or the database noticing the lost connection, undoes the transaction.
Fail(r) ==
    /\ txn[r].pc # "idle"
    /\ Finish(r)
    /\ UNCHANGED db

\* expires_at of a token passes.
Expire(t) ==
    /\ status[t] = "live"
    /\ t \in Perishable \ expired
    /\ expired' = expired \cup {t}
    /\ UNCHANGED <<registered, verified, password, status, recent, mailed, root, txn>>

\* A reset token becomes older than one hour.
Age(t) ==
    /\ t \in recent \cap Perishable
    /\ recent' = recent \ {t}
    /\ UNCHANGED <<registered, verified, password, status, expired, mailed, root, txn>>

-----------------------------------------------------------------------------
(* Waiting.  The transactions r cannot proceed without.                    *)

WaitsFor(r) ==
    IF txn[r].todo # {} THEN UNION {RowHolders(r, t) : t \in txn[r].todo}
    ELSE CASE txn[r].pc = "consume" ->
                IF status[txn[r].tok] = "live" THEN RowHolders(r, txn[r].tok) ELSE {}
           [] txn[r].pc = "insert" /\ txn[r].op # "issue" ->
                UserHolders(r, txn[r].who, "keyShare")
           [] txn[r].pc = "lockUser" -> UserHolders(r, txn[r].who, "update")
           [] txn[r].pc = "setPassword" -> UserHolders(r, txn[r].who, "noKeyUpdate")
           [] txn[r].pc = "markVerified" /\ txn[r].who \notin verified ->
                UserHolders(r, txn[r].who, "noKeyUpdate")
           [] OTHER -> {}

\* PostgreSQL's deadlock detector aborts a member of a waiting cycle with an
\* error, and its handler rolls back.  Cycles of two are all there are:
\* property DeadlocksArePairs.
DeadlockAbort(r) ==
    /\ \E q \in WaitsFor(r) : r \in WaitsFor(q)
    /\ Finish(r)
    /\ UNCHANGED db

-----------------------------------------------------------------------------

Arrival(r) ==
    \/ \E u \in User, p \in Password : CreateUser(r, u, p)
    \/ \E u \in User : VerifyLogin(r, u) \/ BeginIssue(r, u)
    \/ \E t \in RefreshTok : BeginRefresh(r, t) \/ BeginLogout(r, t)
    \/ \E t \in VerifyTok : BeginVerify(r, t)
    \/ \E t \in ResetTok, p \in Password : BeginConfirm(r, t, p)

Statement(r) ==
    \/ ConsumeRejected(r)
    \/ CommitRegister(r)
    \/ MintSession(r)
    \/ ConsumeRefreshToken(r) \/ CreateRefreshToken(r) \/ CommitRefresh(r)
    \/ ConsumeLogout(r)
    \/ ConsumeEmailVerificationToken(r) \/ MarkUserEmailVerified(r) \/ CommitVerify(r)
    \/ \E t \in Token : VisitRow(r, t)
    \/ InvalidateUserPasswordResetTokens(r)
    \/ LockUser(r) \/ CountRecentPasswordResetTokens(r) \/ CommitIssue(r)
    \/ ConsumePasswordResetToken(r) \/ UpdateUserPassword(r)
    \/ RevokeAllUserRefreshTokens(r) \/ CommitConfirm(r)

Next ==
    \/ \E r \in Req : Arrival(r) \/ Statement(r) \/ Fail(r) \/ DeadlockAbort(r)
    \/ \E t \in Token : Expire(t) \/ Age(t)

Spec == Init /\ [][Next]_vars

\* A statement that can proceed does, and the detector leaves no cycle
\* standing.  Clients need not send anything and no token need expire.  A row
\* lock can starve: FOR UPDATE waits as long as overlapping weaker lockers keep
\* coming, so what is asked for concerns the time after arrivals and errors
\* have paused.
Fairness == \A r \in Req : WF_vars(Statement(r)) /\ WF_vars(DeadlockAbort(r))

Pause == <>[][\A r \in Req : ~Arrival(r) /\ ~Fail(r)]_vars

FairSpec == Spec /\ Fairness /\ Pause

-----------------------------------------------------------------------------
(* Properties.                                                             *)

\* A user never has two reset links that work: issuing one retires the
\* others, however requests and confirmations interleave (auth.go,
\* issuePasswordResetToken: "both leave a live token").
OneLiveResetToken ==
    \A u \in User : \A s, t \in Live(ResetTok, u) : s = t

\* No more than maxResetTokensPerHour reset tokens of a user are less than an
\* hour old, although the count and the insert are separate statements
\* (auth.go, issuePasswordResetToken: "both pass the cap check").
ResetCap ==
    \A u \in User : Cardinality(RecentTokens(u)) <= MaxResetTokensPerHour

\* A login never forks: of the refresh tokens that descend from one login at
\* most one is live, whichever of any number of concurrent refreshes, logouts
\* and resets consumed their common ancestor (ConsumeRefreshToken, "exactly
\* one of any number of concurrent refresh attempts wins").
LoginsDoNotFork ==
    \A s, t \in RefreshTok :
        status[s] = "live" /\ status[t] = "live" /\ root[s] = root[t] => s = t

\* A link that was mailed is backed by a committed token, and its verification
\* link is spent only by a transaction that also verified the address
\* (auth.go, VerifyEmail: "a valid token is never burned by a later failure").
LinksAreHonoured ==
    /\ \A t \in mailed : status[t] # "fresh"
    /\ \A t \in VerifyTok : status[t] = "used" => Owner[t] \in verified

\* A reset link stops working only in the step that sets the password it was
\* sent for, or puts a newer link of the same user in its place
\* (ConfirmPasswordReset: consume and the mutations it authorizes share one
\* transaction; a failed attempt leaves the link usable).
ResetLinkSpentWithEffect ==
    [][\A t \in ResetTok :
          status[t] = "live" /\ status'[t] = "used" =>
              \/ \E r \in Req : /\ txn[r].op = "confirm" /\ txn[r].tok = t
                               /\ password'[Owner[t]] = txn[r].pw
              \/ \E n \in ResetTok : /\ Owner[n] = Owner[t]
                                     /\ status[n] = "fresh" /\ status'[n] = "live"]_vars

\* The step in which confirmation r commits: its reset token becomes used.
Confirms(r) ==
    /\ txn[r].op = "confirm"
    /\ txn[r].tok \in ResetTok
    /\ status[txn[r].tok] = "live"
    /\ status'[txn[r].tok] = "used"

\* Every refresh token that was live when a confirmation consumed its link is
\* dead once the confirmation has committed, also one a concurrent refresh had
\* locked (ConfirmPasswordReset, RevokeAllUserRefreshTokens).
ResetRevokesPriorSessions ==
    [][\A r \in Req : Confirms(r) => \A t \in txn[r].prior : status'[t] = "used"]_vars

\* The stronger promise of auth.go:795 and docs/product/auth.md:63: a reset ends
\* the sessions themselves, so no login that had a session when the
\* confirmation consumed its link has one when it has committed.
ResetEndsPriorLogins ==
    [][\A r \in Req : Confirms(r) =>
          \A s \in txn[r].prior, t \in RefreshTok :
              root'[t] = root'[s] => status'[t] # "live"]_vars

\* Requests that wait for each other in a circle always contain a pair of one
\* reset request and one reset confirmation of the same user, the only two
\* transactions that lock a users row and a reset token in opposite orders.
DeadlocksArePairs ==
    \A S \in SUBSET Req :
        S # {} /\ (\A r \in S : WaitsFor(r) \cap S # {}) =>
            \E r, q \in S : /\ q \in WaitsFor(r) /\ r \in WaitsFor(q)
                           /\ txn[r].op = "issue" /\ txn[q].op = "confirm"
                           /\ txn[r].who = txn[q].who

\* A login that has ended, by logout or by a reset, stays ended: no refresh that
\* was under way revives it (LogoutUser: a stale check "would let a concurrent
\* refresh/logout revoke the token between the two statements").
HasLiveToken(s, st, rt) == \E t \in RefreshTok : st[t] = "live" /\ rt[t] = rt[s]

EndedLoginsStayEnded ==
    [][\A s \in RefreshTok :
          status[s] = "used" /\ ~HasLiveToken(s, status, root) =>
              ~HasLiveToken(s, status', root')]_vars

\* A session is only created for the password that is still the account's
\* (docs/product/auth.md:63: a reset "ends the attacker's session rather than
\* leaving it running alongside the new password").
SessionsUseCurrentPassword ==
    [][\A r \in Req :
          txn[r].op = "login" /\ status'[txn[r].new] = "live" =>
              txn[r].pw = password[txn[r].who]]_vars

\* Every endpoint takes effect as one atomic step.
Atomic == INSTANCE AuthAtomic
AtomicEffects == Atomic!Spec

\* Every request is answered once others stop arriving: whatever row locks the
\* requests in progress have reached, each of them can be finished.
EveryRequestAnswered == \A r \in Req : txn[r].pc # "idle" ~> txn[r].pc = "idle"

=============================================================================
