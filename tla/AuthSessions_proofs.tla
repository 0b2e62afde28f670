------------------------ MODULE AuthSessions_proofs ------------------------
(***************************************************************************)
(* Proofs about AuthSessions, for any number of users, tokens and requests:*)
(* types; the two promises of issuing password reset tokens; sessions,     *)
(* which never fork and never come back; and the endpoints, which take     *)
(* effect atomically.                                                      *)
(***************************************************************************)
EXTENDS AuthSessions, FiniteSetTheorems, TLAPS

(* Tables change through Publish, request slots through Request, Finish and *)
(* EXCEPT; these lemmas type each of them once.                             *)

LEMMA TokenKinds ==
  /\ RefreshTok \subseteq Token /\ ResetTok \subseteq Token /\ VerifyTok \subseteq Token
  /\ \A t \in Token : Owner[t] \in User /\ t # None
  BY TokensAssumption, NoneAssumption DEF Token

LEMMA NoTxnType == NoTxn \in Transaction /\ WellFormed(NoTxn)
  BY DEF NoTxn, Request, Transaction, Pc, LockMode, WellFormed

LEMMA RequestType ==
  ASSUME NEW op \in AllOps, NEW pc \in Pc, NEW who \in User, NEW tok \in Token \cup {None},
         NEW pw \in Password \cup {None}, NEW new \in Token \cup {None}
  PROVE  Request(op, pc, who, tok, pw, new) \in Transaction
  BY DEF Request, Transaction, LockMode

LEMMA SlotType ==
  ASSUME TypeOK, NEW r \in Req, NEW x \in Transaction, WellFormed(x), Serve(r, x)
  PROVE  txn' \in [Req -> Transaction] /\ \A q \in Req : WellFormed(txn'[q])
  <1>1. txn' \in [Req -> Transaction] /\ txn'[r] = x
    BY DEF TypeOK, Serve
  <1>2. ASSUME NEW q \in Req PROVE WellFormed(txn'[q])
    <2>1. q # r => txn'[q] = txn[q]
      BY DEF TypeOK, Serve
    <2>2. QED
      BY <1>1, <2>1 DEF TypeOK
  <1>3. QED
    BY <1>1, <1>2

LEMMA FinishType ==
  ASSUME TypeOK, NEW r \in Req, Finish(r)
  PROVE  txn' \in [Req -> Transaction] /\ \A q \in Req : WellFormed(txn'[q])
  BY NoTxnType, SlotType DEF Finish

LEMMA PublishType ==
  ASSUME TypeOK, NEW r \in Req, Publish(r)
  PROVE  status' \in [Token -> {"fresh", "live", "used"}]
  BY DEF TypeOK, Publish

LEMMA RequestFields ==
  ASSUME TypeOK, NEW r \in Req
  PROVE  /\ txn[r].op \in AllOps \cup {"none"} /\ txn[r].pc \in Pc
         /\ txn[r].lock \in LockMode
         /\ txn[r].who \in User \cup {None} /\ txn[r].tok \in Token \cup {None}
         /\ txn[r].pw \in Password \cup {None} /\ txn[r].new \in Token \cup {None}
         /\ txn[r].kill \in SUBSET Token /\ txn[r].todo \in SUBSET Token
         /\ txn[r].prior \in SUBSET RefreshTok
         /\ WellFormed(txn[r])
  BY DEF TypeOK, Transaction

(* The type invariant is inductive.                                        *)

LEMMA ArrivalType == ASSUME TypeOK, NEW r \in Req, Arrival(r) PROVE TypeOK'
  <1>a. ASSUME NEW op \in AllOps, NEW pc \in Pc, NEW who \in User,
               NEW tok \in Token \cup {None}, NEW pw \in Password \cup {None},
               NEW new \in Token \cup {None},
               Serve(r, Request(op, pc, who, tok, pw, new)),
               WellFormed(Request(op, pc, who, tok, pw, new)),
               UNCHANGED db
        PROVE  TypeOK'
    BY <1>a, RequestType, SlotType DEF TypeOK, db
  <1>b. /\ {"register", "login", "refresh", "logout", "verify", "issue", "confirm"} \subseteq AllOps
        /\ {"commit", "insert", "consume", "lockUser"} \subseteq Pc
    BY DEF AllOps, Pc
  <1>1. ASSUME NEW u \in User, NEW p \in Password, CreateUser(r, u, p) PROVE TypeOK'
    <2>1. PICK t \in VerifyTok : Owner[t] = u /\
             Serve(r, Request("register", "commit", u, None, p, t))
      BY <1>1 DEF CreateUser, Unissued
    <2>2. WellFormed(Request("register", "commit", u, None, p, t))
      BY <2>1 DEF WellFormed, Request
    <2>3. QED
      BY <2>1, <2>2, <1>1, <1>a, <1>b, TokenKinds DEF CreateUser
  <1>2. ASSUME NEW u \in User, VerifyLogin(r, u) PROVE TypeOK'
    <2>1. PICK t \in RefreshTok : Owner[t] = u /\
             Serve(r, Request("login", "insert", u, None, password[u], t))
      BY <1>2 DEF VerifyLogin, Unissued
    <2>2. password[u] \in Password
      BY DEF TypeOK
    <2>3. WellFormed(Request("login", "insert", u, None, password[u], t))
      BY <2>1, <2>2 DEF WellFormed, Request
    <2>4. QED
      BY <2>1, <2>2, <2>3, <1>2, <1>a, <1>b, TokenKinds DEF VerifyLogin
  <1>3. ASSUME NEW u \in User, BeginIssue(r, u) PROVE TypeOK'
    <2>1. PICK n \in ResetTok : Owner[n] = u /\
             Serve(r, Request("issue", "lockUser", u, None, None, n))
      BY <1>3 DEF BeginIssue, Unissued
    <2>2. WellFormed(Request("issue", "lockUser", u, None, None, n))
      BY <2>1 DEF WellFormed, Request
    <2>3. QED
      BY <2>1, <2>2, <1>3, <1>a, <1>b, TokenKinds DEF BeginIssue
  <1>4. ASSUME NEW t \in RefreshTok, BeginRefresh(r, t) PROVE TypeOK'
    <2>1. PICK n \in RefreshTok : Owner[n] = Owner[t] /\
             Serve(r, Request("refresh", "consume", Owner[t], t, None, n))
      BY <1>4 DEF BeginRefresh, Unissued
    <2>2. Owner[t] \in User /\ UNCHANGED db
      BY <1>4, TokenKinds DEF BeginRefresh
    <2>3. WellFormed(Request("refresh", "consume", Owner[t], t, None, n))
      BY <2>1, <2>2 DEF WellFormed, Request
    <2>4. QED
      BY <2>1, <2>2, <2>3, <1>a, <1>b, TokenKinds
  <1>5. ASSUME NEW t \in RefreshTok, BeginLogout(r, t) PROVE TypeOK'
    <2>1. Owner[t] \in User
      BY TokenKinds
    <2>2. WellFormed(Request("logout", "consume", Owner[t], t, None, None))
      BY <2>1 DEF WellFormed, Request
    <2>3. QED
      BY <2>1, <2>2, <1>5, <1>a, <1>b, TokenKinds DEF BeginLogout
  <1>6. ASSUME NEW t \in VerifyTok, BeginVerify(r, t) PROVE TypeOK'
    <2>1. Owner[t] \in User
      BY TokenKinds
    <2>2. WellFormed(Request("verify", "consume", Owner[t], t, None, None))
      BY <2>1 DEF WellFormed, Request
    <2>3. QED
      BY <2>1, <2>2, <1>6, <1>a, <1>b, TokenKinds DEF BeginVerify
  <1>7. ASSUME NEW t \in ResetTok, NEW p \in Password, BeginConfirm(r, t, p) PROVE TypeOK'
    <2>1. Owner[t] \in User
      BY TokenKinds
    <2>2. WellFormed(Request("confirm", "consume", Owner[t], t, p, None))
      BY <2>1 DEF WellFormed, Request
    <2>3. QED
      BY <2>1, <2>2, <1>7, <1>a, <1>b, TokenKinds DEF BeginConfirm
  <1>8. QED
    BY <1>1, <1>2, <1>3, <1>4, <1>5, <1>6, <1>7 DEF Arrival

LEMMA StatementType == ASSUME TypeOK, NEW r \in Req, Statement(r) PROVE TypeOK'
  <1>a. ASSUME NEW x \in Transaction, WellFormed(x), Serve(r, x), UNCHANGED db
        PROVE  TypeOK'
    BY <1>a, SlotType DEF TypeOK, db
  <1> USE RequestFields
  <1>1. CASE ConsumeRejected(r)
    BY <1>1, FinishType DEF ConsumeRejected, TypeOK, db
  <1>2. CASE CommitRegister(r)
    <2>1. txn[r].who \in User /\ txn[r].pw \in Password /\ txn[r].new \in VerifyTok
      BY <1>2 DEF CommitRegister, At, WellFormed
    <2>2. QED
      BY <1>2, <2>1, FinishType, PublishType DEF CommitRegister, TypeOK, SendAsync
  <1>3. CASE MintSession(r)
    BY <1>3, FinishType, PublishType DEF MintSession, TypeOK
  <1>4. CASE ConsumeRefreshToken(r)
    <2> DEFINE x == [txn[r] EXCEPT !.pc = "insert", !.kill = {txn[r].tok}]
    <2>1. txn[r] \in Transaction /\ txn[r].op = "refresh" /\ txn[r].tok \in RefreshTok
      BY <1>4 DEF ConsumeRefreshToken, CanConsume, At, WellFormed, TypeOK
    <2>2. x \in Transaction
      BY <2>1, TokenKinds DEF Transaction, Pc
    <2>3. WellFormed(x)
      BY <2>1 DEF WellFormed, Transaction
    <2>4. QED
      BY <1>4, <1>a, <2>2, <2>3 DEF ConsumeRefreshToken
  <1>5. CASE CreateRefreshToken(r)
    <2> DEFINE x == [txn[r] EXCEPT !.pc = "commit", !.lock = "keyShare"]
    <2>1. txn[r] \in Transaction /\ txn[r].op = "refresh"
      BY <1>5 DEF CreateRefreshToken, At, WellFormed, TypeOK
    <2>2. x \in Transaction
      BY <2>1, TokenKinds DEF Transaction, Pc, LockMode
    <2>3. WellFormed(x)
      BY <2>1 DEF WellFormed, Transaction
    <2>4. QED
      BY <1>5, <1>a, <2>2, <2>3 DEF CreateRefreshToken
  <1>6. CASE CommitRefresh(r)
    <2>1. txn[r].tok \in RefreshTok
      BY <1>6 DEF CommitRefresh, At, WellFormed
    <2>2. root' \in [RefreshTok -> RefreshTok]
      BY <1>6, <2>1 DEF CommitRefresh, TypeOK
    <2>3. QED
      BY <1>6, <2>2, FinishType, PublishType DEF CommitRefresh, TypeOK
  <1>7. CASE ConsumeLogout(r)
    <2>1. status' \in [Token -> {"fresh", "live", "used"}]
      BY <1>7 DEF ConsumeLogout, TypeOK
    <2>2. QED
      BY <1>7, <2>1, FinishType DEF ConsumeLogout, TypeOK
  <1>8. CASE ConsumeEmailVerificationToken(r)
    <2> DEFINE x == [txn[r] EXCEPT !.pc = "markVerified", !.kill = {txn[r].tok}]
    <2>1. txn[r] \in Transaction /\ txn[r].op = "verify" /\ txn[r].tok \in VerifyTok
      BY <1>8 DEF ConsumeEmailVerificationToken, CanConsume, At, WellFormed, TypeOK
    <2>2. x \in Transaction
      BY <2>1, TokenKinds DEF Transaction, Pc, LockMode
    <2>3. WellFormed(x)
      BY <2>1 DEF WellFormed, Transaction
    <2>4. QED
      BY <1>8, <1>a, <2>2, <2>3 DEF ConsumeEmailVerificationToken
  <1>9. CASE MarkUserEmailVerified(r)
    <2> DEFINE x == [txn[r] EXCEPT !.pc = "commit"]
               y == [txn[r] EXCEPT !.pc = "commit", !.lock = "noKeyUpdate"]
    <2>1. txn[r] \in Transaction /\ txn[r].op = "verify"
      BY <1>9 DEF MarkUserEmailVerified, At, WellFormed, TypeOK
    <2>2. x \in Transaction /\ y \in Transaction
      BY <2>1 DEF Transaction, Pc, LockMode
    <2>3. WellFormed(x) /\ WellFormed(y)
      BY <2>1 DEF WellFormed, Transaction
    <2>4. Serve(r, x) \/ Serve(r, y)
      BY <1>9 DEF MarkUserEmailVerified
    <2>5. UNCHANGED db
      BY <1>9 DEF MarkUserEmailVerified
    <2>6. QED
      BY <1>a, <2>2, <2>3, <2>4, <2>5
  <1>10. CASE CommitVerify(r)
    <2>1. txn[r].who \in User
      BY <1>10 DEF CommitVerify, At, WellFormed
    <2>2. QED
      BY <1>10, <2>1, FinishType, PublishType DEF CommitVerify, TypeOK
  <1>11. ASSUME NEW t \in Token, VisitRow(r, t) PROVE TypeOK'
    <2> DEFINE k == IF status[t] = "live" THEN txn[r].kill \cup {t} ELSE txn[r].kill
               x == [txn[r] EXCEPT !.todo = txn[r].todo \ {t}, !.kill = k]
    <2>1. txn[r] \in Transaction /\ k \in SUBSET Token
      BY DEF TypeOK
    <2> HIDE DEF k
    <2>2. x \in Transaction
      BY <2>1 DEF Transaction
    <2>3. WellFormed(x)
      BY <2>1 DEF WellFormed, Transaction
    <2>4. QED
      BY <1>11, <1>a, <2>2, <2>3 DEF VisitRow, k
  <1>12. CASE InvalidateUserPasswordResetTokens(r)
    <2> DEFINE p == IF txn[r].op = "issue" THEN "insert" ELSE "revokeAll"
               d == Live(ResetTok, txn[r].who) \ txn[r].kill
               x == [txn[r] EXCEPT !.pc = p, !.todo = d]
    <2>1. txn[r] \in Transaction /\ txn[r].op \in {"issue", "confirm"}
      BY <1>12 DEF InvalidateUserPasswordResetTokens, WellFormed, TypeOK, AllOps
    <2>2. d \in SUBSET Token
      BY TokenKinds DEF Live
    <2>3. UNCHANGED db /\ Serve(r, x)
      BY <1>12 DEF InvalidateUserPasswordResetTokens
    <2>a. p \in Pc /\ (txn[r].op = "issue" => p = "insert") /\ (txn[r].op = "confirm" => p = "revokeAll")
      BY <2>1 DEF Pc
    <2> HIDE DEF d, p
    <2>4. x \in Transaction
      BY <2>1, <2>2, <2>a DEF Transaction
    <2>5. WellFormed(x)
      BY <2>1, <2>a DEF WellFormed, Transaction
    <2>6. QED
      BY <1>a, <2>3, <2>4, <2>5
  <1>13. CASE LockUser(r)
    <2> DEFINE x == [txn[r] EXCEPT !.pc = "count", !.lock = "update"]
    <2>1. txn[r] \in Transaction /\ txn[r].op = "issue"
      BY <1>13 DEF LockUser, At, WellFormed, TypeOK
    <2>2. x \in Transaction
      BY <2>1, TokenKinds DEF Transaction, Pc, LockMode
    <2>3. WellFormed(x)
      BY <2>1 DEF WellFormed, Transaction
    <2>4. QED
      BY <1>13, <1>a, <2>2, <2>3 DEF LockUser
  <1>14. CASE CountRecentPasswordResetTokens(r)
    <2> DEFINE x == [txn[r] EXCEPT !.pc = "invalidate"]
    <2>1. txn[r] \in Transaction /\ txn[r].op = "issue"
      BY <1>14 DEF CountRecentPasswordResetTokens, At, WellFormed, TypeOK
    <2>2. x \in Transaction
      BY <2>1 DEF Transaction, Pc
    <2>3. WellFormed(x)
      BY <2>1 DEF WellFormed, Transaction
    <2>4. UNCHANGED db /\ (Serve(r, x) \/ Finish(r))
      BY <1>14 DEF CountRecentPasswordResetTokens
    <2>5. QED
      BY <1>a, <2>2, <2>3, <2>4, NoTxnType DEF Finish
  <1>15. CASE CommitIssue(r)
    <2>1. txn[r].new \in ResetTok
      BY <1>15 DEF CommitIssue, At, WellFormed
    <2>2. QED
      BY <1>15, <2>1, FinishType, PublishType DEF CommitIssue, TypeOK, SendAsync
  <1>16. CASE ConsumePasswordResetToken(r)
    <2> DEFINE p == Live(RefreshTok, txn[r].who)
               x == [txn[r] EXCEPT !.pc = "setPassword", !.kill = {txn[r].tok}, !.prior = p]
    <2>1. txn[r] \in Transaction /\ txn[r].op = "confirm" /\ txn[r].tok \in ResetTok
      BY <1>16 DEF ConsumePasswordResetToken, CanConsume, At, WellFormed, TypeOK
    <2>2. p \in SUBSET RefreshTok
      BY DEF Live
    <2>3. UNCHANGED db /\ Serve(r, x)
      BY <1>16 DEF ConsumePasswordResetToken
    <2> HIDE DEF p
    <2>4. x \in Transaction
      BY <2>1, <2>2, TokenKinds DEF Transaction, Pc
    <2>5. WellFormed(x)
      BY <2>1 DEF WellFormed, Transaction
    <2>6. QED
      BY <1>a, <2>3, <2>4, <2>5
  <1>17. CASE UpdateUserPassword(r)
    <2> DEFINE x == [txn[r] EXCEPT !.pc = "invalidate", !.lock = "noKeyUpdate"]
    <2>1. txn[r] \in Transaction /\ txn[r].op = "confirm"
      BY <1>17 DEF UpdateUserPassword, At, WellFormed, TypeOK
    <2>2. x \in Transaction
      BY <2>1, TokenKinds DEF Transaction, Pc, LockMode
    <2>3. WellFormed(x)
      BY <2>1 DEF WellFormed, Transaction
    <2>4. QED
      BY <1>17, <1>a, <2>2, <2>3 DEF UpdateUserPassword
  <1>18. CASE RevokeAllUserRefreshTokens(r)
    <2> DEFINE d == Live(RefreshTok, txn[r].who)
               x == [txn[r] EXCEPT !.pc = "commit", !.todo = d]
    <2>1. txn[r] \in Transaction /\ txn[r].op = "confirm"
      BY <1>18 DEF RevokeAllUserRefreshTokens, At, WellFormed, TypeOK
    <2>2. d \in SUBSET Token
      BY TokenKinds DEF Live
    <2>3. UNCHANGED db /\ Serve(r, x)
      BY <1>18 DEF RevokeAllUserRefreshTokens
    <2> HIDE DEF d
    <2>4. x \in Transaction
      BY <2>1, <2>2 DEF Transaction, Pc
    <2>5. WellFormed(x)
      BY <2>1 DEF WellFormed, Transaction
    <2>6. QED
      BY <1>a, <2>3, <2>4, <2>5
  <1>19. CASE CommitConfirm(r)
    <2>1. txn[r].who \in User /\ txn[r].pw \in Password
      BY <1>19 DEF CommitConfirm, At, WellFormed
    <2>2. QED
      BY <1>19, <2>1, FinishType, PublishType DEF CommitConfirm, TypeOK
  <1>20. QED
    BY <1>1, <1>2, <1>3, <1>4, <1>5, <1>6, <1>7, <1>8, <1>9, <1>10, <1>11, <1>12, <1>13, <1>14, <1>15, <1>16, <1>17, <1>18, <1>19 DEF Statement

LEMMA TypeStep == ASSUME TypeOK, [Next]_vars PROVE TypeOK'
  <1>1. ASSUME NEW r \in Req, Fail(r) \/ DeadlockAbort(r) PROVE TypeOK'
    BY <1>1, FinishType DEF Fail, DeadlockAbort, TypeOK, db
  <1>2. ASSUME NEW t \in Token, Expire(t) \/ Age(t) PROVE TypeOK'
    <2>1. CASE Expire(t)
      BY <2>1 DEF Expire, TypeOK
    <2>2. CASE Age(t)
      BY <2>2 DEF Age, TypeOK
    <2>3. QED
      BY <1>2, <2>1, <2>2
  <1>3. CASE UNCHANGED vars
    BY <1>3 DEF vars, TypeOK
  <1>4. QED
    BY <1>1, <1>2, <1>3, ArrivalType, StatementType DEF Next

\* Whatever the users, tokens and requests, every table and every request in
\* progress stays well formed: each statement finds the arguments it needs.
THEOREM TypeCorrect == Spec => []TypeOK
  <1>1. Init => TypeOK
    BY NoTxnType, ParametersAssumption, TokensAssumption DEF Init, TypeOK
  <1>2. TypeOK /\ [Next]_vars => TypeOK'
    BY TypeStep
  <1>3. QED
    BY <1>1, <1>2, PTL DEF Spec

-----------------------------------------------------------------------------
(***************************************************************************)
(* Proofs that issuing password reset tokens keeps its two promises, one   *)
(* live link and at most MaxResetTokensPerHour recent ones per user.       *)
(***************************************************************************)

(* Neither property is inductive: a request checks the cap and retires the  *)
(* prior links long before it inserts its own row.  What carries both to    *)
(* the insert is the row lock: LockUser excludes every other issuing        *)
(* request of the user from the count to COMMIT, so what was counted and    *)
(* what was retired is still all there is.                                  *)

Exclusive ==
  \A q, r \in Req :
    q # r /\ txn[q].lock = "update" /\ txn[r].lock = "update" => txn[q].who # txn[r].who

Prepared(r) ==
  txn[r].op = "issue" =>
    /\ txn[r].pc \in {"count", "invalidate", "insert"} => txn[r].lock = "update"
    /\ txn[r].pc \in {"invalidate", "insert"} =>
         Cardinality(RecentTokens(txn[r].who)) < MaxResetTokensPerHour
    /\ txn[r].pc = "insert" =>
         Live(ResetTok, txn[r].who) \subseteq txn[r].kill \cup txn[r].todo

ResetInv ==
  /\ Exclusive
  /\ \A r \in Req : Prepared(r)
  /\ OneLiveResetToken
  /\ ResetCap

\* No reset token became live or recent.
Quiet ==
  /\ \A t \in ResetTok : status'[t] = "live" => status[t] = "live"
  /\ recent' \subseteq recent

LEMMA RecentFinite ==
  ASSUME TypeOK, NEW u
  PROVE  IsFiniteSet(RecentTokens(u)) /\ Cardinality(RecentTokens(u)) \in Nat
  <1>1. RecentTokens(u) \in SUBSET ResetTok
    BY DEF TypeOK, RecentTokens
  <1>2. IsFiniteSet(RecentTokens(u))
    BY <1>1, FS_Subset, TokensAssumption
  <1>3. QED
    BY <1>2, FS_CardinalityType

LEMMA QuietTables ==
  ASSUME TypeOK, Quiet
  PROVE  /\ \A u : Live(ResetTok, u)' \subseteq Live(ResetTok, u)
         /\ \A u : Cardinality(RecentTokens(u)') \in Nat
         /\ \A u : Cardinality(RecentTokens(u)') <= Cardinality(RecentTokens(u))
  <1>1. ASSUME NEW u
        PROVE  /\ Cardinality(RecentTokens(u)') \in Nat
               /\ Cardinality(RecentTokens(u)') <= Cardinality(RecentTokens(u))
    <2>1. RecentTokens(u)' \in SUBSET RecentTokens(u)
      BY DEF Quiet, RecentTokens
    <2>2. QED
      BY <2>1, RecentFinite, FS_Subset, FS_CardinalityType
  <1>2. \A u : Live(ResetTok, u)' \subseteq Live(ResetTok, u)
    BY DEF Quiet, Live
  <1>3. QED
    BY <1>1, <1>2

\* A quiet step leaves what other requests rely on as it is.
LEMMA QuietOthers ==
  ASSUME TypeOK, Quiet, NEW q \in Req, Prepared(q), txn'[q] = txn[q]
  PROVE  Prepared(q)'
  <1>1. ASSUME NEW u PROVE Cardinality(RecentTokens(u)) < MaxResetTokensPerHour
                             => Cardinality(RecentTokens(u)') < MaxResetTokensPerHour
    BY QuietTables, RecentFinite, ParametersAssumption
  <1>2. ASSUME NEW u PROVE Live(ResetTok, u)' \subseteq Live(ResetTok, u)
    BY QuietTables
  <1>3. QED
    BY <1>1, <1>2 DEF Prepared

LEMMA QuietProperties ==
  ASSUME TypeOK, Quiet, OneLiveResetToken, ResetCap
  PROVE  OneLiveResetToken' /\ ResetCap'
  <1>1. OneLiveResetToken'
    BY QuietTables DEF OneLiveResetToken
  <1>2. ResetCap'
    BY QuietTables, RecentFinite, ParametersAssumption DEF ResetCap
  <1>3. QED
    BY <1>1, <1>2

LEMMA SlotChange ==
  ASSUME TypeOK, NEW r \in Req, NEW x, Serve(r, x)
  PROVE  txn'[r] = x /\ \A q \in Req \ {r} : txn'[q] = txn[q]
  BY DEF TypeOK, Serve

\* A step of r that neither takes the FOR UPDATE lock nor inserts a reset
\* token preserves the invariant, if r itself is still prepared.
LEMMA QuietStep ==
  ASSUME TypeOK, ResetInv, Quiet, NEW r \in Req, NEW x, Serve(r, x),
         x.lock = "update" => txn[r].lock = "update" /\ x.who = txn[r].who,
         Prepared(r)'
  PROVE  ResetInv'
  <1>1. txn'[r] = x /\ \A q \in Req \ {r} : txn'[q] = txn[q]
    BY SlotChange
  <1>2. Exclusive'
    BY <1>1 DEF Exclusive, ResetInv
  <1>3. \A q \in Req : Prepared(q)'
    BY <1>1, QuietOthers DEF ResetInv
  <1>4. QED
    BY <1>2, <1>3, QuietProperties DEF ResetInv

LEMMA FinishQuietly ==
  ASSUME TypeOK, ResetInv, Quiet, NEW r \in Req, Finish(r)
  PROVE  ResetInv'
  <1>1. NoTxn.lock = "none" /\ NoTxn.op = "none"
    BY DEF NoTxn, Request
  <1>2. txn'[r] = NoTxn
    BY SlotChange DEF Finish
  <1>3. Prepared(r)'
    BY <1>1, <1>2 DEF Prepared
  <1>4. QED
    BY <1>1, <1>3, QuietStep DEF Finish

LEMMA Undisturbed == ASSUME UNCHANGED db PROVE Quiet
  BY DEF db, Quiet

\* Only the issue endpoint inserts a reset token.
LEMMA PublishQuietly ==
  ASSUME TypeOK, NEW r \in Req, Publish(r), txn[r].new \notin ResetTok
  PROVE  \A t \in ResetTok : status'[t] = "live" => status[t] = "live"
  BY TokenKinds DEF Publish, TypeOK

\* An arriving request holds no lock; a reset request has only begun.
LEMMA ArriveQuietly ==
  ASSUME TypeOK, ResetInv, NEW r \in Req, NEW op, NEW pc, NEW who, NEW tok, NEW pw, NEW new,
         Serve(r, Request(op, pc, who, tok, pw, new)), op = "issue" => pc = "lockUser",
         UNCHANGED db
  PROVE  ResetInv'
  <1> DEFINE x == Request(op, pc, who, tok, pw, new)
  <1>1. x.lock = "none" /\ x.op = op /\ x.pc = pc
    BY DEF Request
  <1>2. txn'[r] = x
    BY SlotChange
  <1> HIDE DEF x
  <1>3. Prepared(r)'
    BY <1>1, <1>2 DEF Prepared
  <1>4. QED
    BY <1>1, <1>3, Undisturbed, QuietStep DEF x

\* So is any statement of the other endpoints that writes nothing yet.
LEMMA ContinueQuietly ==
  ASSUME TypeOK, ResetInv, NEW r \in Req, NEW x, Serve(r, x), x.op # "issue",
         x.lock = "update" => txn[r].lock = "update" /\ x.who = txn[r].who,
         UNCHANGED db
  PROVE  ResetInv'
  <1>1. Prepared(r)'
    BY SlotChange DEF Prepared
  <1>2. QED
    BY <1>1, Undisturbed, QuietStep

LEMMA ArrivalResets == ASSUME TypeOK, ResetInv, NEW r \in Req, Arrival(r) PROVE ResetInv'
  <1>1. ASSUME NEW u \in User, NEW p \in Password, CreateUser(r, u, p) PROVE ResetInv'
    BY <1>1, ArriveQuietly DEF CreateUser
  <1>2. ASSUME NEW u \in User, VerifyLogin(r, u) PROVE ResetInv'
    BY <1>2, ArriveQuietly DEF VerifyLogin
  <1>3. ASSUME NEW u \in User, BeginIssue(r, u) PROVE ResetInv'
    BY <1>3, ArriveQuietly DEF BeginIssue
  <1>4. ASSUME NEW t \in RefreshTok, BeginRefresh(r, t) PROVE ResetInv'
    BY <1>4, ArriveQuietly DEF BeginRefresh
  <1>5. ASSUME NEW t \in RefreshTok, BeginLogout(r, t) PROVE ResetInv'
    BY <1>5, ArriveQuietly DEF BeginLogout
  <1>6. ASSUME NEW t \in VerifyTok, BeginVerify(r, t) PROVE ResetInv'
    BY <1>6, ArriveQuietly DEF BeginVerify
  <1>7. ASSUME NEW t \in ResetTok, NEW p \in Password, BeginConfirm(r, t, p) PROVE ResetInv'
    BY <1>7, ArriveQuietly DEF BeginConfirm
  <1>8. QED
    BY <1>1, <1>2, <1>3, <1>4, <1>5, <1>6, <1>7 DEF Arrival

(* The four statements of a reset request.                                 *)

\* Taking the row lock: no other request holds it.
LEMMA LockUserResets == ASSUME TypeOK, ResetInv, NEW r \in Req, LockUser(r) PROVE ResetInv'
  <1> DEFINE x == [txn[r] EXCEPT !.pc = "count", !.lock = "update"]
  <1>1. /\ txn[r] \in Transaction /\ Serve(r, x) /\ UserFree(r, "update") /\ UNCHANGED db
        /\ txn[r].op = "issue" /\ txn[r].who \in User
    BY DEF LockUser, TypeOK, At, WellFormed
  <1>2. x.pc = "count" /\ x.lock = "update" /\ x.who = txn[r].who
    BY <1>1 DEF Transaction
  <1>3. txn'[r] = x /\ \A q \in Req \ {r} : txn'[q] = txn[q]
    BY <1>1, SlotChange
  <1>4. \A q \in Req \ {r} : txn[q].lock = "update" => txn[q].who # txn[r].who
    BY <1>1 DEF UserFree, UserHolders, Conflicts
  <1> HIDE DEF x
  <1>5. Exclusive'
    BY <1>2, <1>3, <1>4 DEF Exclusive, ResetInv
  <1>6. Quiet
    BY <1>1, Undisturbed
  <1>7. Prepared(r)'
    BY <1>2, <1>3 DEF Prepared
  <1>8. \A q \in Req : Prepared(q)'
    BY <1>3, <1>6, <1>7, QuietOthers DEF ResetInv
  <1>9. QED
    BY <1>5, <1>6, <1>8, QuietProperties DEF ResetInv

\* Below the cap the request goes on, and remembers that it is.
LEMMA CountResets ==
  ASSUME TypeOK, ResetInv, NEW r \in Req, CountRecentPasswordResetTokens(r)
  PROVE  ResetInv'
  <1>1. Quiet
    BY Undisturbed DEF CountRecentPasswordResetTokens
  <1>2. CASE Finish(r)
    BY <1>1, <1>2, FinishQuietly
  <1>3. CASE /\ Cardinality(RecentTokens(txn[r].who)) < MaxResetTokensPerHour
             /\ Serve(r, [txn[r] EXCEPT !.pc = "invalidate"])
    <2> DEFINE x == [txn[r] EXCEPT !.pc = "invalidate"]
    <2>1. txn[r] \in Transaction /\ txn[r].op = "issue" /\ txn[r].pc = "count"
      BY DEF CountRecentPasswordResetTokens, TypeOK, At
    <2>2. x.pc = "invalidate" /\ x.lock = txn[r].lock /\ x.who = txn[r].who
      BY <2>1 DEF Transaction
    <2>3. txn[r].lock = "update"
      BY <2>1 DEF ResetInv, Prepared
    <2>4. txn'[r] = x
      BY <1>3, SlotChange
    <2>5. \A u : RecentTokens(u)' = RecentTokens(u)
      BY DEF CountRecentPasswordResetTokens, db, RecentTokens
    <2> HIDE DEF x
    <2>6. Prepared(r)'
      BY <1>3, <2>2, <2>3, <2>4, <2>5 DEF Prepared
    <2>7. QED
      BY <1>1, <1>3, <2>2, <2>6, QuietStep DEF x
  <1>4. QED
    BY <1>2, <1>3 DEF CountRecentPasswordResetTokens

\* The UPDATE has yet to visit every prior link it does not already hold.
LEMMA InvalidateResets ==
  ASSUME TypeOK, ResetInv, NEW r \in Req, InvalidateUserPasswordResetTokens(r)
  PROVE  ResetInv'
  <1> DEFINE p == IF txn[r].op = "issue" THEN "insert" ELSE "revokeAll"
             d == Live(ResetTok, txn[r].who) \ txn[r].kill
             x == [txn[r] EXCEPT !.pc = p, !.todo = d]
  <1>1. txn[r] \in Transaction /\ txn[r].pc = "invalidate" /\ Serve(r, x) /\ UNCHANGED db
    BY DEF InvalidateUserPasswordResetTokens, TypeOK
  <1>2. /\ x.op = txn[r].op /\ x.lock = txn[r].lock /\ x.who = txn[r].who
        /\ x.kill = txn[r].kill /\ x.todo = d
    BY <1>1 DEF Transaction
  <1>3. txn'[r] = x
    BY <1>1, SlotChange
  <1>4. /\ Live(ResetTok, txn[r].who)' \subseteq txn[r].kill \cup d
        /\ RecentTokens(txn[r].who)' = RecentTokens(txn[r].who)
    BY <1>1, <1>2, <1>3 DEF Live, RecentTokens, db
  <1> HIDE DEF x, d
  <1>5. Prepared(r)'
    BY <1>1, <1>2, <1>3, <1>4 DEF Prepared, ResetInv, Live, RecentTokens
  <1>6. QED
    BY <1>1, <1>2, <1>5, Undisturbed, QuietStep

\* A row leaves the rows to visit only for those it has marked, unless it was
\* not live.
LEMMA VisitResets ==
  ASSUME TypeOK, ResetInv, NEW r \in Req, NEW t \in Token, VisitRow(r, t)
  PROVE  ResetInv'
  <1> DEFINE k == IF status[t] = "live" THEN txn[r].kill \cup {t} ELSE txn[r].kill
             d == txn[r].todo \ {t}
             x == [txn[r] EXCEPT !.todo = d, !.kill = k]
  <1>1. txn[r] \in Transaction /\ Serve(r, x) /\ UNCHANGED db
    BY DEF VisitRow, TypeOK
  <1>2. /\ x.op = txn[r].op /\ x.pc = txn[r].pc /\ x.lock = txn[r].lock /\ x.who = txn[r].who
        /\ x.kill = k /\ x.todo = d
    BY <1>1 DEF Transaction
  <1>3. txn'[r] = x
    BY <1>1, SlotChange
  <1>4. ASSUME Live(ResetTok, txn[r].who) \subseteq txn[r].kill \cup txn[r].todo
        PROVE  Live(ResetTok, txn[r].who) \subseteq k \cup d
    BY <1>4 DEF Live
  <1>5. \A u : Live(ResetTok, u)' = Live(ResetTok, u) /\ RecentTokens(u)' = RecentTokens(u)
    BY <1>1 DEF Live, RecentTokens, db
  <1> HIDE DEF x, k, d
  <1>6. Prepared(r)'
    BY <1>2, <1>3, <1>4, <1>5 DEF Prepared, ResetInv
  <1>7. QED
    BY <1>1, <1>2, <1>6, Undisturbed, QuietStep

\* The insert: the lock is still held, so the count and the rows marked are
\* still exact.
LEMMA CommitIssueResets ==
  ASSUME TypeOK, ResetInv, NEW r \in Req, CommitIssue(r)
  PROVE  ResetInv'
  <1> DEFINE u == txn[r].who  n == txn[r].new
  <1>1. /\ txn[r].op = "issue" /\ txn[r].pc = "insert" /\ txn[r].todo = {}
        /\ n \in ResetTok /\ Owner[n] = u /\ recent' = recent \cup {n}
        /\ Publish(r) /\ Finish(r)
    BY NoneAssumption, TokenKinds DEF CommitIssue, At, TypeOK, WellFormed
  <1>2. /\ txn[r].lock = "update" /\ Cardinality(RecentTokens(u)) < MaxResetTokensPerHour
        /\ Live(ResetTok, u) \subseteq txn[r].kill
    BY <1>1 DEF ResetInv, Prepared
  <1>3. txn'[r] = NoTxn /\ \A q \in Req \ {r} : txn'[q] = txn[q]
    BY <1>1, SlotChange DEF Finish
  <1>4. NoTxn.lock = "none" /\ NoTxn.op = "none"
    BY DEF NoTxn, Request
  <1>5. \A t \in ResetTok : status'[t] = "live" => t = n \/ (status[t] = "live" /\ t \notin txn[r].kill)
    BY <1>1, TokenKinds DEF Publish, TypeOK
  <1>6. ASSUME NEW v, v # u
        PROVE  /\ Live(ResetTok, v)' \subseteq Live(ResetTok, v)
               /\ RecentTokens(v)' = RecentTokens(v)
    BY <1>1, <1>5, <1>6 DEF Live, RecentTokens
  <1>7. Exclusive'
    BY <1>3, <1>4 DEF Exclusive, ResetInv
  <1>8. ASSUME NEW q \in Req PROVE Prepared(q)'
    <2>1. CASE q = r
      BY <1>3, <1>4, <2>1 DEF Prepared
    <2>2. CASE q # r /\ txn[q].lock = "update"
      <3>1. txn[q].who # u /\ txn'[q] = txn[q]
        BY <1>2, <1>3, <2>2 DEF ResetInv, Exclusive
      <3>2. QED
        BY <1>6, <3>1 DEF Prepared, ResetInv
    <2>3. CASE q # r /\ txn[q].lock # "update"
      BY <1>3, <2>3 DEF Prepared, ResetInv
    <2>4. QED
      BY <2>1, <2>2, <2>3
  <1>9. OneLiveResetToken'
    <2>1. ASSUME NEW v \in User, NEW s \in Live(ResetTok, v)', NEW t \in Live(ResetTok, v)'
          PROVE  s = t
      <3>1. CASE v = u
        BY <1>2, <1>5, <3>1 DEF Live
      <3>2. CASE v # u
        BY <1>6, <3>2 DEF ResetInv, OneLiveResetToken
      <3>3. QED
        BY <3>1, <3>2
    <2>2. QED
      BY <2>1 DEF OneLiveResetToken
  <1>10. ResetCap'
    <2>1. ASSUME NEW v \in User PROVE Cardinality(RecentTokens(v)') <= MaxResetTokensPerHour
      <3>1. CASE v = u
        <4>1. RecentTokens(v)' = RecentTokens(v) \cup {n}
          BY <1>1, <3>1 DEF RecentTokens
        <4>2. IsFiniteSet(RecentTokens(v)) /\ Cardinality(RecentTokens(v)) \in Nat
          BY RecentFinite
        <4>3. Cardinality(RecentTokens(v)') \in
                {Cardinality(RecentTokens(v)), Cardinality(RecentTokens(v)) + 1}
          BY <4>1, <4>2, FS_AddElement
        <4>4. QED
          BY <1>2, <3>1, <4>2, <4>3, ParametersAssumption
      <3>2. CASE v # u
        <4>1. RecentTokens(v)' = RecentTokens(v)
          BY <1>6, <3>2
        <4>2. QED
          BY <4>1 DEF ResetInv, ResetCap
      <3>3. QED
        BY <3>1, <3>2
    <2>2. QED
      BY <2>1 DEF ResetCap
  <1>11. QED
    BY <1>7, <1>8, <1>9, <1>10 DEF ResetInv

LEMMA StatementResets == ASSUME TypeOK, ResetInv, NEW r \in Req, Statement(r) PROVE ResetInv'
  <1>a. txn[r] \in Transaction /\ WellFormed(txn[r])
    BY DEF TypeOK
  <1>b. ASSUME Publish(r), Finish(r), UNCHANGED recent, txn[r].new \notin ResetTok PROVE ResetInv'
    BY <1>b, PublishQuietly, FinishQuietly DEF Quiet
  <1>1. CASE ConsumeRejected(r)
    BY <1>1, FinishQuietly, Undisturbed DEF ConsumeRejected
  <1>2. CASE CommitRegister(r)
    BY <1>2, <1>a, <1>b, TokensAssumption DEF CommitRegister, At, WellFormed
  <1>3. CASE MintSession(r)
    BY <1>3, <1>a, <1>b, TokensAssumption DEF MintSession, At, WellFormed
  <1>4. CASE ConsumeRefreshToken(r)
    BY <1>4, <1>a, ContinueQuietly DEF ConsumeRefreshToken, CanConsume, At, Transaction
  <1>5. CASE CreateRefreshToken(r)
    BY <1>5, <1>a, ContinueQuietly DEF CreateRefreshToken, At, Transaction
  <1>6. CASE CommitRefresh(r)
    BY <1>6, <1>a, <1>b, TokensAssumption DEF CommitRefresh, At, WellFormed
  <1>7. CASE ConsumeLogout(r)
    <2>1. Quiet
      BY <1>7 DEF ConsumeLogout, Quiet, TypeOK
    <2>2. QED
      BY <1>7, <2>1, FinishQuietly DEF ConsumeLogout
  <1>8. CASE ConsumeEmailVerificationToken(r)
    BY <1>8, <1>a, ContinueQuietly
       DEF ConsumeEmailVerificationToken, CanConsume, At, Transaction
  <1>9. CASE MarkUserEmailVerified(r)
    BY <1>9, <1>a, ContinueQuietly DEF MarkUserEmailVerified, At, Transaction
  <1>10. CASE CommitVerify(r)
    <2>1. txn[r].new \notin ResetTok
      BY <1>10, <1>a, TokenKinds DEF CommitVerify, At, WellFormed
    <2>2. QED
      BY <1>10, <1>b, <2>1 DEF CommitVerify
  <1>11. CASE ConsumePasswordResetToken(r)
    BY <1>11, <1>a, ContinueQuietly DEF ConsumePasswordResetToken, CanConsume, At, Transaction
  <1>12. CASE UpdateUserPassword(r)
    BY <1>12, <1>a, ContinueQuietly DEF UpdateUserPassword, At, Transaction
  <1>13. CASE RevokeAllUserRefreshTokens(r)
    BY <1>13, <1>a, ContinueQuietly DEF RevokeAllUserRefreshTokens, At, Transaction
  <1>14. CASE CommitConfirm(r)
    <2>1. txn[r].new \notin ResetTok
      BY <1>14, <1>a, TokenKinds DEF CommitConfirm, At, WellFormed
    <2>2. QED
      BY <1>14, <1>b, <2>1 DEF CommitConfirm
  <1>15. QED
    BY <1>1, <1>2, <1>3, <1>4, <1>5, <1>6, <1>7, <1>8, <1>9, <1>10, <1>11, <1>12, <1>13, <1>14,
       LockUserResets, CountResets, InvalidateResets, VisitResets, CommitIssueResets
       DEF Statement

LEMMA ResetStep == ASSUME TypeOK, ResetInv, [Next]_vars PROVE ResetInv'
  <1>1. ASSUME NEW r \in Req, Fail(r) \/ DeadlockAbort(r) PROVE ResetInv'
    BY <1>1, FinishQuietly, Undisturbed DEF Fail, DeadlockAbort
  <1>2. ASSUME UNCHANGED txn, Quiet PROVE ResetInv'
    BY <1>2, QuietOthers, QuietProperties DEF ResetInv, Exclusive
  <1>3. ASSUME NEW t \in Token, Expire(t) \/ Age(t) PROVE ResetInv'
    BY <1>2, <1>3 DEF Expire, Age, Quiet
  <1>4. CASE UNCHANGED vars
    BY <1>2, <1>4 DEF vars, Quiet
  <1>5. QED
    BY <1>1, <1>3, <1>4, ArrivalResets, StatementResets DEF Next

LEMMA ResetInit == Init => ResetInv
  <1> SUFFICES ASSUME Init PROVE ResetInv
    OBVIOUS
  <1>1. NoTxn.op = "none" /\ NoTxn.lock = "none"
    BY DEF NoTxn, Request
  <1>2. Exclusive /\ \A r \in Req : Prepared(r)
    BY <1>1 DEF Init, Exclusive, Prepared
  <1>3. OneLiveResetToken
    BY TokenKinds DEF Init, OneLiveResetToken, Live
  <1>4. ASSUME NEW u \in User PROVE Cardinality(RecentTokens(u)) <= MaxResetTokensPerHour
    <2>1. RecentTokens(u) = {}
      BY DEF Init, RecentTokens
    <2>2. QED
      BY <2>1, FS_EmptySet, ParametersAssumption
  <1>5. QED
    BY <1>2, <1>3, <1>4 DEF ResetInv, ResetCap

LEMMA ResetsInvariant == Spec => [](TypeOK /\ ResetInv)
  <1>1. TypeOK /\ ResetInv /\ [Next]_vars => ResetInv'
    BY ResetStep
  <1>2. QED
    BY <1>1, ResetInit, TypeCorrect, PTL DEF Spec

\* However many reset requests and confirmations of however many users
\* interleave, at most one reset link of a user works at any time.
THEOREM OneLiveLink == Spec => []OneLiveResetToken
  <1>1. ResetInv => OneLiveResetToken
    BY DEF ResetInv
  <1>2. QED
    BY <1>1, ResetsInvariant, PTL

\* And no user is sent more than maxResetTokensPerHour links an hour, although
\* the count and the insert are two statements.
THEOREM CapHolds == Spec => []ResetCap
  <1>1. ResetInv => ResetCap
    BY DEF ResetInv
  <1>2. QED
    BY <1>1, ResetsInvariant, PTL

-----------------------------------------------------------------------------
(***************************************************************************)
(* Proofs about sessions: the refresh tokens descending from one login     *)
(* never fork, and a login that has ended never comes back.                *)
(***************************************************************************)

(* What makes both inductive is how a request owns the rows it will change: *)
(* the rows it marked are live and no other request's (the guarded UPDATE), *)
(* the row it will insert is nobody else's, and a refresh inserts only      *)
(* after it has marked the token it was given.                             *)

OwnsMarked(r) ==
  \A t \in txn[r].kill : status[t] = "live" /\ \A q \in Req \ {r} : t \notin txn[q].kill

OwnsNew(r) ==
  txn[r].new # None =>
    status[txn[r].new] = "fresh" /\ \A q \in Req \ {r} : txn[q].new # txn[r].new

RotatesMarked(r) ==
  txn[r].op = "refresh" /\ txn[r].pc \in {"insert", "commit"} => txn[r].tok \in txn[r].kill

SlotsInv == \A r \in Req : OwnsMarked(r) /\ OwnsNew(r) /\ RotatesMarked(r)

\* The first token of a login is its own root, and no token descends from one
\* that was never issued.
Rooted ==
  \A t \in RefreshTok :
    /\ status[t] = "fresh" => root[t] = t
    /\ status[t] # "fresh" => status[root[t]] # "fresh"

LoginInv == SlotsInv /\ Rooted /\ LoginsDoNotFork

\* What EndedLoginsStayEnded says of one step.
EndedStayEnded ==
  \A s \in RefreshTok :
    status[s] = "used" /\ ~HasLiveToken(s, status, root) => ~HasLiveToken(s, status', root')

LEMMA SlotChanged ==
  ASSUME TypeOK, NEW r \in Req, NEW x, Serve(r, x)
  PROVE  txn'[r] = x /\ \A q \in Req \ {r} : txn'[q] = txn[q]
  BY DEF TypeOK, Serve

LEMMA TablesKept ==
  ASSUME UNCHANGED db, Rooted, LoginsDoNotFork
  PROVE  Rooted' /\ LoginsDoNotFork' /\ EndedStayEnded
  BY DEF db, Rooted, LoginsDoNotFork, EndedStayEnded, HasLiveToken

\* A statement that only marks rows: live ones that no other request holds.
LEMMA MarkStep ==
  ASSUME TypeOK, LoginInv, NEW r \in Req, NEW x, Serve(r, x), UNCHANGED db,
         x.new = txn[r].new,
         \A t \in x.kill : \/ t \in txn[r].kill
                           \/ status[t] = "live" /\ \A q \in Req \ {r} : t \notin txn[q].kill,
         x.op = "refresh" /\ x.pc \in {"insert", "commit"} => x.tok \in x.kill
  PROVE  LoginInv' /\ EndedStayEnded
  <1>1. txn'[r] = x /\ \A q \in Req \ {r} : txn'[q] = txn[q]
    BY SlotChanged
  <1>2. UNCHANGED status
    BY DEF db
  <1>3. ASSUME NEW q \in Req PROVE OwnsMarked(q)'
    BY <1>1, <1>2 DEF LoginInv, SlotsInv, OwnsMarked
  <1>4. ASSUME NEW q \in Req PROVE OwnsNew(q)'
    BY <1>1, <1>2 DEF LoginInv, SlotsInv, OwnsNew
  <1>5. ASSUME NEW q \in Req PROVE RotatesMarked(q)'
    BY <1>1 DEF LoginInv, SlotsInv, RotatesMarked
  <1>6. QED
    BY <1>3, <1>4, <1>5, TablesKept DEF LoginInv, SlotsInv

\* A request begins with a token value of its own, if it will insert one.
LEMMA ArriveStep ==
  ASSUME TypeOK, LoginInv, NEW r \in Req, NEW op, NEW pc, NEW who, NEW tok, NEW pw, NEW new,
         Serve(r, Request(op, pc, who, tok, pw, new)), UNCHANGED db,
         op = "refresh" => pc = "consume",
         new # None => status[new] = "fresh" /\ \A q \in Req : txn[q].new # new
  PROVE  LoginInv' /\ EndedStayEnded
  <1> DEFINE x == Request(op, pc, who, tok, pw, new)
  <1>1. x.op = op /\ x.pc = pc /\ x.new = new /\ x.kill = {}
    BY DEF Request
  <1>2. txn'[r] = x /\ \A q \in Req \ {r} : txn'[q] = txn[q]
    BY SlotChanged
  <1>3. UNCHANGED status
    BY DEF db
  <1> HIDE DEF x
  <1>4. ASSUME NEW q \in Req PROVE OwnsMarked(q)'
    BY <1>1, <1>2, <1>3 DEF LoginInv, SlotsInv, OwnsMarked
  <1>5. ASSUME NEW q \in Req PROVE OwnsNew(q)'
    BY <1>1, <1>2, <1>3 DEF LoginInv, SlotsInv, OwnsNew
  <1>6. ASSUME NEW q \in Req PROVE RotatesMarked(q)'
    BY <1>1, <1>2 DEF LoginInv, SlotsInv, RotatesMarked
  <1>7. QED
    BY <1>4, <1>5, <1>6, TablesKept DEF LoginInv, SlotsInv

LEMMA NoTxnFields == NoTxn.op = "none" /\ NoTxn.new = None /\ NoTxn.kill = {}
  BY DEF NoTxn, Request

\* A request ends; the tables may change as long as what the others own is
\* neither used nor issued.
LEMMA FinishSlots ==
  ASSUME TypeOK, SlotsInv, NEW r \in Req, Finish(r),
         \A q \in Req \ {r} :
            /\ \A t \in txn[q].kill : status'[t] = "live"
            /\ txn[q].new # None => status'[txn[q].new] = "fresh"
  PROVE  SlotsInv'
  <1>1. txn'[r] = NoTxn /\ \A q \in Req \ {r} : txn'[q] = txn[q]
    BY SlotChanged DEF Finish
  <1>2. ASSUME NEW q \in Req PROVE OwnsMarked(q)'
    BY <1>1, NoTxnFields DEF SlotsInv, OwnsMarked
  <1>3. ASSUME NEW q \in Req PROVE OwnsNew(q)'
    BY <1>1, NoTxnFields DEF SlotsInv, OwnsNew
  <1>4. ASSUME NEW q \in Req PROVE RotatesMarked(q)'
    BY <1>1, NoTxnFields DEF SlotsInv, RotatesMarked
  <1>5. QED
    BY <1>2, <1>3, <1>4 DEF SlotsInv

LEMMA AbandonStep ==
  ASSUME TypeOK, LoginInv, NEW r \in Req, Finish(r), UNCHANGED db
  PROVE  LoginInv' /\ EndedStayEnded
  <1>1. UNCHANGED status
    BY DEF db
  <1>2. SlotsInv'
    BY <1>1, FinishSlots DEF LoginInv, SlotsInv, OwnsMarked, OwnsNew
  <1>3. QED
    BY <1>2, TablesKept DEF LoginInv

\* What a COMMIT does to the token tables.
LEMMA PublishEffect ==
  ASSUME TypeOK, SlotsInv, NEW r \in Req, Publish(r)
  PROVE  /\ \A t \in Token : status'[t] = "live" =>
                               t = txn[r].new \/ (status[t] = "live" /\ t \notin txn[r].kill)
         /\ \A t \in Token : status[t] # "fresh" => status'[t] # "fresh"
         /\ \A q \in Req \ {r} :
              /\ \A t \in txn[q].kill : status'[t] = "live"
              /\ txn[q].new # None => status'[txn[q].new] = "fresh"
  <1>1. \A t \in Token : status'[t] = IF t \in txn[r].kill THEN "used"
                                      ELSE IF t = txn[r].new THEN "live" ELSE status[t]
    BY DEF Publish
  <1>2. ASSUME NEW q \in Req \ {r}, NEW t \in txn[q].kill PROVE status'[t] = "live"
    <2>1. t \in Token /\ t \notin txn[r].kill /\ status[t] = "live"
      BY RequestFields DEF SlotsInv, OwnsMarked
    <2>2. QED
      BY <1>1, <2>1
  <1>3. ASSUME NEW q \in Req \ {r}, txn[q].new # None PROVE status'[txn[q].new] = "fresh"
    <2>1. /\ txn[q].new \in Token /\ txn[q].new # txn[r].new
          /\ txn[q].new \notin txn[r].kill /\ status[txn[q].new] = "fresh"
      BY <1>3, RequestFields DEF SlotsInv, OwnsMarked, OwnsNew
    <2>2. QED
      BY <1>1, <2>1
  <1>4. QED
    BY <1>1, <1>2, <1>3

\* COMMIT of a request that inserts no refresh token.
LEMMA CommitOther ==
  ASSUME TypeOK, LoginInv, NEW r \in Req, Publish(r), Finish(r), UNCHANGED root,
         txn[r].new \notin RefreshTok
  PROVE  LoginInv' /\ EndedStayEnded
  <1>1. SlotsInv'
    BY PublishEffect, FinishSlots DEF LoginInv
  <1>2. \A t \in RefreshTok : /\ status'[t] = "live" => status[t] = "live"
                              /\ status[t] # "fresh" => status'[t] # "fresh"
                              /\ status[t] = "fresh" => status'[t] = "fresh"
    BY PublishEffect, TokenKinds DEF LoginInv, SlotsInv, OwnsMarked, Publish
  <1>3. Rooted'
    BY <1>2 DEF LoginInv, Rooted, TypeOK
  <1>4. LoginsDoNotFork' /\ EndedStayEnded
    BY <1>2 DEF LoginInv, LoginsDoNotFork, EndedStayEnded, HasLiveToken
  <1>5. QED
    BY <1>1, <1>3, <1>4 DEF LoginInv

\* Login: the new token is the root of a login of its own, so no other token
\* is in it.
LEMMA MintLogin ==
  ASSUME TypeOK, LoginInv, NEW r \in Req, MintSession(r)
  PROVE  LoginInv' /\ EndedStayEnded
  <1> DEFINE n == txn[r].new
  <1>1. /\ n \in RefreshTok /\ n \in Token /\ n # None
        /\ Publish(r) /\ Finish(r) /\ UNCHANGED root
    BY TokenKinds DEF MintSession, TypeOK, WellFormed, At
  <1>2. SlotsInv'
    BY <1>1, PublishEffect, FinishSlots DEF LoginInv
  <1>3. status[n] = "fresh" /\ root[n] = n
    BY <1>1 DEF LoginInv, SlotsInv, OwnsNew, Rooted
  <1>4. \A t \in RefreshTok : /\ status'[t] = "live" => t = n \/ status[t] = "live"
                              /\ status[t] # "fresh" => status'[t] # "fresh"
                              /\ status[t] = "fresh" /\ t # n => status'[t] = "fresh"
    BY <1>1, PublishEffect, TokenKinds DEF LoginInv, SlotsInv, OwnsMarked, Publish
  <1>5. status'[n] # "fresh"
    BY <1>1 DEF Publish
  <1>6. \A t \in RefreshTok : root[t] \in RefreshTok
    BY DEF TypeOK
  <1>7. \A t \in RefreshTok : status[t] # "fresh" => root[t] # n
    BY <1>3 DEF LoginInv, Rooted
  <1> HIDE DEF n
  <1>8. Rooted'
    BY <1>1, <1>3, <1>4, <1>5, <1>6 DEF LoginInv, Rooted
  <1>9. LoginsDoNotFork' /\ EndedStayEnded
    BY <1>1, <1>3, <1>4, <1>7 DEF LoginInv, LoginsDoNotFork, EndedStayEnded, HasLiveToken
  <1>10. QED
    BY <1>2, <1>8, <1>9 DEF LoginInv

\* Refresh: the new token takes the place of the one the request marked,
\* which was the only live token of the login.
LEMMA RotateLogin ==
  ASSUME TypeOK, LoginInv, NEW r \in Req, CommitRefresh(r)
  PROVE  LoginInv' /\ EndedStayEnded
  <1> DEFINE n == txn[r].new  o == txn[r].tok
  <1>1. /\ n \in RefreshTok /\ n \in Token /\ n # None /\ o \in RefreshTok /\ o \in Token
        /\ o \in txn[r].kill /\ Publish(r) /\ Finish(r)
        /\ root' = [root EXCEPT ![n] = root[o]]
    BY TokenKinds DEF CommitRefresh, TypeOK, WellFormed, At, LoginInv, SlotsInv, RotatesMarked
  <1>2. SlotsInv'
    BY <1>1, PublishEffect, FinishSlots DEF LoginInv
  <1>3. status[n] = "fresh" /\ root[n] = n /\ status[o] = "live" /\ status'[o] = "used"
    BY <1>1 DEF LoginInv, SlotsInv, OwnsNew, OwnsMarked, Rooted, Publish
  <1>4. \A t \in RefreshTok : /\ status'[t] = "live" => t = n \/ (status[t] = "live" /\ t # o)
                              /\ status[t] # "fresh" => status'[t] # "fresh"
                              /\ status[t] = "fresh" /\ t # n => status'[t] = "fresh"
    BY <1>1, PublishEffect, TokenKinds DEF LoginInv, SlotsInv, OwnsMarked, Publish
  <1>5. \A t \in RefreshTok : root[t] \in RefreshTok
    BY DEF TypeOK
  <1>6. root'[n] = root[o] /\ \A t \in RefreshTok : t # n => root'[t] = root[t]
    BY <1>1 DEF TypeOK
  <1>7. \A t \in RefreshTok : status[t] # "fresh" => status[root[t]] # "fresh"
    BY DEF LoginInv, Rooted
  <1>8. \A s, t \in RefreshTok :
          status[s] = "live" /\ status[t] = "live" /\ root[s] = root[t] => s = t
    BY DEF LoginInv, LoginsDoNotFork
  <1>9. status'[n] # "fresh"
    BY <1>1 DEF Publish
  <1>a. \A t \in RefreshTok : status[t] = "fresh" => root[t] = t
    BY DEF LoginInv, Rooted
  <1> HIDE DEF n, o
  <1>10. Rooted'
    <2>1. ASSUME NEW t \in RefreshTok, t # n
          PROVE  /\ status'[t] = "fresh" => root'[t] = t
                 /\ status'[t] # "fresh" => status'[root'[t]] # "fresh"
      BY <1>4, <1>5, <1>6, <1>7, <1>a, <2>1
    <2>2. status'[root'[n]] # "fresh"
      BY <1>1, <1>3, <1>4, <1>5, <1>6, <1>7
    <2>3. QED
      BY <1>9, <2>1, <2>2 DEF Rooted
  <1>11. LoginsDoNotFork'
    BY <1>1, <1>3, <1>4, <1>6, <1>8 DEF LoginsDoNotFork
  <1>12. EndedStayEnded
    BY <1>1, <1>3, <1>4, <1>6 DEF EndedStayEnded, HasLiveToken
  <1>13. QED
    BY <1>2, <1>10, <1>11, <1>12 DEF LoginInv

LEMMA LogoutStep ==
  ASSUME TypeOK, LoginInv, NEW r \in Req, ConsumeLogout(r)
  PROVE  LoginInv' /\ EndedStayEnded
  <1> DEFINE o == txn[r].tok
  <1>1. /\ status[o] = "live" /\ \A q \in Req \ {r} : o \notin txn[q].kill
        /\ status' = [status EXCEPT ![o] = "used"] /\ Finish(r) /\ UNCHANGED root
    BY DEF ConsumeLogout, CanConsume, RowHolders
  <1>2. \A t \in Token : status'[t] = IF t = o THEN "used" ELSE status[t]
    BY <1>1 DEF TypeOK
  <1> HIDE DEF o
  <1>3. SlotsInv'
    <2>1. ASSUME NEW q \in Req \ {r}
          PROVE  /\ \A t \in txn[q].kill : status'[t] = "live"
                 /\ txn[q].new # None => status'[txn[q].new] = "fresh"
      <3>1. /\ txn[q].kill \subseteq Token
            /\ txn[q].new # None => txn[q].new \in Token
        BY RequestFields
      <3>2. QED
        BY <1>1, <1>2, <3>1 DEF LoginInv, SlotsInv, OwnsMarked, OwnsNew
    <2>2. QED
      BY <1>1, <2>1, FinishSlots DEF LoginInv
  <1>4. Rooted'
    BY <1>1, <1>2, TokenKinds DEF LoginInv, Rooted, TypeOK
  <1>5. LoginsDoNotFork' /\ EndedStayEnded
    BY <1>1, <1>2, TokenKinds DEF LoginInv, LoginsDoNotFork, EndedStayEnded, HasLiveToken
  <1>6. QED
    BY <1>3, <1>4, <1>5 DEF LoginInv

LEMMA ArrivalLogins ==
  ASSUME TypeOK, LoginInv, NEW r \in Req, Arrival(r) PROVE LoginInv' /\ EndedStayEnded
  <1>a. ASSUME NEW op, NEW pc, NEW who, NEW tok, NEW pw,
               Serve(r, Request(op, pc, who, tok, pw, None)), UNCHANGED db,
               op = "refresh" => pc = "consume"
        PROVE  LoginInv' /\ EndedStayEnded
    BY <1>a, ArriveStep
  <1>1. ASSUME NEW u \in User, NEW p \in Password, CreateUser(r, u, p)
        PROVE  LoginInv' /\ EndedStayEnded
    BY <1>1, ArriveStep DEF CreateUser, Unissued
  <1>2. ASSUME NEW u \in User, VerifyLogin(r, u) PROVE LoginInv' /\ EndedStayEnded
    BY <1>2, ArriveStep DEF VerifyLogin, Unissued
  <1>3. ASSUME NEW u \in User, BeginIssue(r, u) PROVE LoginInv' /\ EndedStayEnded
    BY <1>3, ArriveStep DEF BeginIssue, Unissued
  <1>4. ASSUME NEW t \in RefreshTok, BeginRefresh(r, t) PROVE LoginInv' /\ EndedStayEnded
    BY <1>4, ArriveStep DEF BeginRefresh, Unissued
  <1>5. ASSUME NEW t \in RefreshTok, BeginLogout(r, t) PROVE LoginInv' /\ EndedStayEnded
    BY <1>5, <1>a DEF BeginLogout
  <1>6. ASSUME NEW t \in VerifyTok, BeginVerify(r, t) PROVE LoginInv' /\ EndedStayEnded
    BY <1>6, <1>a DEF BeginVerify
  <1>7. ASSUME NEW t \in ResetTok, NEW p \in Password, BeginConfirm(r, t, p)
        PROVE  LoginInv' /\ EndedStayEnded
    BY <1>7, <1>a DEF BeginConfirm
  <1>8. QED
    BY <1>1, <1>2, <1>3, <1>4, <1>5, <1>6, <1>7 DEF Arrival

LEMMA StatementLogins ==
  ASSUME TypeOK, LoginInv, NEW r \in Req, Statement(r) PROVE LoginInv' /\ EndedStayEnded
  <1> DEFINE Goal == LoginInv' /\ EndedStayEnded
             Free(t) == status[t] = "live" /\ \A q \in Req \ {r} : t \notin txn[q].kill
  <1>a. txn[r] \in Transaction /\ WellFormed(txn[r]) /\ RotatesMarked(r)
    BY DEF TypeOK, LoginInv, SlotsInv
  <1>b. ASSUME NEW op, CanConsume(r, op) PROVE Free(txn[r].tok) /\ At(r, op, "consume")
    BY <1>b DEF CanConsume, RowHolders
  <1>c. ASSUME NEW x, Serve(r, x), UNCHANGED db, x.new = txn[r].new,
               x.kill = txn[r].kill, x.op # "refresh"
        PROVE  Goal
    <2>1. \A t \in x.kill : t \in txn[r].kill
      BY <1>c
    <2>2. QED
      BY <1>c, <2>1, MarkStep
  <1>d. ASSUME NEW x, Serve(r, x), UNCHANGED db, x.new = txn[r].new,
               x.kill = {txn[r].tok}, Free(txn[r].tok), x.tok = txn[r].tok
        PROVE  Goal
    BY <1>d, MarkStep
  <1> HIDE DEF Goal, Free
  <1>1. CASE ConsumeRejected(r)
    BY <1>1, AbandonStep DEF ConsumeRejected, Goal
  <1>2. CASE CommitRegister(r)
    BY <1>2, <1>a, CommitOther, TokensAssumption DEF CommitRegister, At, WellFormed, Goal
  <1>3. CASE MintSession(r)
    BY <1>3, MintLogin DEF Goal
  <1>4. CASE ConsumeRefreshToken(r)
    <2> DEFINE x == [txn[r] EXCEPT !.pc = "insert", !.kill = {txn[r].tok}]
    <2>1. Serve(r, x) /\ UNCHANGED db /\ Free(txn[r].tok)
      BY <1>4, <1>b DEF ConsumeRefreshToken
    <2>2. x.new = txn[r].new /\ x.tok = txn[r].tok /\ x.kill = {txn[r].tok}
      BY <1>a DEF Transaction
    <2> HIDE DEF x
    <2>3. QED
      BY <2>1, <2>2, <1>d DEF Goal
  <1>5. CASE CreateRefreshToken(r)
    <2> DEFINE x == [txn[r] EXCEPT !.pc = "commit", !.lock = "keyShare"]
    <2>1. Serve(r, x) /\ UNCHANGED db /\ txn[r].op = "refresh" /\ txn[r].pc = "insert"
      BY <1>5 DEF CreateRefreshToken, At
    <2>2. x.new = txn[r].new /\ x.kill = txn[r].kill /\ x.tok = txn[r].tok
      BY <1>a DEF Transaction
    <2>3. x.tok \in x.kill /\ \A t \in x.kill : t \in txn[r].kill
      BY <1>a, <2>1, <2>2 DEF RotatesMarked
    <2> HIDE DEF x
    <2>4. QED
      BY <2>1, <2>2, <2>3, MarkStep DEF Goal
  <1>6. CASE CommitRefresh(r)
    BY <1>6, RotateLogin DEF Goal
  <1>7. CASE ConsumeLogout(r)
    BY <1>7, LogoutStep DEF Goal
  <1>8. CASE ConsumeEmailVerificationToken(r)
    <2> DEFINE x == [txn[r] EXCEPT !.pc = "markVerified", !.kill = {txn[r].tok}]
    <2>1. Serve(r, x) /\ UNCHANGED db /\ Free(txn[r].tok)
      BY <1>8, <1>b DEF ConsumeEmailVerificationToken
    <2>2. x.new = txn[r].new /\ x.tok = txn[r].tok /\ x.kill = {txn[r].tok}
      BY <1>a DEF Transaction
    <2> HIDE DEF x
    <2>3. QED
      BY <2>1, <2>2, <1>d DEF Goal
  <1>9. CASE MarkUserEmailVerified(r)
    <2> DEFINE x == [txn[r] EXCEPT !.pc = "commit"]
               y == [txn[r] EXCEPT !.pc = "commit", !.lock = "noKeyUpdate"]
    <2>1. (Serve(r, x) \/ Serve(r, y)) /\ UNCHANGED db /\ txn[r].op = "verify"
      BY <1>9 DEF MarkUserEmailVerified, At
    <2>2. /\ x.new = txn[r].new /\ x.op = txn[r].op /\ x.kill = txn[r].kill
          /\ y.new = txn[r].new /\ y.op = txn[r].op /\ y.kill = txn[r].kill
      BY <1>a DEF Transaction
    <2> HIDE DEF x, y
    <2>3. QED
      BY <2>1, <2>2, <1>c DEF Goal
  <1>10. CASE CommitVerify(r)
    BY <1>10, <1>a, CommitOther, TokenKinds DEF CommitVerify, At, WellFormed, Goal
  <1>11. ASSUME NEW t \in Token, VisitRow(r, t) PROVE Goal
    <2> DEFINE k == IF status[t] = "live" THEN txn[r].kill \cup {t} ELSE txn[r].kill
               x == [txn[r] EXCEPT !.todo = txn[r].todo \ {t}, !.kill = k]
    <2>1. Serve(r, x) /\ UNCHANGED db /\ RowHolders(r, t) = {}
      BY <1>11 DEF VisitRow
    <2>2. x.new = txn[r].new /\ x.kill = k /\ x.tok = txn[r].tok /\ x.op = txn[r].op /\ x.pc = txn[r].pc
      BY <1>a DEF Transaction
    <2>3. \A s \in k : \/ s \in txn[r].kill
                       \/ status[s] = "live" /\ \A q \in Req \ {r} : s \notin txn[q].kill
      <3>1. \A q \in Req \ {r} : t \notin txn[q].kill
        BY <2>1 DEF RowHolders
      <3>2. QED
        BY <3>1
    <2>4. txn[r].kill \subseteq k
      OBVIOUS
    <2> HIDE DEF k, x
    <2>5. QED
      BY <1>a, <2>1, <2>2, <2>3, <2>4, MarkStep DEF Goal, RotatesMarked
  <1>12. CASE InvalidateUserPasswordResetTokens(r)
    <2> DEFINE x == [txn[r] EXCEPT !.pc = IF txn[r].op = "issue" THEN "insert" ELSE "revokeAll",
                                 !.todo = Live(ResetTok, txn[r].who) \ txn[r].kill]
    <2>1. Serve(r, x) /\ UNCHANGED db /\ txn[r].op # "refresh"
      BY <1>12, <1>a DEF InvalidateUserPasswordResetTokens, WellFormed
    <2>2. x.new = txn[r].new /\ x.op = txn[r].op /\ x.kill = txn[r].kill
      BY <1>a DEF Transaction
    <2> HIDE DEF x
    <2>3. QED
      BY <2>1, <2>2, <1>c DEF Goal
  <1>13. CASE LockUser(r)
    <2> DEFINE x == [txn[r] EXCEPT !.pc = "count", !.lock = "update"]
    <2>1. Serve(r, x) /\ UNCHANGED db /\ txn[r].op = "issue"
      BY <1>13 DEF LockUser, At
    <2>2. x.new = txn[r].new /\ x.op = txn[r].op /\ x.kill = txn[r].kill
      BY <1>a DEF Transaction
    <2> HIDE DEF x
    <2>3. QED
      BY <2>1, <2>2, <1>c DEF Goal
  <1>14. CASE CountRecentPasswordResetTokens(r)
    <2>1. UNCHANGED db /\ (Finish(r) \/ Serve(r, [txn[r] EXCEPT !.pc = "invalidate"]))
      BY <1>14 DEF CountRecentPasswordResetTokens
    <2>2. txn[r].op = "issue"
      BY <1>14 DEF CountRecentPasswordResetTokens, At
    <2>3. QED
      BY <2>1, <2>2, <1>a, <1>c, AbandonStep DEF Goal, Transaction
  <1>15. CASE CommitIssue(r)
    BY <1>15, <1>a, CommitOther, TokensAssumption DEF CommitIssue, At, WellFormed, Goal
  <1>16. CASE ConsumePasswordResetToken(r)
    <2> DEFINE x == [txn[r] EXCEPT !.pc = "setPassword", !.kill = {txn[r].tok},
                                 !.prior = Live(RefreshTok, txn[r].who)]
    <2>1. Serve(r, x) /\ UNCHANGED db /\ Free(txn[r].tok)
      BY <1>16, <1>b DEF ConsumePasswordResetToken
    <2>2. x.new = txn[r].new /\ x.tok = txn[r].tok /\ x.kill = {txn[r].tok}
      BY <1>a DEF Transaction
    <2> HIDE DEF x
    <2>3. QED
      BY <2>1, <2>2, <1>d DEF Goal
  <1>17. CASE UpdateUserPassword(r)
    <2> DEFINE x == [txn[r] EXCEPT !.pc = "invalidate", !.lock = "noKeyUpdate"]
    <2>1. Serve(r, x) /\ UNCHANGED db /\ txn[r].op = "confirm"
      BY <1>17 DEF UpdateUserPassword, At
    <2>2. x.new = txn[r].new /\ x.op = txn[r].op /\ x.kill = txn[r].kill
      BY <1>a DEF Transaction
    <2> HIDE DEF x
    <2>3. QED
      BY <2>1, <2>2, <1>c DEF Goal
  <1>18. CASE RevokeAllUserRefreshTokens(r)
    <2> DEFINE x == [txn[r] EXCEPT !.pc = "commit", !.todo = Live(RefreshTok, txn[r].who)]
    <2>1. Serve(r, x) /\ UNCHANGED db /\ txn[r].op = "confirm"
      BY <1>18 DEF RevokeAllUserRefreshTokens, At
    <2>2. x.new = txn[r].new /\ x.op = txn[r].op /\ x.kill = txn[r].kill
      BY <1>a DEF Transaction
    <2> HIDE DEF x
    <2>3. QED
      BY <2>1, <2>2, <1>c DEF Goal
  <1>19. CASE CommitConfirm(r)
    BY <1>19, <1>a, CommitOther, TokenKinds DEF CommitConfirm, At, WellFormed, Goal
  <1>20. QED
    BY <1>1, <1>2, <1>3, <1>4, <1>5, <1>6, <1>7, <1>8, <1>9, <1>10, <1>11, <1>12, <1>13,
       <1>14, <1>15, <1>16, <1>17, <1>18, <1>19 DEF Statement, Goal

LEMMA LoginStep ==
  ASSUME TypeOK, LoginInv, [Next]_vars PROVE LoginInv' /\ EndedStayEnded
  <1>1. ASSUME NEW r \in Req, Fail(r) \/ DeadlockAbort(r) PROVE LoginInv' /\ EndedStayEnded
    BY <1>1, AbandonStep DEF Fail, DeadlockAbort
  <1>2. ASSUME UNCHANGED <<status, root, txn>> PROVE LoginInv' /\ EndedStayEnded
    BY <1>2 DEF LoginInv, SlotsInv, OwnsMarked, OwnsNew, RotatesMarked, Rooted,
                LoginsDoNotFork, EndedStayEnded, HasLiveToken
  <1>3. ASSUME NEW t \in Token, Expire(t) \/ Age(t) PROVE LoginInv' /\ EndedStayEnded
    BY <1>2, <1>3 DEF Expire, Age
  <1>4. CASE UNCHANGED vars
    BY <1>2, <1>4 DEF vars
  <1>5. QED
    BY <1>1, <1>3, <1>4, ArrivalLogins, StatementLogins DEF Next

LEMMA LoginInit == Init => LoginInv
  <1> SUFFICES ASSUME Init PROVE LoginInv
    OBVIOUS
  <1>1. SlotsInv
    BY NoTxnFields DEF Init, SlotsInv, OwnsMarked, OwnsNew, RotatesMarked
  <1>2. Rooted /\ LoginsDoNotFork
    BY TokenKinds DEF Init, Rooted, LoginsDoNotFork
  <1>3. QED
    BY <1>1, <1>2 DEF LoginInv

LEMMA LoginsInvariant == Spec => [](TypeOK /\ LoginInv)
  <1>1. TypeOK /\ LoginInv /\ [Next]_vars => LoginInv'
    BY LoginStep
  <1>2. QED
    BY <1>1, LoginInit, TypeCorrect, PTL DEF Spec

\* Whatever refreshes, logouts, resets, failures and deadlock aborts interleave,
\* a login has at most one live refresh token.
THEOREM LoginsNeverFork == Spec => []LoginsDoNotFork
  <1>1. LoginInv => LoginsDoNotFork
    BY DEF LoginInv
  <1>2. QED
    BY <1>1, LoginsInvariant, PTL

\* And once it has none, it never has one again.
THEOREM EndedLoginsNeverReturn == Spec => EndedLoginsStayEnded
  <1>1. TypeOK /\ LoginInv /\ [Next]_vars => [EndedStayEnded]_vars
    BY LoginStep
  <1>2. Spec => [][EndedStayEnded]_vars
    BY <1>1, LoginsInvariant, PTL DEF Spec
  <1>3. QED
    BY <1>2 DEF EndedLoginsStayEnded, EndedStayEnded

-----------------------------------------------------------------------------
(***************************************************************************)
(* Proofs that the endpoints of AuthSessions take effect atomically, that  *)
(* what they spend is spent with its effect, and that deadlocks are pairs. *)
(*                                                                         *)
(* A commit acts on what its earlier statements read.  The invariant says  *)
(* of every statement of every endpoint which rows it has marked, which it *)
(* has still to visit and which lock it holds (Phase), what the arrival    *)
(* check found and cannot be undone (Grounds), and which two requests of a *)
(* user cannot both be where they are (Apart).                             *)
(***************************************************************************)

\* The tokens of one user.
Of(u, toks) == {t \in toks : Owner[t] = u}

\* What a request has marked, has left to visit and has locked, by statement.
Phase(x) ==
  /\ x.op \in {"none", "register", "login", "logout"} =>
       x.kill = {} /\ x.todo = {} /\ x.lock = "none"
  /\ x.op = "refresh" =>
       /\ x.todo = {}
       /\ x.kill = IF x.pc = "consume" THEN {} ELSE {x.tok}
       /\ x.lock = IF x.pc = "commit" THEN "keyShare" ELSE "none"
  /\ x.op = "verify" =>
       /\ x.todo = {}
       /\ x.kill = IF x.pc = "consume" THEN {} ELSE {x.tok}
       /\ x.lock # "none" => x.pc = "commit" /\ x.lock = "noKeyUpdate"
  /\ x.op = "issue" =>
       /\ x.lock = IF x.pc = "lockUser" THEN "none" ELSE "update"
       /\ x.kill \cup x.todo \subseteq IF x.pc = "insert" THEN Of(x.who, ResetTok) ELSE {}
  /\ x.op = "confirm" =>
       /\ x.lock = IF x.pc \in {"consume", "setPassword"} THEN "none" ELSE "noKeyUpdate"
       /\ x.kill \subseteq Of(x.who, ResetTok \cup RefreshTok)
       /\ x.pc # "commit" => x.kill \subseteq ResetTok
       /\ IF x.pc = "consume" THEN x.kill = {} /\ x.prior = {} ELSE x.tok \in x.kill
       /\ x.todo \subseteq IF x.pc = "revokeAll" THEN Of(x.who, ResetTok)
                          ELSE IF x.pc = "commit" THEN Of(x.who, RefreshTok) ELSE {}

\* What a request rests on: the checks of its arrival, and for a confirmation
\* the sessions it found, each of them ended, marked or about to be.
Grounds(r) ==
  /\ txn[r].op = "register" => txn[r].who \notin registered
  /\ txn[r].op = "login" => txn[r].who \in verified
  /\ txn[r].op = "issue" => txn[r].who \in registered
  /\ txn[r].op \in {"verify", "confirm"} => txn[r].tok \in mailed
  /\ \A t \in txn[r].prior : status[t] # "fresh" /\ Owner[t] = txn[r].who
  /\ txn[r].op = "confirm" /\ txn[r].pc = "commit" =>
       \A t \in txn[r].prior : status[t] = "used" \/ t \in txn[r].kill \cup txn[r].todo

\* Requests of one user hold compatible locks, and only one registers it.
Apart(x, y) ==
  x.who = y.who =>
    /\ ~Conflicts(x.lock, y.lock)
    /\ ~(x.op = "register" /\ y.op = "register")

\* The inductive invariant, with the ones of the two modules it extends.
EffectInv ==
  /\ \A r \in Req : Phase(txn[r]) /\ Grounds(r)
  /\ \A q, r \in Req : q # r => Apart(txn[q], txn[r])
  /\ LinksAreHonoured

Everything == TypeOK /\ ResetInv /\ LoginInv /\ EffectInv

\* What ResetLinkSpentWithEffect says of one step.
Spent ==
  \A t \in ResetTok :
     status[t] = "live" /\ status'[t] = "used" =>
         \/ \E r \in Req : /\ txn[r].op = "confirm" /\ txn[r].tok = t
                          /\ password'[Owner[t]] = txn[r].pw
         \/ \E n \in ResetTok : /\ Owner[n] = Owner[t]
                                /\ status[n] = "fresh" /\ status'[n] = "live"

\* What ResetRevokesPriorSessions says of one step.
Revoked == \A r \in Req : Confirms(r) => \A t \in txn[r].prior : status'[t] = "used"

\* A step that changes the tables is one the abstract API takes.
Effect == Atomic!Next /\ Spent /\ Revoked

-----------------------------------------------------------------------------

\* A slot that serves nothing has marked, locked and promised nothing.
LEMMA NoTxnPhase ==
  /\ NoTxn.op = "none" /\ NoTxn.pc = "idle" /\ NoTxn.who = None /\ NoTxn.lock = "none"
  /\ NoTxn.prior = {} /\ Phase(NoTxn)
<1>1. /\ NoTxn.op = "none" /\ NoTxn.pc = "idle" /\ NoTxn.who = None /\ NoTxn.lock = "none"
      /\ NoTxn.prior = {} /\ NoTxn.kill = {} /\ NoTxn.todo = {}
  BY DEF NoTxn, Request
<1> QED BY <1>1 DEF Phase

\* No lock conflicts with no lock, and conflicts are mutual.
LEMMA ConflictsNone ==
  ASSUME NEW m
  PROVE  ~Conflicts("none", m) /\ ~Conflicts(m, "none") /\ (\A n : Conflicts(m, n) <=> Conflicts(n, m))
<1> QED BY DEF Conflicts

\* Nothing a request may rest on is ever taken back.
Onward ==
  /\ registered \subseteq registered' /\ verified \subseteq verified' /\ mailed \subseteq mailed'
  /\ \A t \in Token : status[t] = "used" => status'[t] = "used"
  /\ \A t \in Token : status[t] # "fresh" => status'[t] # "fresh"

\* A step of another slot leaves what a request rests on.
LEMMA OtherGrounds ==
  ASSUME TypeOK, NEW q \in Req, Phase(txn[q]), Grounds(q), txn'[q] = txn[q], Onward,
         txn[q].op = "register" => txn[q].who \notin registered'
  PROVE  Grounds(q)'
<1>1. txn[q].prior \subseteq Token
  BY RequestFields, TokenKinds
<1> QED BY <1>1 DEF Grounds, Onward

\* One slot changes; the new request stands and is apart from the others.
LEMMA SlotStep ==
  ASSUME TypeOK, EffectInv, NEW r \in Req, NEW x, Serve(r, x), Phase(x), Onward,
         \A q \in Req \ {r} : txn[q].op = "register" => txn[q].who \notin registered',
         Grounds(r)',
         \A q \in Req \ {r} : Apart(x, txn[q])
  PROVE  /\ \A q \in Req : Phase(txn'[q]) /\ Grounds(q)'
         /\ \A q, s \in Req : q # s => Apart(txn'[q], txn'[s])
<1>1. txn'[r] = x /\ \A q \in Req \ {r} : txn'[q] = txn[q]
  BY SlotChanged
<1>2. ASSUME NEW q \in Req PROVE Phase(txn'[q]) /\ Grounds(q)'
  <2>1. CASE q = r
    BY <1>1, <2>1
  <2>2. CASE q # r
    <3>1. txn'[q] = txn[q] /\ Phase(txn[q]) /\ Grounds(q)
      BY <1>1, <2>2 DEF EffectInv
    <3> QED BY <2>2, <3>1, OtherGrounds
  <2> QED BY <2>1, <2>2
<1>3. ASSUME NEW q \in Req, NEW s \in Req, q # s PROVE Apart(txn'[q], txn'[s])
  <2>1. CASE q = r
    BY <1>1, <1>3, <2>1
  <2>2. CASE s = r
    <3>1. Apart(txn'[s], txn'[q])
      BY <1>1, <1>3, <2>2
    <3> QED BY <3>1, ConflictsNone DEF Apart
  <2>3. CASE q # r /\ s # r
    BY <1>1, <1>3, <2>3 DEF EffectInv
  <2> QED BY <2>1, <2>2, <2>3
<1> QED BY <1>2, <1>3

\* A step that leaves the tables alone says nothing about them.
LEMMA Stands ==
  ASSUME UNCHANGED db
  PROVE  /\ Onward /\ (LinksAreHonoured => LinksAreHonoured') /\ Spent /\ Revoked
         /\ registered' = registered
<1> QED BY DEF db, Onward, LinksAreHonoured, Spent, Revoked, Confirms

\* A request goes on, keeping its lock or taking one that is free.
LEMMA Continues ==
  ASSUME TypeOK, EffectInv, NEW r \in Req, NEW x, Serve(r, x), UNCHANGED db, Phase(x),
         Grounds(r)', x.who = txn[r].who, x.op = txn[r].op,
         x.lock = txn[r].lock \/ UserFree(r, x.lock)
  PROVE  EffectInv'
<1>1. ASSUME NEW q \in Req \ {r} PROVE Apart(x, txn[q])
  <2>1. Apart(txn[r], txn[q])
    BY DEF EffectInv
  <2>2. UserFree(r, x.lock) /\ txn[q].who = txn[r].who => ~Conflicts(txn[q].lock, x.lock)
    BY DEF UserFree, UserHolders
  <2> QED BY <2>1, <2>2, ConflictsNone DEF Apart
<1>2. Onward /\ LinksAreHonoured' /\ registered' = registered
  BY Stands DEF EffectInv
<1>3. \A q \in Req \ {r} : txn[q].op = "register" => txn[q].who \notin registered'
  BY <1>2 DEF EffectInv, Grounds
<1> QED BY <1>1, <1>2, <1>3, SlotStep DEF EffectInv

\* A request ends, with or without a change of the tables.
LEMMA Finishes ==
  ASSUME TypeOK, EffectInv, NEW r \in Req, Finish(r), Onward, LinksAreHonoured',
         \A q \in Req \ {r} : txn[q].op = "register" => txn[q].who \notin registered'
  PROVE  EffectInv'
<1>1. txn'[r] = NoTxn
  BY SlotChanged DEF Finish
<1>2. Grounds(r)'
  BY <1>1, NoTxnPhase DEF Grounds
<1>3. \A q \in Req \ {r} : Apart(NoTxn, txn[q])
  BY NoTxnPhase, ConflictsNone DEF Apart
<1> QED BY <1>2, <1>3, NoTxnPhase, SlotStep DEF Finish, EffectInv

\* A request ends and nothing of it remains.
LEMMA Abandons ==
  ASSUME TypeOK, EffectInv, NEW r \in Req, Finish(r), UNCHANGED db
  PROVE  EffectInv'
<1>1. Onward /\ LinksAreHonoured' /\ registered' = registered
  BY Stands DEF EffectInv
<1>2. \A q \in Req \ {r} : txn[q].op = "register" => txn[q].who \notin registered'
  BY <1>1 DEF EffectInv, Grounds
<1> QED BY <1>1, <1>2, Finishes

\* A request arrives, and what its handler checked holds.
LEMMA Arrives ==
  ASSUME TypeOK, EffectInv, NEW r \in Req, NEW op, NEW pc, NEW who, NEW tok, NEW pw, NEW new,
         Serve(r, Request(op, pc, who, tok, pw, new)), UNCHANGED db,
         op \in AllOps,
         op \in {"refresh", "verify", "confirm"} => pc = "consume",
         op = "issue" => pc = "lockUser",
         op = "register" => /\ who \notin registered
                            /\ \A q \in Req : ~(txn[q].op = "register" /\ txn[q].who = who),
         op = "login" => who \in verified,
         op = "issue" => who \in registered,
         op \in {"verify", "confirm"} => tok \in mailed
  PROVE  EffectInv'
<1> PICK x : x = Request(op, pc, who, tok, pw, new)
  OBVIOUS
<1>1. /\ x.op = op /\ x.pc = pc /\ x.who = who /\ x.tok = tok /\ x.lock = "none"
      /\ x.kill = {} /\ x.todo = {} /\ x.prior = {}
  BY DEF Request
<1>2. Phase(x)
  <2>1. CASE op \in {"register", "login", "logout"}
    BY <1>1, <2>1 DEF Phase
  <2>2. CASE op = "refresh"
    BY <1>1, <2>2 DEF Phase
  <2>5. CASE op = "verify"
    BY <1>1, <2>5 DEF Phase
  <2>3. CASE op = "issue"
    BY <1>1, <2>3 DEF Phase
  <2>4. CASE op = "confirm"
    BY <1>1, <2>4 DEF Phase
  <2> QED BY <2>1, <2>2, <2>3, <2>4, <2>5 DEF AllOps
<1>3. txn'[r] = x
  BY SlotChanged
<1>4. Grounds(r)'
  BY <1>1, <1>3 DEF Grounds, db
<1>5. \A q \in Req \ {r} : Apart(x, txn[q])
  BY <1>1, ConflictsNone DEF Apart
<1>6. Onward /\ LinksAreHonoured' /\ registered' = registered
  BY Stands DEF EffectInv
<1>7. \A q \in Req \ {r} : txn[q].op = "register" => txn[q].who \notin registered'
  BY <1>6 DEF EffectInv, Grounds
<1> QED BY <1>2, <1>4, <1>5, <1>6, <1>7, SlotStep DEF EffectInv

\* No arrival changes the tables.
LEMMA ArrivalEffects ==
  ASSUME TypeOK, EffectInv, NEW r \in Req, Arrival(r)
  PROVE  EffectInv' /\ UNCHANGED db
<1>1. ASSUME NEW u \in User, NEW p \in Password, CreateUser(r, u, p) PROVE EffectInv' /\ UNCHANGED db
  BY <1>1, Arrives DEF CreateUser, AllOps
<1>2. ASSUME NEW u \in User, VerifyLogin(r, u) PROVE EffectInv' /\ UNCHANGED db
  BY <1>2, Arrives DEF VerifyLogin, AllOps
<1>3. ASSUME NEW u \in User, BeginIssue(r, u) PROVE EffectInv' /\ UNCHANGED db
  BY <1>3, Arrives DEF BeginIssue, AllOps
<1>4. ASSUME NEW t \in RefreshTok, BeginRefresh(r, t) PROVE EffectInv' /\ UNCHANGED db
  BY <1>4, Arrives DEF BeginRefresh, AllOps
<1>5. ASSUME NEW t \in RefreshTok, BeginLogout(r, t) PROVE EffectInv' /\ UNCHANGED db
  BY <1>5, Arrives DEF BeginLogout, AllOps
<1>6. ASSUME NEW t \in VerifyTok, BeginVerify(r, t) PROVE EffectInv' /\ UNCHANGED db
  BY <1>6, Arrives DEF BeginVerify, AllOps
<1>7. ASSUME NEW t \in ResetTok, NEW p \in Password, BeginConfirm(r, t, p) PROVE EffectInv' /\ UNCHANGED db
  BY <1>7, Arrives DEF BeginConfirm, AllOps
<1> QED BY <1>1, <1>2, <1>3, <1>4, <1>5, <1>6, <1>7 DEF Arrival

\* The statements before COMMIT mark and lock rows and change no table.
LEMMA Statements1 ==
  ASSUME TypeOK, EffectInv, NEW r \in Req,
         \/ ConsumeRefreshToken(r) \/ CreateRefreshToken(r)
         \/ ConsumeEmailVerificationToken(r) \/ MarkUserEmailVerified(r)
         \/ LockUser(r) \/ ConsumePasswordResetToken(r) \/ UpdateUserPassword(r)
         \/ InvalidateUserPasswordResetTokens(r) \/ RevokeAllUserRefreshTokens(r)
         \/ \E t \in Token : VisitRow(r, t)
  PROVE  EffectInv' /\ UNCHANGED db
<1>a. txn[r] \in Transaction /\ WellFormed(txn[r]) /\ Phase(txn[r]) /\ Grounds(r)
  BY RequestFields DEF EffectInv, TypeOK
<1>b. \A x : Serve(r, x) => txn'[r] = x
  BY SlotChanged
<1>c. txn[r].tok \in Token => Owner[txn[r].tok] = txn[r].who
  BY <1>a, TokenKinds DEF WellFormed
<1>1. CASE ConsumeRefreshToken(r)
  <2> PICK x : x = [txn[r] EXCEPT !.pc = "insert", !.kill = {txn[r].tok}]
    OBVIOUS
  <2>1. Serve(r, x) /\ UNCHANGED db /\ txn[r].op = "refresh" /\ txn[r].pc = "consume"
    BY <1>1 DEF ConsumeRefreshToken, CanConsume, At
  <2>2. /\ x.op = txn[r].op /\ x.pc = "insert" /\ x.who = txn[r].who /\ x.tok = txn[r].tok
        /\ x.lock = txn[r].lock /\ x.kill = {txn[r].tok} /\ x.todo = txn[r].todo
        /\ x.prior = txn[r].prior
    BY <1>a DEF Transaction
  <2>3. Phase(x)
    BY <1>a, <2>1, <2>2 DEF Phase
  <2>4. Grounds(r)'
    BY <1>a, <1>b, <2>1, <2>2 DEF Grounds, db
  <2> QED BY <2>1, <2>2, <2>3, <2>4, Continues
<1>2. CASE CreateRefreshToken(r)
  <2> PICK x : x = [txn[r] EXCEPT !.pc = "commit", !.lock = "keyShare"]
    OBVIOUS
  <2>1. Serve(r, x) /\ UNCHANGED db /\ txn[r].op = "refresh" /\ txn[r].pc = "insert" /\ UserFree(r, "keyShare")
    BY <1>2 DEF CreateRefreshToken, At
  <2>2. /\ x.op = txn[r].op /\ x.pc = "commit" /\ x.who = txn[r].who /\ x.tok = txn[r].tok
        /\ x.lock = "keyShare" /\ x.kill = txn[r].kill /\ x.todo = txn[r].todo
        /\ x.prior = txn[r].prior
    BY <1>a DEF Transaction
  <2>3. Phase(x)
    BY <1>a, <2>1, <2>2 DEF Phase
  <2>4. Grounds(r)'
    BY <1>a, <1>b, <2>1, <2>2 DEF Grounds, db
  <2> QED BY <2>1, <2>2, <2>3, <2>4, Continues
<1>3. CASE ConsumeEmailVerificationToken(r)
  <2> PICK x : x = [txn[r] EXCEPT !.pc = "markVerified", !.kill = {txn[r].tok}]
    OBVIOUS
  <2>1. Serve(r, x) /\ UNCHANGED db /\ txn[r].op = "verify" /\ txn[r].pc = "consume"
    BY <1>3 DEF ConsumeEmailVerificationToken, CanConsume, At
  <2>2. /\ x.op = txn[r].op /\ x.pc = "markVerified" /\ x.who = txn[r].who /\ x.tok = txn[r].tok
        /\ x.lock = txn[r].lock /\ x.kill = {txn[r].tok} /\ x.todo = txn[r].todo
        /\ x.prior = txn[r].prior
    BY <1>a DEF Transaction
  <2>3. Phase(x)
    BY <1>a, <2>1, <2>2 DEF Phase
  <2>4. Grounds(r)'
    BY <1>a, <1>b, <2>1, <2>2 DEF Grounds, db
  <2> QED BY <2>1, <2>2, <2>3, <2>4, Continues
<1>4. CASE MarkUserEmailVerified(r)
  <2>1. UNCHANGED db /\ txn[r].op = "verify" /\ txn[r].pc = "markVerified"
    BY <1>4 DEF MarkUserEmailVerified, At
  <2>2. CASE Serve(r, [txn[r] EXCEPT !.pc = "commit"])
    <3> PICK x : x = [txn[r] EXCEPT !.pc = "commit"]
      OBVIOUS
    <3>1. /\ x.op = txn[r].op /\ x.pc = "commit" /\ x.who = txn[r].who /\ x.tok = txn[r].tok
          /\ x.lock = txn[r].lock /\ x.kill = txn[r].kill /\ x.todo = txn[r].todo
          /\ x.prior = txn[r].prior
      BY <1>a DEF Transaction
    <3>2. Phase(x)
      BY <1>a, <2>1, <3>1 DEF Phase
    <3>3. Grounds(r)'
      BY <1>a, <1>b, <2>1, <2>2, <3>1 DEF Grounds, db
    <3> QED BY <2>1, <2>2, <3>1, <3>2, <3>3, Continues
  <2>3. CASE Serve(r, [txn[r] EXCEPT !.pc = "commit", !.lock = "noKeyUpdate"]) /\ UserFree(r, "noKeyUpdate")
    <3> PICK x : x = [txn[r] EXCEPT !.pc = "commit", !.lock = "noKeyUpdate"]
      OBVIOUS
    <3>1. /\ x.op = txn[r].op /\ x.pc = "commit" /\ x.who = txn[r].who /\ x.tok = txn[r].tok
          /\ x.lock = "noKeyUpdate" /\ x.kill = txn[r].kill /\ x.todo = txn[r].todo
          /\ x.prior = txn[r].prior
      BY <1>a DEF Transaction
    <3>2. Phase(x)
      BY <1>a, <2>1, <3>1 DEF Phase
    <3>3. Grounds(r)'
      BY <1>a, <1>b, <2>1, <2>3, <3>1 DEF Grounds, db
    <3> QED BY <2>1, <2>3, <3>1, <3>2, <3>3, Continues
  <2> QED BY <1>4, <2>2, <2>3 DEF MarkUserEmailVerified
<1>5. CASE LockUser(r)
  <2> PICK x : x = [txn[r] EXCEPT !.pc = "count", !.lock = "update"]
    OBVIOUS
  <2>1. Serve(r, x) /\ UNCHANGED db /\ txn[r].op = "issue" /\ txn[r].pc = "lockUser" /\ UserFree(r, "update")
    BY <1>5 DEF LockUser, At
  <2>2. /\ x.op = txn[r].op /\ x.pc = "count" /\ x.who = txn[r].who /\ x.tok = txn[r].tok
        /\ x.lock = "update" /\ x.kill = txn[r].kill /\ x.todo = txn[r].todo
        /\ x.prior = txn[r].prior
    BY <1>a DEF Transaction
  <2>3. Phase(x)
    BY <1>a, <2>1, <2>2 DEF Phase
  <2>4. Grounds(r)'
    BY <1>a, <1>b, <2>1, <2>2 DEF Grounds, db
  <2> QED BY <2>1, <2>2, <2>3, <2>4, Continues
<1>6. CASE ConsumePasswordResetToken(r)
  <2> PICK x : x = [txn[r] EXCEPT !.pc = "setPassword", !.kill = {txn[r].tok},
                                  !.prior = Live(RefreshTok, txn[r].who)]
    OBVIOUS
  <2>1. Serve(r, x) /\ UNCHANGED db /\ txn[r].op = "confirm" /\ txn[r].pc = "consume"
    BY <1>6 DEF ConsumePasswordResetToken, CanConsume, At
  <2>2. /\ x.op = txn[r].op /\ x.pc = "setPassword" /\ x.who = txn[r].who /\ x.tok = txn[r].tok
        /\ x.lock = txn[r].lock /\ x.kill = {txn[r].tok} /\ x.todo = txn[r].todo
        /\ x.prior = Live(RefreshTok, txn[r].who)
    BY <1>a DEF Transaction
  <2>3. txn[r].tok \in ResetTok /\ Owner[txn[r].tok] = txn[r].who
    BY <1>a, <1>c, <2>1, TokenKinds DEF WellFormed
  <2>4. Phase(x)
    BY <1>a, <2>1, <2>2, <2>3 DEF Phase, Of
  <2>5. Grounds(r)'
    BY <1>a, <1>b, <2>1, <2>2 DEF Grounds, db, Live
  <2> QED BY <2>1, <2>2, <2>4, <2>5, Continues
<1>7. CASE UpdateUserPassword(r)
  <2> PICK x : x = [txn[r] EXCEPT !.pc = "invalidate", !.lock = "noKeyUpdate"]
    OBVIOUS
  <2>1. Serve(r, x) /\ UNCHANGED db /\ txn[r].op = "confirm" /\ txn[r].pc = "setPassword" /\ UserFree(r, "noKeyUpdate")
    BY <1>7 DEF UpdateUserPassword, At
  <2>2. /\ x.op = txn[r].op /\ x.pc = "invalidate" /\ x.who = txn[r].who /\ x.tok = txn[r].tok
        /\ x.lock = "noKeyUpdate" /\ x.kill = txn[r].kill /\ x.todo = txn[r].todo
        /\ x.prior = txn[r].prior
    BY <1>a DEF Transaction
  <2>3. Phase(x)
    BY <1>a, <2>1, <2>2 DEF Phase
  <2>4. Grounds(r)'
    BY <1>a, <1>b, <2>1, <2>2 DEF Grounds, db
  <2> QED BY <2>1, <2>2, <2>3, <2>4, Continues
<1>8. CASE InvalidateUserPasswordResetTokens(r)
  <2> PICK x : x = [txn[r] EXCEPT !.pc = IF txn[r].op = "issue" THEN "insert" ELSE "revokeAll",
                                  !.todo = Live(ResetTok, txn[r].who) \ txn[r].kill]
    OBVIOUS
  <2>1. Serve(r, x) /\ UNCHANGED db /\ txn[r].pc = "invalidate" /\ txn[r].op \in {"issue", "confirm"}
    BY <1>8, <1>a, RequestFields DEF InvalidateUserPasswordResetTokens, WellFormed, AllOps
  <2>2. /\ x.op = txn[r].op /\ x.who = txn[r].who /\ x.tok = txn[r].tok
        /\ x.pc = IF txn[r].op = "issue" THEN "insert" ELSE "revokeAll"
        /\ x.lock = txn[r].lock /\ x.kill = txn[r].kill /\ x.prior = txn[r].prior
        /\ x.todo = Live(ResetTok, txn[r].who) \ txn[r].kill
    BY <1>a DEF Transaction
  <2>3. x.todo \subseteq Of(x.who, ResetTok)
    BY <2>2 DEF Of, Live
  <2>4. Phase(x)
    <3>1. CASE txn[r].op = "issue"
      BY <1>a, <2>1, <2>2, <2>3, <3>1 DEF Phase
    <3>2. CASE txn[r].op = "confirm"
      BY <1>a, <2>1, <2>2, <2>3, <3>2 DEF Phase
    <3> QED BY <2>1, <3>1, <3>2
  <2>5. Grounds(r)'
    <3>1. x.pc # "commit" /\ txn'[r] = x
      BY <1>b, <2>1, <2>2
    <3> QED BY <1>a, <2>1, <2>2, <3>1 DEF Grounds, db
  <2> QED BY <2>1, <2>2, <2>4, <2>5, Continues
<1>9. CASE RevokeAllUserRefreshTokens(r)
  <2> PICK x : x = [txn[r] EXCEPT !.pc = "commit", !.todo = Live(RefreshTok, txn[r].who)]
    OBVIOUS
  <2>1. Serve(r, x) /\ UNCHANGED db /\ txn[r].pc = "revokeAll" /\ txn[r].op = "confirm"
    BY <1>9 DEF RevokeAllUserRefreshTokens, At
  <2>2. /\ x.op = txn[r].op /\ x.who = txn[r].who /\ x.tok = txn[r].tok /\ x.pc = "commit"
        /\ x.lock = txn[r].lock /\ x.kill = txn[r].kill /\ x.prior = txn[r].prior
        /\ x.todo = Live(RefreshTok, txn[r].who)
    BY <1>a DEF Transaction
  <2>3. Phase(x)
    BY <1>a, <2>1, <2>2 DEF Phase, Of, Live
  <2>4. \A t \in x.prior : status[t] = "used" \/ t \in x.todo
    <3>1. x.prior \subseteq RefreshTok
      BY <2>2, RequestFields
    <3> QED BY <1>a, <2>2, <3>1, TokenKinds DEF Grounds, Live, TypeOK
  <2>5. Grounds(r)'
    <3>1. txn'[r] = x /\ status' = status /\ registered' = registered /\ mailed' = mailed
      BY <1>b, <2>1 DEF db
    <3>2. x.tok \in mailed /\ \A t \in x.prior : status[t] # "fresh" /\ Owner[t] = x.who
      BY <1>a, <2>1, <2>2 DEF Grounds
    <3> QED BY <2>1, <2>2, <2>4, <3>1, <3>2 DEF Grounds
  <2> QED BY <2>1, <2>2, <2>3, <2>5, Continues
<1>10. ASSUME NEW t \in Token, VisitRow(r, t) PROVE EffectInv' /\ UNCHANGED db
  <2> PICK x : x = [txn[r] EXCEPT !.todo = txn[r].todo \ {t},
                   !.kill = IF status[t] = "live" THEN txn[r].kill \cup {t} ELSE txn[r].kill]
    OBVIOUS
  <2>1. Serve(r, x) /\ UNCHANGED db /\ t \in txn[r].todo
    BY <1>10 DEF VisitRow
  <2>2. /\ x.op = txn[r].op /\ x.who = txn[r].who /\ x.tok = txn[r].tok /\ x.pc = txn[r].pc
        /\ x.lock = txn[r].lock /\ x.prior = txn[r].prior
        /\ x.kill = (IF status[t] = "live" THEN txn[r].kill \cup {t} ELSE txn[r].kill)
        /\ x.todo = txn[r].todo \ {t}
    BY <1>a DEF Transaction
  <2>3. x.kill \subseteq txn[r].kill \cup txn[r].todo /\ x.todo \subseteq txn[r].todo /\ txn[r].kill \subseteq x.kill
    BY <2>1, <2>2
  <2>4. \/ txn[r].op = "issue" /\ txn[r].pc = "insert"
        \/ txn[r].op = "confirm" /\ txn[r].pc \in {"revokeAll", "commit"}
    BY <1>a, <2>1, RequestFields DEF Phase, AllOps
  <2>5. Phase(x)
    <3>1. CASE txn[r].op = "issue"
      BY <1>a, <2>2, <2>3, <2>4, <3>1 DEF Phase
    <3>2. CASE txn[r].op = "confirm" /\ txn[r].pc = "revokeAll"
      BY <1>a, <2>2, <2>3, <3>2 DEF Phase, Of
    <3>3. CASE txn[r].op = "confirm" /\ txn[r].pc = "commit"
      BY <1>a, <2>2, <2>3, <3>3 DEF Phase, Of
    <3> QED BY <2>4, <3>1, <3>2, <3>3
  <2>6. Grounds(r)'
    <3>1. ASSUME txn[r].op = "confirm", txn[r].pc = "commit", NEW s \in txn[r].prior
          PROVE  status[s] = "used" \/ s \in x.kill \cup x.todo
      <4>1. CASE s = t
        <5>1. status[t] \in {"live", "used"}
          BY <1>a, <3>1, <4>1 DEF Grounds, TypeOK
        <5> QED BY <2>2, <4>1, <5>1
      <4>2. CASE s # t
        BY <1>a, <2>2, <3>1, <4>2 DEF Grounds
      <4> QED BY <4>1, <4>2
    <3> QED BY <1>a, <1>b, <2>1, <2>2, <3>1 DEF Grounds, db
  <2> QED BY <2>1, <2>2, <2>5, <2>6, Continues
<1> QED BY <1>1, <1>2, <1>3, <1>4, <1>5, <1>6, <1>7, <1>8, <1>9, <1>10

\* Neither does any way of ending without success.
LEMMA Statements2 ==
  ASSUME TypeOK, ResetInv, EffectInv, NEW r \in Req,
         \/ ConsumeRejected(r) \/ CountRecentPasswordResetTokens(r) \/ Fail(r) \/ DeadlockAbort(r)
  PROVE  EffectInv' /\ UNCHANGED db
<1>a. txn[r] \in Transaction /\ Phase(txn[r]) /\ Grounds(r)
  BY DEF EffectInv, TypeOK
<1>1. UNCHANGED db
  BY DEF ConsumeRejected, CountRecentPasswordResetTokens, Fail, DeadlockAbort
<1>2. CASE Finish(r)
  BY <1>1, <1>2, Abandons
<1>3. CASE At(r, "issue", "count") /\ Serve(r, [txn[r] EXCEPT !.pc = "invalidate"])
  <2> PICK x : x = [txn[r] EXCEPT !.pc = "invalidate"]
    OBVIOUS
  <2>1. Serve(r, x) /\ txn[r].op = "issue" /\ txn[r].pc = "count" /\ txn'[r] = x
    BY <1>3, SlotChanged DEF At
  <2>2. /\ x.op = txn[r].op /\ x.pc = "invalidate" /\ x.who = txn[r].who /\ x.tok = txn[r].tok
        /\ x.lock = txn[r].lock /\ x.kill = txn[r].kill /\ x.todo = txn[r].todo
        /\ x.prior = txn[r].prior
    BY <1>a DEF Transaction
  <2>3. Phase(x)
    BY <1>a, <2>1, <2>2 DEF Phase
  <2>4. Grounds(r)'
    BY <1>a, <1>1, <2>1, <2>2 DEF Grounds, db
  <2> QED BY <1>1, <2>1, <2>2, <2>3, <2>4, Continues
<1> QED BY <1>1, <1>2, <1>3 DEF ConsumeRejected, CountRecentPasswordResetTokens, Fail, DeadlockAbort

\* What every COMMIT has in common: it uses up only the rows its request
\* marked, keeps the links honoured, and a confirmation has marked, or found
\* used, every session it set out to end.
LEMMA Commits ==
  ASSUME TypeOK, LoginInv, EffectInv, NEW r \in Req, Publish(r), Finish(r),
         registered' = IF txn[r].op = "register" THEN registered \cup {txn[r].who} ELSE registered,
         verified \subseteq verified',
         mailed' = mailed \/ (mailed' = mailed \cup {txn[r].new} /\ txn[r].new # None),
         \A t \in txn[r].kill \cap VerifyTok : Owner[t] \in verified',
         txn[r].op = "confirm" => txn[r].pc = "commit" /\ txn[r].todo = {}
  PROVE  /\ EffectInv' /\ Revoked
         /\ \A t \in Token : status[t] = "live" /\ status'[t] = "used" => t \in txn[r].kill
<1>1. \A t \in Token : status'[t] = IF t \in txn[r].kill THEN "used"
                                    ELSE IF t = txn[r].new THEN "live" ELSE status[t]
  BY DEF Publish
<1>2. /\ txn[r].new # None => txn[r].new \in Token /\ status[txn[r].new] = "fresh"
      /\ \A t \in txn[r].kill : t \in Token /\ status[t] = "live"
      /\ \A q \in Req \ {r}, t \in txn[r].kill : t \notin txn[q].kill
  BY RequestFields DEF LoginInv, SlotsInv, OwnsNew, OwnsMarked
<1>3. /\ \A t \in Token : status[t] = "used" => status'[t] = "used"
      /\ \A t \in Token : status[t] # "fresh" => status'[t] # "fresh"
      /\ \A t \in Token : status[t] # "used" /\ status'[t] = "used" => t \in txn[r].kill
  BY <1>1, <1>2, TokenKinds DEF TypeOK
<1>4. Onward
  BY <1>3 DEF Onward
<1>5. LinksAreHonoured'
  <2>1. ASSUME NEW t \in mailed' PROVE status'[t] # "fresh"
    <3>1. mailed \subseteq Token
      BY TokenKinds DEF TypeOK
    <3>2. t \in mailed => status[t] # "fresh"
      BY DEF EffectInv, LinksAreHonoured
    <3>3. t = txn[r].new /\ txn[r].new # None => status'[t] # "fresh"
      BY <1>1, <1>2
    <3> QED BY <1>3, <3>1, <3>2, <3>3
  <2>2. ASSUME NEW t \in VerifyTok, status'[t] = "used" PROVE Owner[t] \in verified'
    <3>1. t \in Token
      BY TokenKinds
    <3>2. CASE status[t] = "used"
      BY <3>2 DEF EffectInv, LinksAreHonoured
    <3>3. CASE status[t] # "used"
      BY <1>3, <2>2, <3>1, <3>3
    <3> QED BY <3>2, <3>3
  <2> QED BY <2>1, <2>2 DEF LinksAreHonoured
<1>6. ASSUME NEW q \in Req \ {r}, txn[q].op = "register" PROVE txn[q].who \notin registered'
  <2>1. txn[q].who \notin registered
    BY <1>6 DEF EffectInv, Grounds
  <2>2. txn[r].op = "register" => txn[r].who # txn[q].who
    BY <1>6 DEF EffectInv, Apart
  <2> QED BY <2>1, <2>2
<1>7. EffectInv'
  BY <1>4, <1>5, <1>6, Finishes
<1>8. ASSUME NEW q \in Req, Confirms(q), NEW t \in txn[q].prior PROVE status'[t] = "used"
  <2>1. txn[q].op = "confirm" /\ txn[q].tok \in txn[r].kill /\ t \in Token
    BY <1>3, <1>8, TokenKinds, RequestFields DEF Confirms
  <2>2. txn[q].pc # "consume" /\ txn[q].tok \in txn[q].kill
    BY <1>8, <2>1 DEF EffectInv, Phase
  <2>3. q = r
    BY <1>2, <2>1, <2>2
  <2>4. status[t] = "used" \/ t \in txn[r].kill
    BY <1>8, <2>1, <2>3 DEF EffectInv, Grounds
  <2> QED BY <1>1, <1>3, <2>1, <2>4
<1> QED BY <1>3, <1>7, <1>8 DEF Revoked

\* Registration is one step: the email was free at the arrival and the
\* waiting on the unique index has kept it free.
LEMMA CommitRegisterEffect ==
  ASSUME Everything, NEW r \in Req, CommitRegister(r)
  PROVE  EffectInv' /\ Effect
<1>a. TypeOK /\ LoginInv /\ EffectInv /\ WellFormed(txn[r]) /\ Phase(txn[r]) /\ Grounds(r)
  BY RequestFields DEF Everything, EffectInv
<1> PICK u, p, n : u = txn[r].who /\ p = txn[r].pw /\ n = txn[r].new
  OBVIOUS
<1>1. /\ txn[r].op = "register" /\ txn[r].kill = {} /\ u \in User /\ p \in Password /\ n \in VerifyTok
      /\ u \notin registered
  BY <1>a DEF CommitRegister, At, WellFormed, Phase, Grounds
<1>2. n # None /\ Owner[n] = u /\ status[n] = "fresh"
  BY <1>a, <1>1, TokenKinds DEF WellFormed, LoginInv, SlotsInv, OwnsNew
<1>3. /\ EffectInv' /\ Revoked
      /\ \A t \in Token : status[t] = "live" /\ status'[t] = "used" => t \in txn[r].kill
  BY <1>a, <1>1, <1>2, Commits DEF CommitRegister, SendAsync
<1>4. Spent
  BY <1>1, <1>3, TokenKinds DEF Spent
<1>5. status' = [t \in Token |-> IF t \in {} THEN "used" ELSE IF t \in {n} THEN "live" ELSE status[t]]
  BY <1>1 DEF CommitRegister, Publish
<1>6. Atomic!Register(u, p, n)
  BY <1>1, <1>2, <1>5
     DEF CommitRegister, SendAsync, Atomic!Register, Atomic!Fresh, Atomic!Move, Atomic!Mail,
         Atomic!Token, Token
<1> QED BY <1>1, <1>3, <1>4, <1>6 DEF Effect, Atomic!Next

\* Login is one step.
LEMMA MintSessionEffect ==
  ASSUME Everything, NEW r \in Req, MintSession(r)
  PROVE  EffectInv' /\ Effect
<1>a. TypeOK /\ LoginInv /\ EffectInv /\ WellFormed(txn[r]) /\ Phase(txn[r]) /\ Grounds(r)
  BY RequestFields DEF Everything, EffectInv
<1> PICK u, n : u = txn[r].who /\ n = txn[r].new
  OBVIOUS
<1>1. /\ txn[r].op = "login" /\ txn[r].kill = {} /\ u \in User /\ n \in RefreshTok /\ u \in verified
  BY <1>a DEF MintSession, At, WellFormed, Phase, Grounds
<1>2. n # None /\ Owner[n] = u /\ status[n] = "fresh"
  BY <1>a, <1>1, TokenKinds DEF WellFormed, LoginInv, SlotsInv, OwnsNew
<1>3. /\ EffectInv' /\ Revoked
      /\ \A t \in Token : status[t] = "live" /\ status'[t] = "used" => t \in txn[r].kill
  BY <1>a, <1>1, <1>2, Commits DEF MintSession
<1>4. Spent
  BY <1>1, <1>3, TokenKinds DEF Spent
<1>5. status' = [t \in Token |-> IF t \in {} THEN "used" ELSE IF t \in {n} THEN "live" ELSE status[t]]
  BY <1>1 DEF MintSession, Publish
<1>6. Atomic!Login(u, n)
  BY <1>1, <1>2, <1>5
     DEF MintSession, Atomic!Login, Atomic!Fresh, Atomic!Move, Atomic!Token, Token
<1> QED BY <1>1, <1>3, <1>4, <1>6 DEF Effect, Atomic!Next

\* Refresh is one step: the old token goes as the new one comes.
LEMMA CommitRefreshEffect ==
  ASSUME Everything, NEW r \in Req, CommitRefresh(r)
  PROVE  EffectInv' /\ Effect
<1>a. TypeOK /\ LoginInv /\ EffectInv /\ WellFormed(txn[r]) /\ Phase(txn[r]) /\ Grounds(r)
  BY RequestFields DEF Everything, EffectInv
<1> PICK t, n : t = txn[r].tok /\ n = txn[r].new
  OBVIOUS
<1>1. txn[r].op = "refresh" /\ txn[r].kill = {t} /\ t \in RefreshTok /\ n \in RefreshTok
  BY <1>a DEF CommitRefresh, At, WellFormed, Phase
<1>2. n # None /\ Owner[n] = Owner[t] /\ status[n] = "fresh" /\ status[t] = "live"
  BY <1>a, <1>1, TokenKinds DEF WellFormed, LoginInv, SlotsInv, OwnsNew, OwnsMarked
<1>3. /\ EffectInv' /\ Revoked
      /\ \A s \in Token : status[s] = "live" /\ status'[s] = "used" => s \in txn[r].kill
  BY <1>a, <1>1, <1>2, TokensAssumption, Commits DEF CommitRefresh
<1>4. Spent
  BY <1>1, <1>3, TokenKinds, TokensAssumption DEF Spent
<1>5. status' = [s \in Token |-> IF s \in {t} THEN "used" ELSE IF s \in {n} THEN "live" ELSE status[s]]
  BY <1>1 DEF CommitRefresh, Publish
<1>6. Atomic!Refresh(t, n)
  BY <1>1, <1>2, <1>5
     DEF CommitRefresh, Atomic!Refresh, Atomic!Fresh, Atomic!Move, Atomic!Token, Token
<1> QED BY <1>1, <1>3, <1>4, <1>6 DEF Effect, Atomic!Next

\* Logout is one statement.
LEMMA ConsumeLogoutEffect ==
  ASSUME Everything, NEW r \in Req, ConsumeLogout(r)
  PROVE  EffectInv' /\ Effect
<1>a. TypeOK /\ LoginInv /\ EffectInv /\ WellFormed(txn[r]) /\ Phase(txn[r]) /\ Grounds(r)
  BY RequestFields DEF Everything, EffectInv
<1> PICK t : t = txn[r].tok
  OBVIOUS
<1>1. txn[r].op = "logout" /\ t \in RefreshTok /\ t \in Token /\ status[t] = "live"
  BY <1>a, TokenKinds DEF ConsumeLogout, CanConsume, At, WellFormed
<1>2. \A s \in Token : status'[s] = IF s = t THEN "used" ELSE status[s]
  BY <1>a DEF ConsumeLogout, TypeOK
<1>3. Onward /\ registered' = registered
  BY <1>1, <1>2 DEF Onward, ConsumeLogout
<1>4. t \notin ResetTok /\ t \notin VerifyTok
  BY <1>1, TokensAssumption
<1>5. LinksAreHonoured'
  <2>1. mailed' = mailed /\ verified' = verified /\ mailed \subseteq Token
    BY <1>a, TokenKinds DEF ConsumeLogout, TypeOK
  <2> QED BY <1>a, <1>2, <1>4, <2>1, TokenKinds DEF LinksAreHonoured, EffectInv
<1>6. EffectInv'
  BY <1>a, <1>3, <1>5, Finishes DEF ConsumeLogout, EffectInv, Grounds
<1>7. Spent /\ Revoked
  BY <1>2, <1>4, TokenKinds DEF Spent, Revoked, Confirms
<1>8. status' = [s \in Token |-> IF s \in {t} THEN "used" ELSE IF s \in {} THEN "live" ELSE status[s]]
  BY <1>a DEF ConsumeLogout, TypeOK
<1>9. Atomic!Logout(t)
  BY <1>1, <1>8 DEF ConsumeLogout, Atomic!Logout, Atomic!Move, Atomic!Token, Token
<1> QED BY <1>1, <1>6, <1>7, <1>9 DEF Effect, Atomic!Next

\* Verification is one step: link and address together.
LEMMA CommitVerifyEffect ==
  ASSUME Everything, NEW r \in Req, CommitVerify(r)
  PROVE  EffectInv' /\ Effect
<1>a. TypeOK /\ LoginInv /\ EffectInv /\ WellFormed(txn[r]) /\ Phase(txn[r]) /\ Grounds(r)
  BY RequestFields DEF Everything, EffectInv
<1> PICK t : t = txn[r].tok
  OBVIOUS
<1>1. /\ txn[r].op = "verify" /\ txn[r].kill = {t} /\ t \in VerifyTok /\ t \in mailed
      /\ txn[r].new = None
  BY <1>a DEF CommitVerify, At, WellFormed, Phase, Grounds
<1>2. t # None /\ Owner[t] = txn[r].who /\ status[t] = "live"
  BY <1>a, <1>1, TokenKinds DEF WellFormed, LoginInv, SlotsInv, OwnsMarked
<1>3. /\ EffectInv' /\ Revoked
      /\ \A s \in Token : status[s] = "live" /\ status'[s] = "used" => s \in txn[r].kill
  BY <1>a, <1>1, <1>2, Commits DEF CommitVerify
<1>4. Spent
  BY <1>1, <1>3, TokenKinds, TokensAssumption DEF Spent
<1>5. status' = [s \in Token |-> IF s \in {t} THEN "used" ELSE IF s \in {} THEN "live" ELSE status[s]]
  BY <1>1, TokenKinds DEF CommitVerify, Publish
<1>6. Atomic!Verify(t)
  BY <1>1, <1>2, <1>5 DEF CommitVerify, Atomic!Verify, Atomic!Move, Atomic!Token, Token
<1> QED BY <1>1, <1>3, <1>4, <1>6 DEF Effect, Atomic!Next

\* The cardinality of the abstract module is the one of this module.
LEMMA SameCardinality == \A S : Atomic!Cardinality(S) = Cardinality(S)
  BY DEF Cardinality, Atomic!Cardinality

\* Issuing is one step: what it counted and marked under the row lock is still
\* all there is.
LEMMA CommitIssueEffect ==
  ASSUME Everything, NEW r \in Req, CommitIssue(r)
  PROVE  EffectInv' /\ Effect
<1>a. TypeOK /\ LoginInv /\ EffectInv /\ WellFormed(txn[r]) /\ Phase(txn[r]) /\ Grounds(r) /\ Prepared(r)
  BY RequestFields DEF Everything, EffectInv, ResetInv
<1> PICK u, n : u = txn[r].who /\ n = txn[r].new
  OBVIOUS
<1>1. /\ txn[r].op = "issue" /\ txn[r].pc = "insert" /\ txn[r].todo = {} /\ u \in User /\ n \in ResetTok
      /\ u \in registered
  BY <1>a DEF CommitIssue, At, WellFormed, Grounds
<1>2. n # None /\ Owner[n] = u /\ status[n] = "fresh"
  BY <1>a, <1>1, TokenKinds DEF WellFormed, LoginInv, SlotsInv, OwnsNew
<1>3. Cardinality(RecentTokens(u)) < MaxResetTokensPerHour
  BY <1>a, <1>1 DEF Prepared
<1>4. txn[r].kill = Live(ResetTok, u)
  <2>1. Live(ResetTok, u) \subseteq txn[r].kill
    BY <1>a, <1>1 DEF Prepared
  <2>2. txn[r].kill \subseteq Of(u, ResetTok)
    BY <1>a, <1>1 DEF Phase
  <2>3. \A t \in txn[r].kill : status[t] = "live"
    BY <1>a DEF LoginInv, SlotsInv, OwnsMarked
  <2> QED BY <2>1, <2>2, <2>3 DEF Of, Live
<1>5. /\ EffectInv' /\ Revoked
      /\ \A s \in Token : status[s] = "live" /\ status'[s] = "used" => s \in txn[r].kill
  <2>1. txn[r].kill \cap VerifyTok = {}
    BY <1>4, TokensAssumption DEF Live
  <2> QED BY <1>a, <1>1, <1>2, <2>1, Commits DEF CommitIssue, SendAsync
<1>6. status'[n] = "live"
  BY <1>1, <1>2, <1>4, TokenKinds DEF CommitIssue, Publish, Live
<1>7. Spent
  BY <1>1, <1>2, <1>4, <1>5, <1>6, TokenKinds DEF Spent, Live
<1>8. status' = [s \in Token |-> IF s \in Live(ResetTok, u) THEN "used" ELSE IF s \in {n} THEN "live" ELSE status[s]]
  BY <1>4 DEF CommitIssue, Publish
<1>9. Atomic!Cardinality({t \in recent : Owner[t] = u}) < MaxResetTokensPerHour
  BY <1>3, SameCardinality DEF RecentTokens
<1>10. Atomic!Live(ResetTok, u) = Live(ResetTok, u)
  BY DEF Atomic!Live, Live
<1>11. Atomic!Move(Atomic!Live(ResetTok, u), {n})
  BY <1>8, <1>10 DEF Atomic!Move, Atomic!Token, Token
<1>12. Atomic!Mail(n) /\ Atomic!Fresh(n, u)
  BY <1>2 DEF CommitIssue, SendAsync, Atomic!Mail, Atomic!Fresh
<1>13. Atomic!Issue(u, n)
  <2>1. recent' = recent \cup {n} /\ UNCHANGED <<registered, verified, password, expired, root>>
    BY DEF CommitIssue
  <2> QED BY <1>1, <1>9, <1>11, <1>12, <2>1 DEF Atomic!Issue
<1> QED BY <1>1, <1>5, <1>7, <1>13 DEF Effect, Atomic!Next

\* Confirmation is one step: its link is the only live one of the user.
LEMMA CommitConfirmEffect ==
  ASSUME Everything, NEW r \in Req, CommitConfirm(r)
  PROVE  EffectInv' /\ Effect
<1>a. TypeOK /\ LoginInv /\ EffectInv /\ WellFormed(txn[r]) /\ Phase(txn[r]) /\ Grounds(r) /\ OneLiveResetToken
  BY RequestFields DEF Everything, EffectInv, ResetInv
<1> PICK t, u, p, ended : t = txn[r].tok /\ u = txn[r].who /\ p = txn[r].pw /\ ended = txn[r].kill \ {t}
  OBVIOUS
<1>1. /\ txn[r].op = "confirm" /\ txn[r].pc = "commit" /\ txn[r].todo = {} /\ t \in ResetTok
      /\ p \in Password /\ u \in User /\ txn[r].new = None /\ t \in mailed
  BY <1>a DEF CommitConfirm, At, WellFormed, Grounds
<1>2. t \in txn[r].kill /\ txn[r].kill \subseteq Of(u, ResetTok \cup RefreshTok)
  BY <1>a, <1>1 DEF Phase
<1>3. \A s \in txn[r].kill : status[s] = "live" /\ Owner[s] = u /\ s \in ResetTok \cup RefreshTok
  BY <1>a, <1>2 DEF LoginInv, SlotsInv, OwnsMarked, Of
<1>4. Owner[t] = u /\ status[t] = "live" /\ Live(ResetTok, u) = {t}
  BY <1>a, <1>1, <1>2, <1>3 DEF OneLiveResetToken, Live
<1>5. ended \subseteq Live(RefreshTok, u) /\ txn[r].kill = {t} \cup ended
  BY <1>1, <1>2, <1>3, <1>4 DEF Live
<1>6. /\ EffectInv' /\ Revoked
      /\ \A s \in Token : status[s] = "live" /\ status'[s] = "used" => s \in txn[r].kill
  <2>1. txn[r].kill \cap VerifyTok = {}
    BY <1>3, TokensAssumption
  <2> QED BY <1>a, <1>1, <2>1, Commits DEF CommitConfirm
<1>7. password'[u] = p
  BY <1>a, <1>1 DEF CommitConfirm, TypeOK
<1>8. Spent
  <2>1. ASSUME NEW s \in ResetTok, status[s] = "live", status'[s] = "used"
        PROVE  txn[r].tok = s /\ password'[Owner[s]] = txn[r].pw
    <3>1. s \in txn[r].kill
      BY <1>6, <2>1, TokenKinds
    <3>2. s \in Live(ResetTok, u)
      BY <1>3, <2>1, <3>1 DEF Live
    <3> QED BY <1>4, <1>7, <3>2
  <2> QED BY <1>1, <2>1 DEF Spent
<1>9. status' = [s \in Token |-> IF s \in {t} \cup ended THEN "used" ELSE IF s \in {} THEN "live" ELSE status[s]]
  BY <1>1, <1>5, TokenKinds DEF CommitConfirm, Publish
<1>10. Atomic!Confirm(t, p, ended)
  BY <1>1, <1>4, <1>9
     DEF CommitConfirm, Atomic!Confirm, Atomic!Move, Atomic!Live, Live, Atomic!Token, Token
<1>11. ended \in SUBSET Atomic!Live(RefreshTok, Owner[t])
  BY <1>4, <1>5 DEF Atomic!Live, Live
<1> QED BY <1>1, <1>6, <1>8, <1>10, <1>11 DEF Effect, Atomic!Next

\* Every step preserves the invariant, and changes the tables as the abstract
\* API would, or not at all.
LEMMA EffectStep ==
  ASSUME Everything, [Next]_vars
  PROVE  Everything' /\ (Effect \/ UNCHANGED db)
<1>a. TypeOK /\ ResetInv /\ LoginInv /\ EffectInv
  BY DEF Everything
<1>1. TypeOK' /\ ResetInv' /\ LoginInv'
  BY <1>a, TypeStep, ResetStep, LoginStep
<1>2. ASSUME NEW r \in Req, Arrival(r) \/ Fail(r) \/ DeadlockAbort(r) PROVE EffectInv' /\ UNCHANGED db
  BY <1>a, <1>2, ArrivalEffects, Statements2
<1>3. ASSUME NEW r \in Req, Statement(r) PROVE EffectInv' /\ (Effect \/ UNCHANGED db)
  BY <1>a, <1>3, Statements1, Statements2, CommitRegisterEffect, MintSessionEffect, CommitRefreshEffect,
     ConsumeLogoutEffect, CommitVerifyEffect, CommitIssueEffect, CommitConfirmEffect DEF Statement
<1>4. ASSUME NEW t \in Token, Expire(t) \/ Age(t) PROVE EffectInv' /\ Effect
  <2>1. UNCHANGED <<registered, verified, password, status, mailed, root, txn>>
    BY <1>4 DEF Expire, Age
  <2>2. ASSUME NEW r \in Req PROVE Grounds(r)'
    BY <1>a, <2>1 DEF EffectInv, Grounds
  <2>3. EffectInv'
    BY <1>a, <2>1, <2>2 DEF EffectInv, LinksAreHonoured
  <2>4. Spent /\ Revoked
    BY <2>1 DEF Spent, Revoked, Confirms
  <2>5. Expire(t) => Atomic!Expire(t)
    BY DEF Expire, Atomic!Expire
  <2>6. Age(t) => t \in recent /\ Atomic!Age(t)
    BY DEF Age, Atomic!Age
  <2>7. Atomic!Next
    BY <1>4, <2>5, <2>6 DEF Atomic!Next, Atomic!Token, Token
  <2> QED BY <2>3, <2>4, <2>7 DEF Effect
<1>5. CASE UNCHANGED vars
  <2>1. UNCHANGED db /\ UNCHANGED txn
    BY <1>5 DEF vars, db
  <2>2. ASSUME NEW r \in Req PROVE Grounds(r)'
    BY <1>a, <2>1 DEF EffectInv, Grounds, db
  <2>3. EffectInv'
    BY <1>a, <2>1, <2>2 DEF EffectInv, LinksAreHonoured, db
  <2> QED BY <1>1, <2>1, <2>3 DEF Everything
<1>6. EffectInv' /\ (Effect \/ UNCHANGED db)
  BY <1>2, <1>3, <1>4, <1>5 DEF Next, Everything
<1> QED BY <1>1, <1>6 DEF Everything

\* The invariant holds before the first request.
LEMMA EffectInit == Init => Everything
<1> SUFFICES ASSUME Init PROVE Everything
  OBVIOUS
<1>1. TypeOK
  BY NoTxnType, ParametersAssumption, TokensAssumption DEF Init, TypeOK
<1>2. \A r \in Req : txn[r] = NoTxn
  BY DEF Init
<1>3. \A r \in Req : Phase(txn[r]) /\ Grounds(r)
  BY <1>2, NoTxnPhase DEF Grounds
<1>4. \A q, r \in Req : q # r => Apart(txn[q], txn[r])
  BY <1>2, NoTxnPhase, ConflictsNone DEF Apart
<1>5. LinksAreHonoured
  BY TokenKinds DEF Init, LinksAreHonoured
<1> QED BY <1>1, <1>3, <1>4, <1>5, ResetInit, LoginInit DEF EffectInv, Everything

\* Whatever requests, failures and deadlock aborts interleave, what a commit
\* relies on holds when it commits.
THEOREM EffectsInvariant == Spec => []Everything
<1>1. Everything /\ [Next]_vars => Everything'
  BY EffectStep
<1> QED BY <1>1, EffectInit, PTL DEF Spec

\* A mailed link is backed by a committed token, and no verification link is
\* used up without its address having been verified.
THEOREM LinksHonoured == Spec => []LinksAreHonoured
<1>1. Everything => LinksAreHonoured
  BY DEF Everything, EffectInv
<1> QED BY <1>1, EffectsInvariant, PTL

\* Every behaviour of the concurrent handlers is one of the abstract API, in
\* which each endpoint that succeeds is a single step (AuthAtomic).
THEOREM EndpointsAreAtomic == Spec => AtomicEffects
<1>1. Init => Atomic!Init
  BY DEF Init, Atomic!Init, Atomic!Token, Token
<1>2. Everything /\ [Next]_vars => [Atomic!Next]_(Atomic!vars)
  BY EffectStep DEF Effect, Atomic!vars, db
<1>3. Spec => Atomic!Spec
  BY <1>1, <1>2, EffectsInvariant, PTL DEF Spec, Atomic!Spec
<1> QED BY <1>3 DEF AtomicEffects

\* A reset link stops working only together with the password it sets, or as a
\* newer one takes its place.
THEOREM LinksSpentWithEffect == Spec => ResetLinkSpentWithEffect
<1>1. Everything /\ [Next]_vars => [Spent]_vars
  <2>1. ASSUME UNCHANGED db PROVE Spent
    BY <2>1, Stands
  <2> QED BY <2>1, EffectStep DEF Effect
<1>2. Spec => [][Spent]_vars
  BY <1>1, EffectsInvariant, PTL DEF Spec
<1> QED BY <1>2 DEF ResetLinkSpentWithEffect, Spent

\* When a confirmation commits, every refresh token that was live when it
\* consumed its link is used up.
THEOREM ResetsRevokePriorSessions == Spec => ResetRevokesPriorSessions
<1>1. Everything /\ [Next]_vars => [Revoked]_vars
  <2>1. ASSUME UNCHANGED db PROVE Revoked
    BY <2>1, Stands
  <2> QED BY <2>1, EffectStep DEF Effect
<1>2. Spec => [][Revoked]_vars
  BY <1>1, EffectsInvariant, PTL DEF Spec
<1> QED BY <1>2 DEF ResetRevokesPriorSessions, Revoked

\* Why one request waits for another.
LEMMA Waits ==
  ASSUME NEW r \in Req, NEW q \in WaitsFor(r)
  PROVE  /\ q \in Req \ {r}
         /\ \/ \E t \in txn[r].todo : t \in txn[q].kill
            \/ txn[r].pc = "consume" /\ txn[r].tok \in txn[q].kill
            \/ txn[r].pc = "lockUser" /\ Conflicts(txn[q].lock, "update")
            \/ /\ txn[r].pc = "insert" /\ txn[r].op # "issue" /\ txn[q].who = txn[r].who
               /\ Conflicts(txn[q].lock, "keyShare")
            \/ /\ txn[r].pc \in {"setPassword", "markVerified"} /\ txn[q].who = txn[r].who
               /\ Conflicts(txn[q].lock, "noKeyUpdate")
<1>1. CASE txn[r].todo # {}
  BY <1>1 DEF WaitsFor, RowHolders
<1>2. CASE txn[r].todo = {} /\ txn[r].pc = "insert" /\ txn[r].op # "issue"
  BY <1>2 DEF WaitsFor, UserHolders
<1>3. CASE txn[r].todo = {} /\ txn[r].pc = "setPassword"
  BY <1>3 DEF WaitsFor, UserHolders
<1>4. CASE txn[r].todo = {} /\ txn[r].pc = "markVerified" /\ txn[r].who \notin verified
  BY <1>4 DEF WaitsFor, UserHolders
<1>5. CASE txn[r].todo = {} /\ txn[r].pc = "consume"
  BY <1>5 DEF WaitsFor, RowHolders
<1>6. CASE txn[r].todo = {} /\ txn[r].pc = "lockUser"
  BY <1>6 DEF WaitsFor, UserHolders
<1> QED BY <1>1, <1>2, <1>3, <1>4, <1>5, <1>6 DEF WaitsFor

\* Who may have marked a token row, and how far it must have come.
LEMMA MarkedRows ==
  ASSUME Everything, NEW q \in Req, NEW t \in txn[q].kill
  PROVE  /\ t \in Token /\ status[t] = "live" /\ Owner[t] = txn[q].who
         /\ \A r \in Req \ {q} : t \notin txn[r].kill
         /\ t \in ResetTok => \/ txn[q].op = "issue" /\ txn[q].lock = "update"
                              \/ txn[q].op = "confirm" /\ t = txn[q].tok
         /\ t \in RefreshTok => \/ txn[q].op = "refresh" /\ txn[q].pc \in {"insert", "commit"}
                                \/ txn[q].op = "confirm" /\ txn[q].lock = "noKeyUpdate"
<1>1. /\ Phase(txn[q]) /\ WellFormed(txn[q]) /\ txn[q].op \in AllOps \cup {"none"} /\ OneLiveResetToken
      /\ OwnsMarked(q) /\ t \in Token
  BY RequestFields DEF Everything, EffectInv, ResetInv, LoginInv, SlotsInv
<1>2. status[t] = "live" /\ \A r \in Req \ {q} : t \notin txn[r].kill
  BY <1>1 DEF OwnsMarked
<1>3. CASE txn[q].op \in {"none", "register", "login", "logout"}
  BY <1>1, <1>3 DEF Phase
<1>4. CASE txn[q].op = "refresh"
  <2>1. /\ txn[q].tok \in RefreshTok /\ t = txn[q].tok /\ txn[q].pc \in {"insert", "commit"}
    BY <1>1, <1>4 DEF Phase, WellFormed
  <2>2. Owner[t] = txn[q].who
    BY <1>1, <2>1, TokenKinds DEF WellFormed
  <2> QED BY <1>1, <1>2, <1>4, <2>1, <2>2, TokensAssumption
<1>5. CASE txn[q].op = "verify"
  BY <1>1, <1>2, <1>5, TokenKinds, TokensAssumption DEF Phase, WellFormed
<1>6. CASE txn[q].op = "issue"
  <2>1. t \in Of(txn[q].who, ResetTok) /\ txn[q].pc = "insert" /\ txn[q].lock = "update"
    BY <1>1, <1>6 DEF Phase
  <2>2. Owner[t] = txn[q].who /\ t \in ResetTok /\ t \notin RefreshTok
    BY <2>1, TokensAssumption DEF Of
  <2> QED BY <1>1, <1>2, <1>6, <2>1, <2>2
<1>7. CASE txn[q].op = "confirm"
  <2>1. t \in Of(txn[q].who, ResetTok \cup RefreshTok) /\ txn[q].pc # "consume" /\ txn[q].tok \in txn[q].kill
    BY <1>1, <1>7 DEF Phase
  <2>2. /\ txn[q].who \in User /\ txn[q].tok \in ResetTok /\ status[txn[q].tok] = "live"
        /\ Owner[txn[q].tok] = txn[q].who
    BY <1>1, <1>7, <2>1, TokenKinds DEF WellFormed, OwnsMarked
  <2>3. t \in ResetTok => t = txn[q].tok
    BY <1>1, <1>2, <2>1, <2>2 DEF OneLiveResetToken, Live, Of
  <2>4. t \in RefreshTok => txn[q].pc = "commit" /\ txn[q].lock = "noKeyUpdate"
    BY <1>1, <1>7, <2>1, TokensAssumption DEF Phase
  <2> QED BY <1>1, <1>2, <1>7, <2>1, <2>3, <2>4 DEF Of
<1> QED BY <1>1, <1>3, <1>4, <1>5, <1>6, <1>7 DEF AllOps

\* In a circle of waiting requests nobody holds a weaker lock than FOR UPDATE:
\* a confirmation that has set the password waits only for rows whose holders
\* it excludes or who can go on.
LEMMA BlockedLocks ==
  ASSUME Everything, NEW S \in SUBSET Req, \A r \in S : WaitsFor(r) \cap S # {}, NEW c \in S
  PROVE  txn[c].lock \in {"none", "update"}
<1>a. /\ \A r \in Req : Phase(txn[r]) /\ WellFormed(txn[r]) /\ txn[r].op \in AllOps \cup {"none"}
                       /\ txn[r].lock \in LockMode
      /\ \A q, r \in Req : q # r => Apart(txn[q], txn[r])
  BY RequestFields DEF Everything, EffectInv
<1> PICK q \in S : q \in WaitsFor(c)
  OBVIOUS
<1>1. q \in Req /\ c \in Req /\ q # c
  BY Waits
<1>2. CASE txn[c].op \in {"none", "register", "login", "logout", "issue"}
  BY <1>a, <1>1, <1>2 DEF Phase
<1>3. CASE txn[c].op \in {"refresh", "verify"}
  <2>1. txn[c].todo = {} /\ (txn[c].lock # "none" => txn[c].pc = "commit")
    BY <1>a, <1>1, <1>3 DEF Phase
  <2>2. txn[c].pc # "commit"
    BY <1>1, <2>1, Waits
  <2> QED BY <2>1, <2>2
<1>4. CASE txn[c].op = "confirm"
  <2> SUFFICES ASSUME txn[c].lock # "none" PROVE FALSE
    OBVIOUS
  <2>1. txn[c].pc \in {"invalidate", "revokeAll", "commit"} /\ txn[c].lock = "noKeyUpdate"
    BY <1>a, <1>1, <1>4 DEF Phase, WellFormed
  <2>2. PICK t \in txn[c].todo : t \in txn[q].kill
    BY <1>1, <2>1, Waits
  <2>3. /\ status[t] = "live" /\ Owner[t] = txn[q].who
        /\ \A r \in Req \ {q} : t \notin txn[r].kill
        /\ t \in ResetTok => \/ txn[q].op = "issue" /\ txn[q].lock = "update"
                             \/ txn[q].op = "confirm" /\ t = txn[q].tok
        /\ t \in RefreshTok => \/ txn[q].op = "refresh" /\ txn[q].pc \in {"insert", "commit"}
                               \/ txn[q].op = "confirm" /\ txn[q].lock = "noKeyUpdate"
    BY <1>1, <2>2, MarkedRows
  <2>4. /\ Owner[t] = txn[c].who
        /\ txn[c].pc = "revokeAll" => t \in ResetTok
        /\ txn[c].pc # "revokeAll" => t \in RefreshTok
    BY <1>a, <1>1, <1>4, <2>1, <2>2 DEF Phase, Of
  <2>5. ~Conflicts(txn[q].lock, txn[c].lock)
    BY <1>a, <1>1, <2>3, <2>4 DEF Apart
  <2>6. txn[q].lock \notin {"update", "noKeyUpdate"}
    BY <2>1, <2>5 DEF Conflicts
  <2>7. CASE txn[c].pc = "revokeAll"
    <3>1. t \in Live(ResetTok, txn[c].who) /\ txn[c].tok \in txn[c].kill
      BY <1>a, <1>1, <1>4, <2>3, <2>4, <2>7 DEF Live, Phase
    <3>2. txn[c].tok \in Live(ResetTok, txn[c].who)
      BY <1>a, <1>1, <1>4, <3>1, MarkedRows DEF Live, WellFormed
    <3>3. t = txn[c].tok
      BY <1>a, <1>1, <1>4, <3>1, <3>2 DEF Everything, ResetInv, OneLiveResetToken, WellFormed
    <3> QED BY <1>1, <2>3, <3>1, <3>3
  <2>8. CASE txn[c].pc # "revokeAll"
    <3>1. txn[q].op = "refresh" /\ txn[q].pc \in {"insert", "commit"} /\ txn[q].todo = {}
      BY <1>a, <1>1, <2>3, <2>4, <2>6, <2>8 DEF Phase
    <3> PICK y \in S : y \in WaitsFor(q)
      OBVIOUS
    <3>2. y \in Req /\ txn[y].who = txn[q].who /\ Conflicts(txn[y].lock, "keyShare")
      BY <1>1, <3>1, Waits
    <3>3. txn[y].lock = "update"
      BY <3>2 DEF Conflicts
    <3>4. y # c
      BY <2>1, <3>3
    <3> QED BY <1>a, <1>1, <2>1, <2>3, <2>4, <3>2, <3>3, <3>4 DEF Apart, Conflicts
  <2> QED BY <2>7, <2>8
<1> QED BY <1>a, <1>1, <1>2, <1>3, <1>4 DEF AllOps

\* And somebody in the circle holds that one: requests without any row lock on
\* users only queue for a token row.
LEMMA BlockedIssue ==
  ASSUME Everything, NEW S \in SUBSET Req, S # {}, \A r \in S : WaitsFor(r) \cap S # {}
  PROVE  \E i \in S : txn[i].lock = "update"
<1>a. \A r \in Req : Phase(txn[r]) /\ WellFormed(txn[r]) /\ txn[r].op \in AllOps \cup {"none"}
  BY RequestFields DEF Everything, EffectInv
<1>b. \A r \in S : txn[r].lock \in {"none", "update"}
  BY BlockedLocks
<1> SUFFICES ASSUME \A s \in S : txn[s].lock = "none" PROVE FALSE
  BY <1>b
<1>1. \A m : ~Conflicts("none", m)
  BY ConflictsNone
<1>2. \A s \in S : txn[s].todo = {}
  BY <1>a DEF Phase, WellFormed, AllOps
<1>3. ASSUME NEW s \in S, NEW q \in S, q \in WaitsFor(s)
      PROVE  txn[s].pc = "consume" /\ txn[q].kill # {}
  BY <1>1, <1>2, <1>3, Waits
<1>4. \A s \in S : txn[s].pc = "consume"
  BY <1>3
<1>5. \A s \in S : txn[s].kill = {}
  BY <1>a, <1>4 DEF Phase, WellFormed, AllOps
<1> QED BY <1>3, <1>5

\* Every circle of waiting requests, of any length, contains a reset request
\* and a confirmation of one user waiting for each other: the two take the
\* users row and the reset token in opposite orders.
THEOREM DeadlocksPaired == Spec => []DeadlocksArePairs
<1>1. ASSUME Everything, NEW S \in SUBSET Req, S # {}, \A r \in S : WaitsFor(r) \cap S # {}
      PROVE  \E r, q \in S : /\ q \in WaitsFor(r) /\ r \in WaitsFor(q)
                            /\ txn[r].op = "issue" /\ txn[q].op = "confirm"
                            /\ txn[r].who = txn[q].who
  <2>a. /\ \A r \in Req : Phase(txn[r]) /\ WellFormed(txn[r]) /\ txn[r].op \in AllOps \cup {"none"}
        /\ \A q, r \in Req : q # r => Apart(txn[q], txn[r])
    BY <1>1, RequestFields DEF Everything, EffectInv
  <2>1. PICK i \in S : txn[i].lock = "update"
    BY <1>1, BlockedIssue
  <2>2. PICK c \in S : c \in WaitsFor(i)
    BY <1>1
  <2>3. c \in Req /\ i \in Req /\ c # i
    BY <2>2, Waits
  <2>4. txn[i].op = "issue" /\ txn[i].pc \in {"count", "invalidate", "insert"}
    BY <2>a, <2>1, <2>3 DEF Phase, WellFormed, AllOps
  <2>5. PICK t \in txn[i].todo : t \in txn[c].kill
    BY <2>2, <2>3, <2>4, Waits
  <2>6. t \in Of(txn[i].who, ResetTok)
    BY <2>a, <2>3, <2>4, <2>5 DEF Phase
  <2>7. /\ txn[c].who = txn[i].who
        /\ \/ txn[c].op = "issue" /\ txn[c].lock = "update"
           \/ txn[c].op = "confirm" /\ t = txn[c].tok
    BY <1>1, <2>3, <2>5, <2>6, MarkedRows DEF Of
  <2>8. ~Conflicts(txn[c].lock, "update")
    BY <2>a, <2>1, <2>3, <2>7 DEF Apart
  <2>9. txn[c].lock = "none"
    BY <2>8, <2>3 DEF Conflicts
  <2>10. txn[c].op = "confirm" /\ txn[c].pc = "setPassword" /\ txn[c].todo = {}
    BY <2>a, <2>3, <2>5, <2>7, <2>9 DEF Phase, WellFormed
  <2>11. i \in UserHolders(c, txn[c].who, "noKeyUpdate")
    BY <2>1, <2>3, <2>7 DEF UserHolders, Conflicts
  <2>12. i \in WaitsFor(c)
    BY <2>10, <2>11 DEF WaitsFor
  <2> QED BY <2>2, <2>4, <2>7, <2>10, <2>12
<1>2. Everything => DeadlocksArePairs
  BY <1>1 DEF DeadlocksArePairs
<1> QED BY <1>2, EffectsInvariant, PTL
=============================================================================
