----------------------------- MODULE AuthAtomic -----------------------------
(***************************************************************************)
(* What the authentication API promises, with no concurrency in it: each   *)
(* endpoint that answers success is one atomic step on the users and token *)
(* tables.  AuthSessions implements it.                                    *)
(*                                                                         *)
(* The one step that does not say everything the documentation says is     *)
(* Confirm: it ends some of the user's sessions, not all of them.          *)
(***************************************************************************)
EXTENDS Naturals, FiniteSets

CONSTANTS User, Password, RefreshTok, ResetTok, VerifyTok, Owner, Seeded,
          InitialPassword, MaxResetTokensPerHour

VARIABLES registered, verified, password, status, expired, recent, mailed, root

vars == <<registered, verified, password, status, expired, recent, mailed, root>>

Token == RefreshTok \cup ResetTok \cup VerifyTok

Init ==
    /\ registered = Seeded
    /\ verified = Seeded
    /\ password = [u \in User |-> InitialPassword]
    /\ status = [t \in Token |-> "fresh"]
    /\ expired = {}
    /\ recent = {}
    /\ mailed = {}
    /\ root = [t \in RefreshTok |-> t]

Live(toks, u) == {t \in toks : Owner[t] = u /\ status[t] = "live"}

Fresh(t, u) == Owner[t] = u /\ status[t] = "fresh"

\* The tokens of dead stop working, those of born start to.
Move(dead, born) ==
    status' = [t \in Token |-> IF t \in dead THEN "used"
                               ELSE IF t \in born THEN "live" ELSE status[t]]

Mail(t) == mailed' \in {mailed, mailed \cup {t}}

Register(u, p, t) ==
    /\ u \notin registered
    /\ Fresh(t, u)
    /\ registered' = registered \cup {u}
    /\ password' = [password EXCEPT ![u] = p]
    /\ Move({}, {t})
    /\ Mail(t)
    /\ UNCHANGED <<verified, expired, recent, root>>

Login(u, t) ==
    /\ u \in verified
    /\ Fresh(t, u)
    /\ Move({}, {t})
    /\ UNCHANGED <<registered, verified, password, expired, recent, mailed, root>>

Refresh(t, n) ==
    /\ status[t] = "live"
    /\ Fresh(n, Owner[t])
    /\ Move({t}, {n})
    /\ root' = [root EXCEPT ![n] = root[t]]
    /\ UNCHANGED <<registered, verified, password, expired, recent, mailed>>

Logout(t) ==
    /\ status[t] = "live"
    /\ Move({t}, {})
    /\ UNCHANGED <<registered, verified, password, expired, recent, mailed, root>>

Verify(t) ==
    /\ status[t] = "live"
    /\ t \in mailed
    /\ Move({t}, {})
    /\ verified' = verified \cup {Owner[t]}
    /\ UNCHANGED <<registered, password, expired, recent, mailed, root>>

Issue(u, n) ==
    /\ u \in registered
    /\ Fresh(n, u)
    /\ Cardinality({t \in recent : Owner[t] = u}) < MaxResetTokensPerHour
    /\ Move(Live(ResetTok, u), {n})
    /\ recent' = recent \cup {n}
    /\ Mail(n)
    /\ UNCHANGED <<registered, verified, password, expired, root>>

Confirm(t, p, ended) ==
    /\ status[t] = "live"
    /\ t \in mailed
    /\ Live(ResetTok, Owner[t]) = {t}
    /\ Move({t} \cup ended, {})
    /\ password' = [password EXCEPT ![Owner[t]] = p]
    /\ UNCHANGED <<registered, verified, expired, recent, mailed, root>>

Expire(t) ==
    /\ status[t] = "live"
    /\ expired' = expired \cup {t}
    /\ UNCHANGED <<registered, verified, password, status, recent, mailed, root>>

Age(t) ==
    /\ recent' = recent \ {t}
    /\ UNCHANGED <<registered, verified, password, status, expired, mailed, root>>

Next ==
    \/ \E u \in User, p \in Password, t \in VerifyTok : Register(u, p, t)
    \/ \E u \in User, t \in RefreshTok : Login(u, t)
    \/ \E t, n \in RefreshTok : Refresh(t, n)
    \/ \E t \in RefreshTok : Logout(t)
    \/ \E t \in VerifyTok : Verify(t)
    \/ \E u \in User, n \in ResetTok : Issue(u, n)
    \/ \E t \in ResetTok, p \in Password :
          \E ended \in SUBSET Live(RefreshTok, Owner[t]) : Confirm(t, p, ended)
    \/ \E t \in Token : Expire(t)
    \/ \E t \in recent : Age(t)

Spec == Init /\ [][Next]_vars

=============================================================================
