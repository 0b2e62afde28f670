----------------------------- MODULE MCFinance -----------------------------
(***************************************************************************)
(* Two users; u2 owns an account and a category that u1's requests may     *)
(* name.  Initially two transactions of u1 sit on a1 and a2, in c1.        *)
(***************************************************************************)
EXTENDS Finance, TLC

CONSTANTS u1, u2, a1, a2, a3, b1, c1, c2, d1, t1, t2, t3, t4, n1, n2

MCOwner == [x \in Resource |-> IF x \in {b1, d1} THEN u2 ELSE u1]

\* a1 and c1, b1 and d1 are called n1, a2 and c2 n2; a3 is not created yet.
MCInitialName == [x \in Resource |-> CASE x \in {a2, c2} -> n2 [] x = a3 -> None [] OTHER -> n1]

MCInitialAccount == [t \in TransactionId |-> CASE t = t1 -> a1 [] t = t2 -> a2 [] OTHER -> None]

MCInitialCategory == [t \in TransactionId |-> IF t \in {t1, t2} /\ c1 \in Category THEN c1 ELSE None]

Symmetry == Permutations(Req) \cup Permutations(TransactionId \ {t1, t2})
=============================================================================
