--------------------------- MODULE MCAuthSessions ---------------------------
(* Small instances of AuthSessions: a token row carries its owner, a pair of *)
(* a user and a model value.                                                 *)
EXTENDS AuthSessions, TLC

CONSTANTS RefreshId, ResetId, VerifyId

MCRefreshTok == User \X RefreshId
MCResetTok == User \X ResetId
MCVerifyTok == User \X VerifyId
MCOwner == [t \in User \X (RefreshId \cup ResetId \cup VerifyId) |-> t[1]]

\* Request slots and the tokens of each table are interchangeable.
Symmetry ==
    Permutations(Req) \cup Permutations(RefreshId)
        \cup Permutations(ResetId) \cup Permutations(VerifyId)

AllTokens == MCRefreshTok \cup MCResetTok \cup MCVerifyTok

=============================================================================
