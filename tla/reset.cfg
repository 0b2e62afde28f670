SPECIFICATION FairSpec
CONSTANTS
    None = None
    User = {alice}
    Password = {pw1, pw2}
    RefreshId = {f1}
    ResetId = {s1, s2, s3}
    VerifyId = {}
    RefreshTok <- MCRefreshTok
    ResetTok <- MCResetTok
    VerifyTok <- MCVerifyTok
    Owner <- MCOwner
    Req = {r1, r2}
    Seeded = {alice}
    InitialPassword = pw1
    Ops = {"issue", "confirm"}
    Perishable <- AllTokens
    MaxResetTokensPerHour = 2
CHECK_DEADLOCK FALSE
INVARIANTS OneLiveResetToken ResetCap
PROPERTIES ResetLinkSpentWithEffect EveryRequestAnswered
