SPECIFICATION Spec
CONSTANTS
    None = None
    User = {alice}
    Password = {pw1, pw2}
    RefreshTok <- MCRefreshTok
    ResetTok <- MCResetTok
    VerifyTok <- MCVerifyTok
    Owner <- MCOwner
    InitialPassword = pw1
    RefreshId = {f1, f2}
    ResetId = {s1}
    VerifyId = {}
    Req = {r1, r2}
    Seeded = {alice}
    Ops = {"login", "refresh", "issue", "confirm"}
    Perishable = {}
    MaxResetTokensPerHour = 3
CHECK_DEADLOCK FALSE
PROPERTY ResetEndsPriorLogins
