SPECIFICATION Spec
CONSTANTS
    None = None
    User = {alice}
    Password = {pw1, pw2}
    RefreshTok <- MCRefreshTok
    ResetTok <- MCResetTok
    VerifyTok <- MCVerifyTok
    Owner <- MCOwner
    InitialPassword = pw1
    RefreshId = {f1, f2}
    ResetId = {s1}
    VerifyId = {v1, v2}
    Req = {r1, r2}
    Seeded = {}
    Ops = {"register", "login", "refresh", "logout", "verify", "issue", "confirm"}
    Perishable <- AllTokens
    MaxResetTokensPerHour = 2
CHECK_DEADLOCK FALSE
SYMMETRY Symmetry
INVARIANTS TypeOK LinksAreHonoured
PROPERTY AtomicEffects
