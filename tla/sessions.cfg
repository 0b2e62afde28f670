SPECIFICATION Spec
CONSTANTS
    None = None
    User = {alice}
    Password = {pw1, pw2}
    RefreshId = {f1, f2, f3, f4}
    ResetId = {s1}
    VerifyId = {}
    RefreshTok <- MCRefreshTok
    ResetTok <- MCResetTok
    VerifyTok <- MCVerifyTok
    Owner <- MCOwner
    Req = {r1, r2, r3}
    Seeded = {alice}
    InitialPassword = pw1
    Ops = {"login", "refresh", "logout", "issue", "confirm"}
    Perishable = {}
    MaxResetTokensPerHour = 2
CHECK_DEADLOCK FALSE
SYMMETRY Symmetry
INVARIANTS LoginsDoNotFork DeadlocksArePairs
PROPERTIES ResetRevokesPriorSessions EndedLoginsStayEnded
