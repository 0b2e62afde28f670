SPECIFICATION BrowserSpec
CONSTANTS
    Key = {k1, k2}
    Window = 3
    Limit = 2
    CleanupInterval = 3
    Second = 2
    Horizon = 5
    Tab = {t1, t2}
    Query = {q1, q2}
    MaxLogins = 1
    MaxLoads = 1
    MaxExpiries = 0
    MaxFaults = 1
    Ops = {"login", "logout"}
    AppPath = {"/"}
    RedirectParam <- MCRedirectParam
    Lossy = TRUE
    None = None
    Clear = Clear
    Rows <- MCRows
    Unreadable = {"empty"}
    Required = 1
    ChunkSize = 2
    MaxAttempts = 2
    NoFile = NoFile
    VerifyLink = {v1, v2}
    ResetLink = {}
    Seeded = {v1, v2}
    FormPage = {}
    MaxAsks = 3
    MaxMoves = 3
    List = {"transactions"}
    Change = {"useEditAccount", "useBulkDeleteAccounts"}
    Path = {"/", "/transactions"}
    Row = {1, 2}
    FirstRows = {1, 2}
    Matching = {2}
    MaxOthers = 1
    Item = {i1, i2}
    Sheet = "category"
    MaxSaves = 1
    MaxChanges = 0
    MaxOffline = 1
    MaxAccounts = 1
    MaxForms = 2
    MaxFiles = 1
    MonthStart <- MCMonths
    Today = {455, 730}
    Skew <- MCSkew
    Account = {c1}
    Preset = {"thisMonth"}
    FirstFrom = {None, Malformed}
    MaxPushes = 2
    Malformed = Malformed
    Day = {1, 2, 3}
    Zone <- MCZone
    MaxJourneys = 1
    MaxSignals = 3
    t1 = t1
    t2 = t2
    q1 = q1
    q2 = q2
    v1 = v1
    v2 = v2
    r1 = r1
    i1 = i1
    i2 = i2
    c1 = c1
    Parts = {"SignUp"}
CHECK_DEADLOCK FALSE
INVARIANT SignUpAgainRenews
