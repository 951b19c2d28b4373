SPECIFICATION ApartSpec
CONSTANTS
    p1 = p1
    p2 = p2
    i1 = i1
    i2 = i2
    rfis = rfis
    submittals = submittals
    Profiles = {p1}
    Items = {i1, i2}
    Tools = {rfis, submittals}
    ToolOf <- EachItsTool
    Scope <- OneProfile
    Workers = {w1, w2}
    Requests <- Plain
    Lookback = 2
    Interval = 1
    LockTimeout = 2
    MaxRun = 1
    MaxTime = 3
    MaxPatches = 0
    MaxAdhoc = 1
    MaxCrashes = 1
    NoRow = NoRow
    NoRequest = NoRequest
SYMMETRY ItemSymmetry
CHECK_DEADLOCK FALSE
INVARIANTS TypeOK ProfileLockExclusion NoSilentGap
PROPERTY RecordsNeverGoBack
