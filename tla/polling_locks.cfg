SPECIFICATION Spec
CONSTANTS
    p1 = p1
    p2 = p2
    i1 = i1
    i2 = i2
    rfis = rfis
    submittals = submittals
    Profiles = {p1}
    Items = {i1}
    Tools = {rfis}
    ToolOf <- OneRfi
    Scope <- OneItem
    Workers = {w1, w2}
    Requests <- Forced
    Lookback = 1
    Interval = 1
    LockTimeout = 1
    MaxRun = 1
    MaxTime = 2
    MaxPatches = 1
    MaxAdhoc = 1
    MaxCrashes = 0
    NoRow = NoRow
    NoRequest = NoRequest
SYMMETRY WorkerSymmetry
CHECK_DEADLOCK FALSE
INVARIANTS ProfileLockHasHolder
