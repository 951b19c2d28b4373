SPECIFICATION EditSpec
CONSTANTS
    p1 = p1
    p2 = p2
    i1 = i1
    i2 = i2
    rfis = rfis
    submittals = submittals
    Profiles = {p1}
    Items = {i1, i2}
    Tools = {rfis, submittals}
    ToolOf <- EachItsTool
    Scope <- OneProfile
    Workers = {w1}
    Requests <- Plain
    Lookback = 2
    Interval = 1
    LockTimeout = 2
    MaxRun = 1
    MaxTime = 4
    MaxPatches = 2
    MaxAdhoc = 0
    MaxCrashes = 0
    NoRow = NoRow
    NoRequest = NoRequest
    Editors = {e1, e2}
    CoarseClock = FALSE
CHECK_DEADLOCK FALSE
INVARIANTS NoGapWhereOn SomeSourceOn
