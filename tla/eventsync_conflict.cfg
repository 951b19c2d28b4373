SPECIFICATION Spec
CONSTANTS
    k1 = k1
    k2 = k2
    p1 = p1
    i1 = i1
    rfis = rfis
    Keys = {k1}
    ItemOf <- BothAboutIt
    Receivers = {r1}
    QueueWorkers = {q1}
    Pollers = {w1}
    Profiles = {p1}
    Items = {i1}
    Tools = {rfis}
    ToolOf <- OneRfi
    Scope <- OneProfile
    BatchLimit = 2
    MaxAttempts = 2
    LockTimeout = 2
    Lookback = 9
    Interval = 1
    MaxRun = 1
    MaxTime = 4
    MaxCrashes = 0
    LastCrash = 2
    NoRow = NoRow
    NoRequest = NoRequest
CHECK_DEADLOCK FALSE
INVARIANT ConflictIsNoFailure
