SPECIFICATION Spec
CONSTANTS
    Keys = {k1}
    Relevant = {k1}
    Receivers = {r1}
    Workers = {w1, w2}
    Forces = {FALSE, TRUE}
    BatchLimit = 2
    MaxAttempts = 2
    LockTimeout = 2
    MaxRun = 1
    MaxTime = 3
    MaxReplays = 1
    MaxCrashes = 1
    LastCrash = 0
    NoRow = NoRow
    NoRequest = NoRequest
SYMMETRY WorkerSymmetry
CHECK_DEADLOCK FALSE
INVARIANTS TypeOK EventLockExclusion LockHasHolder ProcessingHasWorker FailureAccounting
PROPERTY ImplementsClaims
