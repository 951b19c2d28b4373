SPECIFICATION ForcedSpec
CONSTANTS
    Keys = {k1, k2}
    Relevant = {k2}
    Receivers = {r1}
    Workers = {w1, w2}
    Forces = {TRUE}
    BatchLimit = 1
    MaxAttempts = 1
    LockTimeout = 2
    MaxRun = 1
    MaxTime = 2
    MaxReplays = 0
    MaxCrashes = 0
    LastCrash = 1
    NoRow = NoRow
    NoRequest = NoRequest
CHECK_DEADLOCK FALSE
INVARIANT StopsAfterMaxAttempts
PROPERTY ForcedReachesQueued
