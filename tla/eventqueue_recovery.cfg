SPECIFICATION FairSpec
CONSTANTS
    Keys = {k1}
    Relevant = {k1}
    Receivers = {r1, r2}
    Workers = {w1, w2}
    Forces = {FALSE}
    BatchLimit = 1
    MaxAttempts = 2
    LockTimeout = 2
    MaxRun = 1
    MaxTime = 3
    MaxReplays = 0
    MaxCrashes = 1
    LastCrash = 1
    NoRow = NoRow
    NoRequest = NoRequest
CHECK_DEADLOCK FALSE
PROPERTIES QueuedSettles RedeliveryChangesNothing
