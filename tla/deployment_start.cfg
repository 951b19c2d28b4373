SPECIFICATION Spec
CONSTANTS
    a = a
    b = b
    c = c
    Processes = {a, b}
    Configured <- LocalAndProduction
    LastTable = 4
    InitialTables = {1, 4}
    Rank <- AsNumbered
    Stored <- EarlierDatabases
    MaxCommands = 3
    MaxCrashes = 1
SYMMETRY ProcessSymmetry
CHECK_DEADLOCK FALSE
INVARIANTS ServingHasTables StampVouches FailedStartIsHarmless
