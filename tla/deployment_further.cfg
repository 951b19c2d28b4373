SPECIFICATION Spec
CONSTANTS
    a = a
    b = b
    c = c
    Processes = {a, b}
    Configured <- Careless
    LastTable = 4
    InitialTables = {1, 4}
    Rank <- AsNumbered
    Stored <- EarlierDatabases
    MaxCommands = 2
    MaxCrashes = 1
SYMMETRY ProcessSymmetry
CHECK_DEADLOCK FALSE
INVARIANTS UpgradeIsPossible SuppliedIsReady LocalReadinessIsHonest HeadIsComplete
