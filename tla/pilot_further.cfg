SPECIFICATION Spec
CONSTANTS
    Evidence = {"e1"}
    Required = {"e1"}
    WarnWithin = 1
    MaxWindow = 3
    Demanded <- Demands
    Insists <- InsistsOn
    Generators = {g1}
    ItemForms <- Items
    ProfileForms <- Profiles
    PacketForms <- Packets
    Parts = 2
    MaxDay = 1
    MaxEdits = 1
    MaxCrashes = 1
    None = None
CHECK_DEADLOCK FALSE
INVARIANTS GoMeansEveryGate OutstandingBlocks ExpiredIsFlagged
