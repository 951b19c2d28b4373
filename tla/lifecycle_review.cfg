SPECIFICATION QuietSpec
CONSTANTS
    Reviewers = {r1, r2}
    Viewers = {v1}
    DefaultStatus = "new"
    MaxEvents = 2
    MaxHistory = 3
    Stored <- FreshAndLegacy
    NoRow = NoRow
SYMMETRY RequestSymmetry
CHECK_DEADLOCK FALSE
INVARIANTS TypeOK StatusIsLastEvent CountWithinHistory
PROPERTY ImplementsPromise
