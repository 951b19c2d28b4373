SPECIFICATION Spec
CONSTANTS
    Reviewers = {r1, r2}
    Viewers = {}
    DefaultStatus = "new"
    MaxEvents = 2
    MaxHistory = 3
    Stored <- Fresh
    NoRow = NoRow
CHECK_DEADLOCK FALSE
INVARIANT HistoryBounded
PROPERTY StatusFollowsGraph
