SPECIFICATION Spec
CONSTANTS
    Dates = {1, 2}
    RecentFrom = 2
    OlderBefore = 2
    PageSize = 1
    MaxExport = 3
    HistoryPage = 4
    Requests <- AnyView
    Targets = {"reviewed", "needs_follow_up"}
    Stored = {0, 2}
    MaxRecords = 3
    MaxCommits = 2
    NoRow = NoRow
INVARIANTS
    ListingIsComplete
PROPERTIES
    ViewsWriteNothing
