SPECIFICATION Spec
CONSTANTS
    Reviewers = {r1}
    Viewers = {v1}
    DefaultStatus = "new"
    MaxEvents = 3
    MaxHistory = 3
    Stored <- Legacy
    NoRow = NoRow
CHECK_DEADLOCK FALSE
PROPERTY ViewsKeepStatus
