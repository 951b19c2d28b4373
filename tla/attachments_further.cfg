SPECIFICATION Spec
CONSTANTS
    drawing = drawing
    photo = photo
    letter = letter
    Attached <- Three
    Names <- PlanAndNote
    SourceName <- TwoCollide
    Labels = {l1, l2}
    Planners = {p1}
    Downloaders = {d1, d2}
    Renames = TRUE
    NoRow = NoRow
    NoFile = NoFile
CHECK_DEADLOCK FALSE
PROPERTIES FilesStay PlanningKeepsDownloads
INVARIANTS PlannedHasNoBytes DownloadedIsThere OneFileEach
