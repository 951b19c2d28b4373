SPECIFICATION ApartSpec
CONSTANTS
    drawing = drawing
    photo = photo
    letter = letter
    Attached <- Three
    Names <- PlanAndNote
    SourceName <- TwoCollide
    Labels = {l1, l2}
    Planners = {p1}
    Downloaders = {d1, d2}
    Renames = FALSE
    NoRow = NoRow
    NoFile = NoFile
CHECK_DEADLOCK FALSE
SYMMETRY Symmetry
INVARIANTS TypeOK DownloadedIsThere OneFileEach
PROPERTY PlanningKeepsDownloads
