SPECIFICATION DemoSpec
CONSTANTS
    d1 = d1
    d2 = d2
    Demos = {d1, d2}
    Rank <- AsListed
    Traced = {d1}
    Attached = {d1}
    Announced = {d1}
    SeedStatus <- OneNewOneReviewed
    Statuses = {"new", "in_review", "reviewed"}
    Intake = Intake
    MaxVisits = 3
    MaxSeeds = 4
CHECK_DEADLOCK FALSE
INVARIANTS OnePerMarker NothingDangles
PROPERTY SeedIsIdempotent
