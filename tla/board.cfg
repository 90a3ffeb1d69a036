CONSTANTS
    d1 = d1
    d2 = d2
    Deals = {d1, d2}
    Stages = {"new", "gated", "won"}
    FirstStage = "new"
    WonStage = "won"
    Required <- MCRequired
    None = None
    MaxEvents = 4
SPECIFICATION FairSpec
CHECK_DEADLOCK FALSE
INVARIANTS
    TypeOK
    BoardAtRest
    CompletedMeansFilled
PROPERTIES
    Converges
