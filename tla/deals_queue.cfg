CONSTANTS
    lead = lead
    visit = visit
    won = won
    course = course
    payment = payment
    None = None
    Workers = {w1}
    Deals = {d1, d2, d3}
    Users = {ana, bia}
    Admins = {ana}
    Stages = {lead, visit, won}
    FirstStage = lead
    WonStage = won
    Keys = {}
    Required <- MCRequired
    Tasks = {t1}
    Cycles = {c1, c2}
    CarriedKeys = {}
    MaxTx = 4
    Traffic = {"create", "webhook", "claim", "reassign", "tasks", "log", "lost", "rescue", "rollover", "activate"}
SPECIFICATION Spec
CHECK_DEADLOCK FALSE
SYMMETRY Symmetry
INVARIANTS
    TypeOK
    RescuedOnce
PROPERTIES
    ClaimTakesFromQueue
    RolloverMovesOpenDeals
