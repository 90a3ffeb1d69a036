CONSTANTS
    lead = lead
    visit = visit
    won = won
    course = course
    payment = payment
    None = None
    Workers = {w1, w2}
    Deals = {d1, d2, d3}
    Users = {ana}
    Admins = {ana}
    Stages = {lead, visit, won}
    FirstStage = lead
    WonStage = won
    Keys = {}
    Required <- MCRequired
    Tasks = {}
    Cycles = {c1}
    CarriedKeys = {}
    MaxTx = 4
    Traffic = {"create", "lost", "rescue"}
SPECIFICATION Spec
CHECK_DEADLOCK FALSE
SYMMETRY Symmetry
INVARIANT RescuedOnce
