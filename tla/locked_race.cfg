CONSTANTS
    lead = lead
    visit = visit
    won = won
    course = course
    payment = payment
    None = None
    Workers = {w1, w2}
    Deals = {d1}
    Users = {ana}
    Admins = {ana}
    Stages = {lead, visit, won}
    FirstStage = lead
    WonStage = won
    Keys = {}
    Required <- MCRequired
    Tasks = {}
    Cycles = {c1}
    CarriedKeys = {}
    MaxTx = 3
    Traffic = {"create", "won", "lost"}
SPECIFICATION Spec
CHECK_DEADLOCK FALSE
SYMMETRY Symmetry
PROPERTY LockedUntilReopen
