CONSTANTS
    lead = lead
    visit = visit
    won = won
    course = course
    payment = payment
    None = None
    Workers = {w1, w2}
    Deals = {d1}
    Users = {ana, bia}
    Admins = {ana}
    Stages = {lead, visit, won}
    FirstStage = lead
    WonStage = won
    Keys = {course, payment}
    Required <- MCRequired
    Tasks = {}
    Cycles = {c1, c2, c3}
    CarriedKeys = {course}
    MaxTx = 4
    Traffic = {"create", "stage", "won", "lost", "reopen", "delete", "first_contact", "correct_contact", "log", "note", "activate"}
SPECIFICATION Spec
CHECK_DEADLOCK FALSE
SYMMETRY Symmetry
INVARIANTS
    HistoryMatchesStage
    HistoryContiguous
    ActivityCoversHistory
    OneActiveCycle
PROPERTIES
    LastActivityMonotone
    FirstContactWriteOnce
    StageTrailKept
