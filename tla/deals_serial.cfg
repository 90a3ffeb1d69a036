CONSTANTS
    lead = lead
    visit = visit
    won = won
    course = course
    payment = payment
    None = None
    Workers = {w1}
    Deals = {d1}
    Users = {ana, bia}
    Admins = {ana}
    Stages = {lead, visit, won}
    FirstStage = lead
    WonStage = won
    Keys = {course, payment}
    Required <- MCRequired
    Tasks = {}
    Cycles = {c1}
    CarriedKeys = {course}
    MaxTx = 6
    Traffic = {"create", "stage", "won", "lost", "reopen", "delete", "patch", "log", "first_contact", "correct_contact", "note", "claim", "reassign"}
SPECIFICATION Spec
CHECK_DEADLOCK FALSE
INVARIANTS
    OutcomeMatchesStatus
PROPERTIES
    LockedUntilReopen
    GateOnEntry
    PromiseKept
    AbsentKeysPreserved
