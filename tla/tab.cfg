\* One watched entry, two mutations, one change of page or tab, one other user's edit.
\* The entries left out are six reports no hook refreshes, the summary (refreshed like cac)
\* and the fixed field catalog.
CONSTANTS
    Watched = {"kanban", "deal", "activities", "dealTasks", "myTasks", "contacts", "users",
               "units", "pipelines", "reasons", "sources", "settings", "myDay", "templates",
               "cycles", "activeCycle", "spend", "goals", "goalProgress", "myGoalProgress",
               "objections", "recoverable", "openCount", "cac"}
    Roles = {TRUE}
    MaxOps = 2
    Later = {"quickLog"}
    MaxNavs = 1
    MaxOthers = 1
SPECIFICATION Spec
INVARIANTS
    TypeOK
    FreshAtRest
    RevertsOnlyKnown
CHECK_DEADLOCK FALSE
