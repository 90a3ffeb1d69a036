----------------------------- MODULE TabScreens ------------------------------
(***************************************************************************)
(* The pages of the browser application, each the union of the components  *)
(* mounted on it: the queries a component reads and the mutations it can   *)
(* start.  What a component offers depends on the deal it shows as well    *)
(* (open, contacted, unowned); the model offers all of it, and the server  *)
(* refuses.  The parameter admin is the signed-in user's role.             *)
(***************************************************************************)
EXTENDS TabQueries

Part(reads, starts) == [reads |-> reads, starts |-> starts]
Show(reads) == Part(reads, {})
Join(parts) == Part(UNION {p.reads : p \in parts}, UNION {p.starts : p \in parts})
IfAdmin(admin, things) == IF admin THEN things ELSE {}

\* The layout: the sidebar is mounted on every page.
NavLinks == Show({"recoverable"})
AppLayout(page) == Join({NavLinks, page})

-----------------------------------------------------------------------------
(* The board *)

NextContactPrompt == Part({}, {"setNext"})
FirstContactButton == Part({"settings"}, {"firstContact"})
ObjectionDialog == Part({"objections"}, {"objection"})
QuickLogActions == Join({Part({"settings"}, {"quickLog", "visit"}), ObjectionDialog,
                         NextContactPrompt})
DealCardContent == Join({Show({"units"}), FirstContactButton, QuickLogActions})
BoardColumn == DealCardContent
KanbanBoard == Join({Part({"settings"}, {"move", "setNextFor", "missing"}), BoardColumn})
LeadQueue == Join({Part({}, {"claim"}), DealCardContent})
CreateDealDialog == Part({"units"}, {"createDeal"})
FiltersBar(admin) == Show({"units", "cycles"} \cup IfAdmin(admin, {"users"}))
CycleCountdown == Show({"activeCycle"})
GoalProgressBar == Show({"myGoalProgress"})
NegociacoesPage(admin) ==
    Join({Show({"pipelines", "activeCycle", "kanban"}), KanbanBoard, LeadQueue, CreateDealDialog,
          FiltersBar(admin), CycleCountdown, GoalProgressBar})

-----------------------------------------------------------------------------
(* One deal *)

MissingFieldsDialog == Part({"deal", "dealFields", "units"}, {"missing"})
MarkWonDialog == Join({Part({}, {"markWon"}), MissingFieldsDialog})
MarkLostDialog == Part({"reasons"}, {"markLost"})
WhatsAppButton == Join({Part({"settings", "templates"}, {"firstContact"}), NextContactPrompt})
StageGuide == Show({"pipelines"})
ClosingChecklist == Show({"dealFields"})
DealFieldsCard(admin) ==
    Part({"units"} \cup IfAdmin(admin, {"users"}), {IF admin THEN "reassignDeal" ELSE "updateDeal"})
DealObjectionCard == Part({"objections", "templates"}, {"setObjection"})
EnrollmentForm == Part({}, {"enroll"})
NewTaskDialog == Part({}, {"createTask"})
DealTasks == Join({Part({"dealTasks"}, {"toggleTask"}), NewTaskDialog})
Timeline == Part({"activities", "pipelines", "reasons", "cycles"}, {"addNote"})
DealDetailPage(admin) ==
    Join({Part({"deal", "settings", "units", "pipelines"} \cup IfAdmin(admin, {"users"}),
               {"move"} \cup IfAdmin(admin, {"reopen"})),
          FirstContactButton, QuickLogActions, WhatsAppButton, MarkWonDialog, MarkLostDialog,
          StageGuide, ClosingChecklist, DealFieldsCard(admin), DealObjectionCard, EnrollmentForm,
          DealTasks, Timeline, MissingFieldsDialog, NextContactPrompt})

-----------------------------------------------------------------------------
(* My Day, tasks, contacts *)

DealRow == Join({Show({}), WhatsAppButton, QuickLogActions})
MyDayPage(admin) == Show({"myDay", "recoverable"} \cup IfAdmin(admin, {"users"}))
MyDayQueue(admin) == Join({MyDayPage(admin), DealRow})
RescueList == Part({"recoverable"}, {"reopenInCycle"})
MyDayRescue(admin) == Join({MyDayPage(admin), RescueList})

TaskRow == Part({}, {"toggleTask"})
TasksPage == Join({Show({"myTasks"}), TaskRow})

ContactDialog == Part({}, {"createContact", "updateContact"})
ContactsPage == Join({Show({"contacts"}), ContactDialog})

-----------------------------------------------------------------------------
(* Reports, of admins only *)

FunnelSection == Show({"funnel"})
LostReasonsSection == Show({"lostReport"})
ResponseTimeSection == Show({"responseReport"})
SalesSection == Show({"salesReport"})
CoolingSection == Show({"cooling"})
CacSection == Show({"cac"})
GoalsSection == Show({"goalProgress"})
ConversationsSection == Show({"conversations"})
ReportsPage ==
    Join({Show({"units", "users", "cycles", "activeCycle", "summary"}), FunnelSection,
          LostReasonsSection, ResponseTimeSection, SalesSection, CoolingSection, CacSection,
          GoalsSection, ConversationsSection})

-----------------------------------------------------------------------------
(* Settings, of admins only; one tab is mounted at a time *)

CreateUserDialog == Part({"units"}, {"saveUser"})
ResetPasswordDialog == Part({}, {"resetPassword"})
UsersTab == Join({Part({"users", "units"}, {"saveUser"}), CreateUserDialog, ResetPasswordDialog})
UnitRow == Part({}, {"saveUnit"})
UnitsTab == Join({Part({"units"}, {"saveUnit"}), UnitRow})
StageConfigDialog == Part({"dealFields"}, {"saveStage"})
StageRow == Join({Part({}, {"saveStage"}), StageConfigDialog})
StagesTab == Join({Part({"pipelines"}, {"saveStage"}), StageRow})
TemplateCard == Part({}, {"saveTemplate"})
MessagesTab == Join({Part({"templates"}, {"saveTemplate"}), TemplateCard})
LostReasonRow == Part({}, {"saveReason"})
LostReasonsTab == Join({Part({"reasons"}, {"saveReason"}), LostReasonRow})
LeadSourcesTab == Part({"sources", "units"}, {"saveSource"})
ActivateCycleDialog == Part({}, {"activateCycle"})
RolloverDialog == Part({"openCount"}, {"rollover"})
CycleRow == Join({Part({}, {"saveCycle"}), ActivateCycleDialog, RolloverDialog})
CyclesTab == Join({Part({"cycles"}, {"saveCycle"}), CycleRow})
TargetCell == Part({}, {"saveGoal"})
GoalsTab == Join({Part({"cycles", "goals", "users", "units"}, {"saveGoal"}), TargetCell})
AmountCell == Part({}, {"saveSpend"})
SpendTab == Join({Part({"spend", "units"}, {"saveSpend"}), AmountCell})
ObjectionCard == Part({}, {"saveObjection"})
ObjectionsTab == Join({Part({"objections", "templates"}, {"saveObjection"}), ObjectionCard})
GeneralTab == Part({"settings"}, {"saveSettings"})
SettingsPage ==
    [usersTab |-> AppLayout(UsersTab), unitsTab |-> AppLayout(UnitsTab),
     stagesTab |-> AppLayout(StagesTab), messagesTab |-> AppLayout(MessagesTab),
     cyclesTab |-> AppLayout(CyclesTab), spendTab |-> AppLayout(SpendTab),
     goalsTab |-> AppLayout(GoalsTab), objectionsTab |-> AppLayout(ObjectionsTab),
     reasonsTab |-> AppLayout(LostReasonsTab), sourcesTab |-> AppLayout(LeadSourcesTab),
     generalTab |-> AppLayout(GeneralTab)]

-----------------------------------------------------------------------------
(* The application *)

Pages(admin) ==
    [board |-> AppLayout(NegociacoesPage(admin)), detail |-> AppLayout(DealDetailPage(admin)),
     queue |-> AppLayout(MyDayQueue(admin)), rescue |-> AppLayout(MyDayRescue(admin)),
     tasks |-> AppLayout(TasksPage), contacts |-> AppLayout(ContactsPage)]

\* NAV_ITEMS hides the pages of admins only, and the pages themselves turn away.
PagesFor(admin) ==
    IF admin THEN Pages(TRUE) ++ [reports |-> AppLayout(ReportsPage)] ++ SettingsPage
             ELSE Pages(FALSE)

\* A screen: a page or settings tab with what is mounted on it.
Screens(admin) ==
    LET pages == PagesFor(admin)
    IN {[name |-> s, reads |-> pages[s].reads, starts |-> pages[s].starts] : s \in DOMAIN pages}
=============================================================================
