------------------------------- MODULE TabApi --------------------------------
(***************************************************************************)
(* What the CRM's browser application reads and writes through its API     *)
(* (lib/api/types.ts, lib/api/resources.ts).  The data are facts: a        *)
(* response shows a set of facts, a request changes a set of facts, and a  *)
(* cached response is out of date when a request changed a fact it shows.  *)
(* Facts of one deal:                                                      *)
(*   born place status owner queued profile enrollment objected contacted  *)
(*   nextContact touched cycleOf activity task rescued                     *)
(* (owner: of a closed deal, or changed by an admin; queued: whether an    *)
(* open deal waits unowned)                                                *)
(* Other facts: contact contactBorn unit user stages reasons cycles        *)
(*   sources settings templates objections spend goals fields              *)
(***************************************************************************)


\* Two tables without a common key as one.
f ++ g == [x \in DOMAIN f \cup DOMAIN g |-> IF x \in DOMAIN f THEN f[x] ELSE g[x]]

-----------------------------------------------------------------------------
(* Responses *)

UserData == {"user"}
UnitData == {"unit"}
PipelineData == {"stages"}
DealFieldDef == {"fields"}
LostReasonData == {"reasons"}
CycleData == {"cycles"}
LeadSourceData == {"sources"}
ContactData == {"contact"}
ContactList == ContactData \cup {"contactBorn"}

\* is_cooling is computed from last_activity_at and the setting.
DealCard == {"born", "place", "status", "owner", "queued", "profile", "enrollment",
             "contact", "contacted", "nextContact", "touched", "settings"}
KanbanResponse == DealCard \cup {"stages", "cycleOf"}

\* DealOut, which a PATCH returns, and what GET adds to it.
EnrollmentData == {"enrollment"}
DealOut == EnrollmentData \cup {"place", "status", "owner", "queued", "profile", "objected",
                                "contacted", "nextContact", "touched", "cycleOf"}
Deal == DealOut \cup ContactData

Activity == {"activity", "user"}
TaskItem == {"task"}
AppSettings == {"settings"}

MyDayDealRow == {"born", "status", "profile", "enrollment", "contact", "place", "stages",
                 "owner", "queued", "contacted", "nextContact", "touched"}
MyDayTaskRow == {"task", "profile"}
MyDayResponse == MyDayDealRow \cup MyDayTaskRow \cup {"settings"}

MessageTemplate == {"templates"}
Objection == {"objections"}
CampaignSpend == {"spend"}
Goal == {"goals"}

\* won_count counts won deals of the goal's cycle, owner and unit.
GoalProgressRow == {"goals", "status", "owner", "profile", "cycleOf", "cycles", "user", "unit"}

RecoverableDealItem == {"status", "rescued", "profile", "enrollment", "contact", "owner", "user",
                        "cycleOf", "cycles", "reasons"}

ReportSummary == {"born", "status", "contacted", "nextContact", "owner", "queued", "user",
                  "profile", "cycleOf", "spend"}
FunnelReport == {"born", "place", "stages", "status", "owner", "queued", "profile", "cycleOf"}
LostReasonsReport == {"status", "reasons", "enrollment", "objected", "objections", "profile",
                      "owner", "cycleOf"}
CacReport == {"born", "status", "profile", "spend", "unit", "cycleOf", "cycles"}
ConversationsReport == {"activity", "status", "user", "cycleOf"}
ResponseTimeReport == {"born", "contacted", "owner", "queued", "user", "cycleOf"}
SalesReport == {"status", "profile", "owner", "user", "unit", "cycleOf"}
CoolingReport == {"born", "status", "touched", "owner", "queued", "user", "place", "stages", "settings"}

-----------------------------------------------------------------------------
(* Requests.  Every timeline entry also moves last_activity_at.            *)

Logged == {"activity", "touched"}

UsersApi == [create |-> {"user"}, update |-> {"user"}, resetPassword |-> {}]
UnitsApi == [create |-> {"unit"}, update |-> {"unit"}]
PipelinesApi == [createStage |-> {"stages"}, updateStage |-> {"stages"},
                 deleteStage |-> {"stages"}]
LostReasonsApi == [create |-> {"reasons"}, update |-> {"reasons"}]
CyclesApi == [create |-> {"cycles"}, update |-> {"cycles"}, remove |-> {"cycles"},
              activate |-> {"cycles"}, rollover |-> {"cycleOf"} \cup Logged]
CampaignSpendApi == [create |-> {"spend"}, update |-> {"spend"}, remove |-> {"spend"}]
GoalsApi == [create |-> {"goals"}, update |-> {"goals"}, remove |-> {"goals"}]
ObjectionsApi == [create |-> {"objections"}, update |-> {"objections"},
                  remove |-> {"objections"}]
LeadSourcesApi == [create |-> {"sources"}, revoke |-> {"sources"}]
SettingsApi == [update |-> {"settings"}]
MessageTemplatesApi == [create |-> {"templates"}, update |-> {"templates"},
                        remove |-> {"templates"}]
ContactsApi == [create |-> {"contactBorn"}, update |-> {"contact"}]
TasksApi == [create |-> {"task"} \cup Logged, update |-> {"task"} \cup Logged]

\* A scheduled visit also plans the next contact and leaves a task; claiming
\* and reassigning hand over the open tasks.
DealsApi ==
    [create |-> {"born"} \cup Logged,
     update |-> {"profile"},
     enroll |-> {"enrollment"},
     setObjection |-> {"objected"},
     complete |-> {"profile", "enrollment"},
     schedule |-> {"nextContact"},
     reassign |-> {"profile", "owner", "task"} \cup Logged,
     move |-> {"place"} \cup Logged,
     log |-> {"contacted"} \cup Logged,
     visit |-> {"contacted", "nextContact", "task"} \cup Logged,
     reopenInCycle |-> {"born", "rescued"} \cup Logged,
     markWon |-> {"status", "place", "profile"} \cup Logged,
     markLost |-> {"status"} \cup Logged,
     reopen |-> {"status"} \cup Logged,
     registerFirstContact |-> {"contacted"} \cup Logged,
     claim |-> {"queued", "task"} \cup Logged,
     addNote |-> Logged]
=============================================================================
