----------------------------- MODULE TabQueries ------------------------------
(***************************************************************************)
(* The cached queries of the browser application and the facts each one    *)
(* shows (hooks/queries.ts over lib/api/resources.ts).  deal, activities   *)
(* and dealTasks are those of one deal.  Two parametrisations of a query   *)
(* (filters, page, cycle) are two entries with the same facts.             *)
(***************************************************************************)
EXTENDS TabApi

DealQueries ==
    [kanban |-> KanbanResponse, deal |-> Deal, activities |-> Activity,
     dealTasks |-> TaskItem, myTasks |-> TaskItem, contacts |-> ContactList]

CatalogQueries ==
    [users |-> UserData, units |-> UnitData, pipelines |-> PipelineData,
     reasons |-> LostReasonData, sources |-> LeadSourceData, settings |-> AppSettings,
     dealFields |-> DealFieldDef, myDay |-> MyDayResponse, templates |-> MessageTemplate]

CycleQueries ==
    [cycles |-> CycleData, activeCycle |-> CycleData, spend |-> CampaignSpend, goals |-> Goal,
     goalProgress |-> GoalProgressRow, myGoalProgress |-> GoalProgressRow,
     objections |-> Objection, recoverable |-> RecoverableDealItem,
     openCount |-> {"born", "status", "cycleOf"}]

ReportQueries ==
    [summary |-> ReportSummary, funnel |-> FunnelReport, lostReport |-> LostReasonsReport,
     responseReport |-> ResponseTimeReport, salesReport |-> SalesReport,
     cooling |-> CoolingReport, cac |-> CacReport, conversations |-> ConversationsReport]

Shows == DealQueries ++ CatalogQueries ++ CycleQueries ++ ReportQueries
Queries == DOMAIN Shows
=============================================================================
