------------------------------ MODULE TabHooks -------------------------------
(***************************************************************************)
(* The mutation hooks of the browser application: what each sends, which   *)
(* cached queries it invalidates when the answer is a success, and whether *)
(* it first merges the deal of the answer into the cached deal             *)
(* (hooks/mutations.ts and the useMutation calls inside components).       *)
(*                                                                         *)
(* Queries: kanban deal activities dealTasks myTasks myDay contacts        *)
(*   recoverable cycles activeCycle goals goalProgress myGoalProgress      *)
(*   spend users units pipelines reasons sources settings templates        *)
(*   objections dealFields, and the reports summary funnel lostReport      *)
(*   responseReport salesReport cooling cac conversations.                 *)
(***************************************************************************)
EXTENDS TabApi, Sequences

\* A hook sends its requests one after the other and stops at the first failure.
Hook(calls, refreshes) ==
    [calls |-> calls, writes |-> UNION {calls[i] : i \in DOMAIN calls},
     refreshes |-> refreshes, merges |-> FALSE]
Merging(hook) == [hook EXCEPT !.merges = TRUE]

invalidateDeal == {"deal", "activities", "kanban", "myDay"}

UseCreateDeal == Hook(<<ContactsApi.create, DealsApi.create>>, {"kanban"})
UseUpdateDeal(request) == Merging(Hook(<<request>>, {"kanban"}))
UseMarkWon == Hook(<<DealsApi.markWon>>, invalidateDeal)

\* My Day is left to the component: a refetch would unmount the row of the prompt.
UseQuickLog == Hook(<<DealsApi.log>>, {"deal", "activities", "kanban"})
UseScheduleVisit ==
    Hook(<<DealsApi.visit>>, {"deal", "activities", "kanban", "dealTasks", "myTasks"})
UseSetNextContactFor == Merging(Hook(<<DealsApi.schedule>>, {"kanban", "myDay", "activities"}))
UseSetNextContact == Merging(Hook(<<DealsApi.schedule>>, {"kanban", "myDay", "activities"}))
UseMarkLost == Hook(<<DealsApi.markLost>>, invalidateDeal)
UseReopenInCycle ==
    Hook(<<DealsApi.reopenInCycle>>, {"recoverable", "kanban", "myDay", "deal", "activities"})
UseReopenDeal == Hook(<<DealsApi.reopen>>, invalidateDeal)
UseRegisterFirstContact == Hook(<<DealsApi.registerFirstContact>>, invalidateDeal)
UseClaimDeal == Hook(<<DealsApi.claim>>, invalidateDeal)
UseAddNote == Hook(<<DealsApi.addNote>>, {"activities", "deal"})
UseCreateTask == Hook(<<TasksApi.create>>, {"dealTasks", "myTasks", "activities"})
UseToggleTask == Hook(<<TasksApi.update>>, {"myTasks", "dealTasks", "activities"})
UseCreateContact == Hook(<<ContactsApi.create>>, {"contacts"})
UseUpdateContact == Hook(<<ContactsApi.update>>, {"contacts"})

\* Invalidates whatever the answer was.
UseMoveDeal == Hook(<<DealsApi.move>>, {"kanban", "deal", "myDay"})

\* The objection dialog logs, then patches the free text into the deal.
SaveObjection == Hook(<<DealsApi.log, DealsApi.enroll>>, {"deal", "kanban", "activities"})

\* The gate dialog; the kinds of missing fields decide which calls it makes.
SaveMissing ==
    Hook(<<ContactsApi.update, DealsApi.registerFirstContact, DealsApi.complete>>,
         {"deal", "kanban", "activities"})

-----------------------------------------------------------------------------
(* Settings *)

useInvalidateCycles ==
    {"cycles", "activeCycle", "kanban", "recoverable", "goalProgress", "myGoalProgress"}
SaveCycle == Hook(<<CyclesApi.update>>, useInvalidateCycles)
ActivateCycle == Hook(<<CyclesApi.activate>>, useInvalidateCycles)
RolloverCycle == Hook(<<CyclesApi.rollover>>, useInvalidateCycles)

useInvalidateGoals == {"goals", "goalProgress", "myGoalProgress"}
SaveGoal == Hook(<<GoalsApi.update>>, useInvalidateGoals)

useInvalidateSpend == {"spend", "cac", "summary"}
SaveSpend == Hook(<<CampaignSpendApi.update>>, useInvalidateSpend)

useInvalidateObjections == {"objections"}
SaveCatalogObjection == Hook(<<ObjectionsApi.update>>, useInvalidateObjections)

SaveUser == Hook(<<UsersApi.update>>, {"users"})
ResetPassword == Hook(<<UsersApi.resetPassword>>, {})
SaveUnit == Hook(<<UnitsApi.update>>, {"units"})
SaveStage == Hook(<<PipelinesApi.updateStage>>, {"pipelines"})
SaveTemplate == Hook(<<MessageTemplatesApi.update>>, {"templates"})
SaveReason == Hook(<<LostReasonsApi.update>>, {"reasons"})
SaveSource == Hook(<<LeadSourcesApi.revoke>>, {"sources"})
SaveSettings == Hook(<<SettingsApi.update>>, {"settings"})

-----------------------------------------------------------------------------

Hooks ==
    [createDeal |-> UseCreateDeal, updateDeal |-> UseUpdateDeal(DealsApi.update),
     reassignDeal |-> UseUpdateDeal(DealsApi.reassign), enroll |-> UseUpdateDeal(DealsApi.enroll),
     setObjection |-> UseUpdateDeal(DealsApi.setObjection), markWon |-> UseMarkWon, quickLog |-> UseQuickLog,
     visit |-> UseScheduleVisit, setNextFor |-> UseSetNextContactFor,
     setNext |-> UseSetNextContact, markLost |-> UseMarkLost,
     reopenInCycle |-> UseReopenInCycle, reopen |-> UseReopenDeal,
     firstContact |-> UseRegisterFirstContact, claim |-> UseClaimDeal,
     addNote |-> UseAddNote, createTask |-> UseCreateTask, toggleTask |-> UseToggleTask,
     createContact |-> UseCreateContact, updateContact |-> UseUpdateContact,
     move |-> UseMoveDeal, objection |-> SaveObjection, missing |-> SaveMissing,
     saveCycle |-> SaveCycle, activateCycle |-> ActivateCycle, rollover |-> RolloverCycle,
     saveGoal |-> SaveGoal, saveSpend |-> SaveSpend,
     saveObjection |-> SaveCatalogObjection, saveUser |-> SaveUser,
     resetPassword |-> ResetPassword, saveUnit |-> SaveUnit, saveStage |-> SaveStage,
     saveTemplate |-> SaveTemplate, saveReason |-> SaveReason, saveSource |-> SaveSource,
     saveSettings |-> SaveSettings]
=============================================================================
