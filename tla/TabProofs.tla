------------------------------ MODULE TabProofs ------------------------------
(***************************************************************************)
(* Proofs about Tab, for any watched entry and role, and any number of     *)
(* mutations, changes of page and other users' edits.                      *)
(*                                                                         *)
(* FreshAtRest is not inductive: it says nothing of a tab that is busy.    *)
(* The invariant says why a busy tab will be fresh: whatever a served call *)
(* left the watched entry lacking is still on its way to it (Covered), by  *)
(* an answer, a fetch, a mark or a prompt, or is known to be lost.  That   *)
(* nothing but the listed gaps is missing on the page where a mutation was *)
(* started is a fact about the tables of hooks, queries and pages          *)
(* (EveryScreen), which the first three parts prove.                       *)
(***************************************************************************)
EXTENDS Tab, SequenceTheorems, TLAPS

-----------------------------------------------------------------------------
(* The table of hooks *)

Facts == {"born", "place", "status", "owner", "queued", "profile", "enrollment", "objected",
          "contacted", "nextContact", "touched", "cycleOf", "activity", "task", "rescued",
          "contact", "contactBorn", "unit", "user", "stages", "reasons", "cycles", "sources",
          "settings", "templates", "objections", "spend", "goals", "fields"}

\* A hook makes at least one request, writes what its requests write, and one
\* that merges the deal of the answer writes nothing of the contact.
HookOK(h) ==
    /\ h.calls \in Seq(SUBSET Facts) /\ Len(h.calls) >= 1
    /\ \A i \in DOMAIN h.calls : h.calls[i] \subseteq h.writes
    /\ h.merges \in BOOLEAN /\ (h.merges => h.writes \cap ContactData = {})

LEMMA HookShape ==
    ASSUME NEW c \in Seq(SUBSET Facts), Len(c) >= 1, NEW r
    PROVE  /\ HookOK(Hook(c, r))
           /\ (\A i \in DOMAIN c : c[i] \cap ContactData = {}) => HookOK(Merging(Hook(c, r)))
<1>1. \A i \in DOMAIN c : c[i] \subseteq UNION {c[j] : j \in DOMAIN c}
  OBVIOUS
<1>2. (\A i \in DOMAIN c : c[i] \cap ContactData = {})
        => (UNION {c[j] : j \in DOMAIN c}) \cap ContactData = {}
  OBVIOUS
<1> QED
  BY <1>1, <1>2 DEF Hook, Merging, HookOK

LEMMA SomeRequests ==
    ASSUME NEW a \in SUBSET Facts, NEW b \in SUBSET Facts, NEW c \in SUBSET Facts, NEW r
    PROVE  /\ HookOK(Hook(<<a>>, r)) /\ HookOK(Hook(<<a, b>>, r)) /\ HookOK(Hook(<<a, b, c>>, r))
           /\ a \cap ContactData = {} => HookOK(Merging(Hook(<<a>>, r)))
<1> DEFINE one == <<a>>
           two == <<a, b>>
           three == <<a, b, c>>
<1>1. one \in Seq(SUBSET Facts) /\ Len(one) >= 1 /\ \A i \in DOMAIN one : one[i] = a
  OBVIOUS
<1>2. two \in Seq(SUBSET Facts) /\ Len(two) >= 1
  OBVIOUS
<1>3. three \in Seq(SUBSET Facts) /\ Len(three) >= 1
  OBVIOUS
<1> HIDE DEF one, two, three
<1>4. HookOK(Hook(one, r)) /\ HookOK(Hook(two, r)) /\ HookOK(Hook(three, r))
  BY <1>1, <1>2, <1>3, HookShape
<1>5. a \cap ContactData = {} => HookOK(Merging(Hook(one, r)))
  BY <1>1, HookShape
<1> QED
  BY <1>4, <1>5 DEF one, two, three

LEMMA DealRequests ==
    \A r \in {"create", "update", "enroll", "setObjection", "complete", "schedule", "reassign",
              "move", "log", "visit", "reopenInCycle", "markWon", "markLost", "reopen",
              "registerFirstContact", "claim", "addNote"} :
        DealsApi[r] \in SUBSET Facts /\ DealsApi[r] \cap ContactData = {}
BY DEF DealsApi, Facts, ContactData, Logged

LEMMA OtherRequests ==
    /\ {UsersApi.update, UsersApi.resetPassword, UnitsApi.update, PipelinesApi.updateStage,
        LostReasonsApi.update, CyclesApi.update, CyclesApi.activate, CyclesApi.rollover}
           \subseteq SUBSET Facts
    /\ {CampaignSpendApi.update, GoalsApi.update, ObjectionsApi.update, LeadSourcesApi.revoke,
        SettingsApi.update, MessageTemplatesApi.update, ContactsApi.create, ContactsApi.update,
        TasksApi.create, TasksApi.update} \subseteq SUBSET Facts
<1>1. {UsersApi.update, UsersApi.resetPassword, UnitsApi.update, PipelinesApi.updateStage,
       LostReasonsApi.update, CyclesApi.update, CyclesApi.activate, CyclesApi.rollover}
         \subseteq SUBSET Facts
  BY DEF UsersApi, UnitsApi, PipelinesApi, LostReasonsApi, CyclesApi, Facts, Logged
<1>2. {CampaignSpendApi.update, GoalsApi.update, ObjectionsApi.update, LeadSourcesApi.revoke,
       SettingsApi.update, MessageTemplatesApi.update, ContactsApi.create, ContactsApi.update,
       TasksApi.create, TasksApi.update} \subseteq SUBSET Facts
  BY DEF CampaignSpendApi, GoalsApi, ObjectionsApi, LeadSourcesApi, SettingsApi,
         MessageTemplatesApi, ContactsApi, TasksApi, Facts, Logged
<1> QED
  BY <1>1, <1>2

LEMMA EveryHook == \A op \in Ops : HookOK(Hooks[op])
<1>1. /\ HookOK(UseCreateDeal) /\ HookOK(UseUpdateDeal(DealsApi.update))
      /\ HookOK(UseUpdateDeal(DealsApi.reassign)) /\ HookOK(UseUpdateDeal(DealsApi.enroll))
      /\ HookOK(UseUpdateDeal(DealsApi.setObjection)) /\ HookOK(UseMarkWon)
      /\ HookOK(UseQuickLog)
  BY DealRequests, OtherRequests, SomeRequests
  DEF UseCreateDeal, UseUpdateDeal, UseMarkWon, UseQuickLog
<1>2. /\ HookOK(UseScheduleVisit) /\ HookOK(UseSetNextContactFor) /\ HookOK(UseSetNextContact)
      /\ HookOK(UseMarkLost) /\ HookOK(UseReopenInCycle) /\ HookOK(UseReopenDeal)
      /\ HookOK(UseRegisterFirstContact) /\ HookOK(UseClaimDeal) /\ HookOK(UseAddNote)
  BY DealRequests, SomeRequests
  DEF UseScheduleVisit, UseSetNextContactFor, UseSetNextContact, UseMarkLost, UseReopenInCycle,
      UseReopenDeal, UseRegisterFirstContact, UseClaimDeal, UseAddNote
<1>3. /\ HookOK(UseCreateTask) /\ HookOK(UseToggleTask) /\ HookOK(UseCreateContact)
      /\ HookOK(UseUpdateContact) /\ HookOK(UseMoveDeal) /\ HookOK(SaveObjection)
      /\ HookOK(SaveMissing)
  BY DealRequests, OtherRequests, SomeRequests
  DEF UseCreateTask, UseToggleTask, UseCreateContact, UseUpdateContact, UseMoveDeal,
      SaveObjection, SaveMissing
<1>4. /\ HookOK(SaveCycle) /\ HookOK(ActivateCycle) /\ HookOK(RolloverCycle)
      /\ HookOK(SaveGoal) /\ HookOK(SaveSpend) /\ HookOK(SaveCatalogObjection)
      /\ HookOK(SaveUser) /\ HookOK(ResetPassword) /\ HookOK(SaveUnit) /\ HookOK(SaveStage)
      /\ HookOK(SaveTemplate) /\ HookOK(SaveReason) /\ HookOK(SaveSource)
      /\ HookOK(SaveSettings)
  BY OtherRequests, SomeRequests
  DEF SaveCycle, ActivateCycle, RolloverCycle, SaveGoal, SaveSpend, SaveCatalogObjection,
      SaveUser, ResetPassword, SaveUnit, SaveStage, SaveTemplate, SaveReason, SaveSource,
      SaveSettings
<1> HIDE DEF HookOK
<1> QED
  BY <1>1, <1>2, <1>3, <1>4 DEF Ops, Hooks

\* A move refreshes the board and merges nothing; the rest is told by name.
LEMMA NamedHooks ==
    /\ "kanban" \in Hooks["move"].refreshes /\ Hooks["move"].merges = FALSE
    /\ {"other", "none"} \cap Ops = {}
BY DEF Hooks, Ops, UseMoveDeal, Hook

-----------------------------------------------------------------------------
(* The table of queries *)

LEMMA DealShows ==
    /\ Shows["kanban"] = {"born", "place", "status", "owner", "queued", "profile", "enrollment",
                          "contact", "contacted", "nextContact", "touched", "settings",
                          "stages", "cycleOf"}
    /\ Shows["deal"] = {"enrollment", "place", "status", "owner", "queued", "profile",
                        "objected", "contacted", "nextContact", "touched", "cycleOf", "contact"}
    /\ Shows["activities"] = {"activity", "user"}
    /\ Shows["dealTasks"] = {"task"} /\ Shows["myTasks"] = {"task"}
    /\ Shows["contacts"] = {"contact", "contactBorn"}
BY DEF Shows, DealQueries, ++, KanbanResponse, DealCard, Deal, DealOut, EnrollmentData,
       ContactData, Activity, TaskItem, ContactList

LEMMA CatalogShows ==
    /\ Shows["users"] = {"user"} /\ Shows["units"] = {"unit"} /\ Shows["pipelines"] = {"stages"}
    /\ Shows["reasons"] = {"reasons"} /\ Shows["sources"] = {"sources"}
    /\ Shows["settings"] = {"settings"} /\ Shows["dealFields"] = {"fields"}
    /\ Shows["templates"] = {"templates"}
    /\ Shows["myDay"] = {"born", "status", "profile", "enrollment", "contact", "place",
                         "stages", "owner", "queued", "contacted", "nextContact", "touched",
                         "task", "settings"}
<1>1. MyDayResponse = {"born", "status", "profile", "enrollment", "contact", "place",
                       "stages", "owner", "queued", "contacted", "nextContact", "touched",
                       "task", "settings"}
  BY DEF MyDayResponse, MyDayDealRow, MyDayTaskRow
<1> QED
  BY <1>1
  DEF Shows, DealQueries, CatalogQueries, ++, UserData, UnitData, PipelineData, LostReasonData,
      LeadSourceData, AppSettings, DealFieldDef, MessageTemplate

LEMMA CycleShows ==
    /\ Shows["cycles"] = {"cycles"} /\ Shows["activeCycle"] = {"cycles"}
    /\ Shows["spend"] = {"spend"} /\ Shows["goals"] = {"goals"}
    /\ Shows["objections"] = {"objections"}
    /\ Shows["myGoalProgress"] = {"goals", "status", "owner", "profile", "cycleOf", "cycles",
                                  "user", "unit"}
    /\ Shows["recoverable"] = {"status", "rescued", "profile", "enrollment", "contact", "owner",
                               "user", "cycleOf", "cycles", "reasons"}
    /\ Shows["openCount"] = {"born", "status", "cycleOf"}
BY DEF Shows, DealQueries, CatalogQueries, CycleQueries, ++, CycleData, CampaignSpend, Goal,
       GoalProgressRow, Objection, RecoverableDealItem

\* What an editor copies is shown by the query it copies from.
LEMMA EveryEditor ==
    \A e \in DOMAIN Editors : Editors[e].facts \subseteq Shows[Editors[e].reads]
<1> DEFINE Fits(r) == r.facts \subseteq Shows[r.reads]
<1>1. \A e \in DOMAIN DealEditors : Fits(DealEditors[e])
  BY DealShows DEF DealEditors, Editor
<1>2. \A e \in DOMAIN ContactEditors : Fits(ContactEditors[e])
  BY DealShows DEF ContactEditors, Editor
<1>3. \A e \in DOMAIN SettingsEditors : Fits(SettingsEditors[e])
  BY CatalogShows DEF SettingsEditors, Editor
<1>4. \A e \in DOMAIN CatalogEditors : Fits(CatalogEditors[e])
  BY CycleShows DEF CatalogEditors, Editor
<1> HIDE DEF Fits
<1>5. \A e \in DOMAIN Editors : Fits(Editors[e])
  BY <1>1, <1>2, <1>3, <1>4 DEF Editors, ++
<1> QED
  BY <1>5 DEF Fits

-----------------------------------------------------------------------------
(* The table of pages: what a page starts keeps what it shows fresh, but   *)
(* for the listed gaps                                                     *)

Clean(op, q) == q \in Told(op) \/ Shows[q] \cap Hooks[op].writes = {} \/ <<op, q>> \in Gaps

Within(p, reads, starts) == p.reads \subseteq reads /\ p.starts \subseteq starts

\* A page whose queries and mutations are among the given ones.
LEMMA JoinWithin ==
    ASSUME NEW parts, NEW reads, NEW starts, \A p \in parts : Within(p, reads, starts)
    PROVE  Within(Join(parts), reads, starts)
BY DEF Within, Join, Part

LEMMA PartWithin ==
    ASSUME NEW r, NEW s, NEW reads, NEW starts, r \subseteq reads, s \subseteq starts
    PROVE  Within(Part(r, s), reads, starts)
BY DEF Within, Part

LEMMA ShowWithin ==
    ASSUME NEW r, NEW reads, NEW starts, r \subseteq reads
    PROVE  Within(Show(r), reads, starts)
BY DEF Within, Show, Part

LEMMA LayoutWithin ==
    ASSUME NEW p, NEW reads, NEW starts, Within(p, reads, starts), "recoverable" \in reads
    PROVE  Within(AppLayout(p), reads, starts)
<1>1. Within(NavLinks, reads, starts)
  BY ShowWithin DEF NavLinks
<1> QED
  BY <1>1, JoinWithin DEF AppLayout

Tells(op, writes, told) == Hooks[op].writes = writes /\ Told(op) = told

\* What a hook of one request writes, and whom it tells.
LEMMA OneTells ==
    ASSUME NEW op, NEW a, NEW r
    PROVE  /\ Hooks[op] = Hook(<<a>>, r) => Tells(op, a, r \cup HeldBack(op))
           /\ Hooks[op] = Merging(Hook(<<a>>, r))
                  => Tells(op, a, r \cup HeldBack(op) \cup {"deal"})
<1>1. UNION {<<a>>[i] : i \in DOMAIN <<a>>} = a
  <2>1. DOMAIN <<a>> = {1} /\ <<a>>[1] = a
    OBVIOUS
  <2> QED
    BY <2>1
<1>2. /\ Hook(<<a>>, r).writes = a /\ Hook(<<a>>, r).refreshes = r
      /\ Hook(<<a>>, r).merges = FALSE
      /\ Merging(Hook(<<a>>, r)).writes = a /\ Merging(Hook(<<a>>, r)).refreshes = r
      /\ Merging(Hook(<<a>>, r)).merges = TRUE
  BY <1>1 DEF Hook, Merging
<1> QED
  BY <1>2 DEF Tells, Told

LEMMA MostHoldNothingBack ==
    /\ \A op : op \notin {"quickLog", "objection", "visit"} => HeldBack(op) = {}
    /\ \A op \in {"quickLog", "objection", "visit"} : HeldBack(op) = {"myDay"}
BY DEF HeldBack, OpensPrompt

LEMMA LogTells ==
    /\ Tells("quickLog", {"contacted"} \cup Logged, {"deal", "activities", "kanban", "myDay"})
    /\ Tells("visit", {"contacted", "nextContact", "task"} \cup Logged,
             {"deal", "activities", "kanban", "dealTasks", "myTasks", "myDay"})
    /\ Tells("firstContact", {"contacted"} \cup Logged, invalidateDeal)
    /\ Tells("setNext", {"nextContact"}, {"kanban", "myDay", "activities", "deal"})
    /\ Tells("setNextFor", {"nextContact"}, {"kanban", "myDay", "activities", "deal"})
<1>1. /\ Hooks["quickLog"] = UseQuickLog /\ Hooks["visit"] = UseScheduleVisit
      /\ Hooks["firstContact"] = UseRegisterFirstContact
      /\ Hooks["setNext"] = UseSetNextContact /\ Hooks["setNextFor"] = UseSetNextContactFor
  BY DEF Hooks
<1>2. /\ DealsApi.log = {"contacted"} \cup Logged /\ DealsApi.schedule = {"nextContact"}
      /\ DealsApi.visit = {"contacted", "nextContact", "task"} \cup Logged
      /\ DealsApi.registerFirstContact = {"contacted"} \cup Logged
  BY DEF DealsApi
<1>3. /\ Tells("quickLog", DealsApi.log, {"deal", "activities", "kanban"} \cup {"myDay"})
      /\ Tells("visit", DealsApi.visit,
               {"deal", "activities", "kanban", "dealTasks", "myTasks"} \cup {"myDay"})
  BY <1>1, OneTells, MostHoldNothingBack DEF UseQuickLog, UseScheduleVisit
<1>4. /\ Tells("firstContact", DealsApi.registerFirstContact, invalidateDeal \cup {})
      /\ Tells("setNext", DealsApi.schedule,
               {"kanban", "myDay", "activities"} \cup {} \cup {"deal"})
      /\ Tells("setNextFor", DealsApi.schedule,
               {"kanban", "myDay", "activities"} \cup {} \cup {"deal"})
  BY <1>1, OneTells, MostHoldNothingBack
  DEF UseRegisterFirstContact, UseSetNextContact, UseSetNextContactFor
<1> QED
  BY <1>2, <1>3, <1>4 DEF Tells

LEMMA SeveralTell ==
    /\ Tells("objection", {"contacted", "enrollment"} \cup Logged,
             {"deal", "kanban", "activities", "myDay"})
    /\ Tells("missing", {"contact", "contacted", "profile", "enrollment"} \cup Logged,
             {"deal", "kanban", "activities"})
    /\ Tells("createDeal", {"contactBorn", "born"} \cup Logged, {"kanban"})
<1>1. ASSUME NEW a, NEW b, NEW c
      PROVE  /\ UNION {<<a, b>>[i] : i \in DOMAIN <<a, b>>} = a \cup b
             /\ UNION {<<a, b, c>>[i] : i \in DOMAIN <<a, b, c>>} = a \cup b \cup c
  <2>1. DOMAIN <<a, b>> = {1, 2} /\ <<a, b>>[1] = a /\ <<a, b>>[2] = b
    OBVIOUS
  <2>2. DOMAIN <<a, b, c>> = {1, 2, 3} /\ <<a, b, c>>[1] = a /\ <<a, b, c>>[2] = b
        /\ <<a, b, c>>[3] = c
    OBVIOUS
  <2>3. UNION {<<a, b>>[i] : i \in DOMAIN <<a, b>>} = a \cup b
    BY <2>1
  <2>4. UNION {<<a, b, c>>[i] : i \in DOMAIN <<a, b, c>>} = a \cup b \cup c
    BY <2>2
  <2> QED
    BY <2>3, <2>4
<1>2. ASSUME NEW op, NEW a, NEW b, NEW c, NEW r
      PROVE  /\ Hooks[op] = Hook(<<a, b>>, r) => Tells(op, a \cup b, r \cup HeldBack(op))
             /\ Hooks[op] = Hook(<<a, b, c>>, r)
                    => Tells(op, a \cup b \cup c, r \cup HeldBack(op))
  BY <1>1 DEF Hook, Tells, Told
<1>3. /\ Hooks["objection"] = SaveObjection /\ Hooks["missing"] = SaveMissing
      /\ Hooks["createDeal"] = UseCreateDeal
  BY DEF Hooks
<1>4. /\ DealsApi.log = {"contacted"} \cup Logged /\ DealsApi.enroll = {"enrollment"}
      /\ DealsApi.registerFirstContact = {"contacted"} \cup Logged
      /\ DealsApi.complete = {"profile", "enrollment"} /\ DealsApi.create = {"born"} \cup Logged
      /\ ContactsApi.update = {"contact"} /\ ContactsApi.create = {"contactBorn"}
  BY DEF DealsApi, ContactsApi
<1>5. Tells("objection", DealsApi.log \cup DealsApi.enroll,
            {"deal", "kanban", "activities"} \cup {"myDay"})
  BY <1>2, <1>3, MostHoldNothingBack DEF SaveObjection
<1>6. Tells("missing",
            ContactsApi.update \cup DealsApi.registerFirstContact \cup DealsApi.complete,
            {"deal", "kanban", "activities"} \cup {})
  BY <1>2, <1>3, MostHoldNothingBack DEF SaveMissing
<1>7. Tells("createDeal", ContactsApi.create \cup DealsApi.create, {"kanban"} \cup {})
  BY <1>2, <1>3, MostHoldNothingBack DEF UseCreateDeal
<1> QED
  BY <1>4, <1>5, <1>6, <1>7 DEF Tells

LEMMA DealTells ==
    /\ Tells("updateDeal", {"profile"}, {"kanban", "deal"})
    /\ Tells("reassignDeal", {"profile", "owner", "task"} \cup Logged, {"kanban", "deal"})
    /\ Tells("enroll", {"enrollment"}, {"kanban", "deal"})
    /\ Tells("setObjection", {"objected"}, {"kanban", "deal"})
    /\ Tells("markWon", {"status", "place", "profile"} \cup Logged, invalidateDeal)
    /\ Tells("markLost", {"status"} \cup Logged, invalidateDeal)
    /\ Tells("reopen", {"status"} \cup Logged, invalidateDeal)
    /\ Tells("reopenInCycle", {"born", "rescued"} \cup Logged,
             {"recoverable", "kanban", "myDay", "deal", "activities"})
    /\ Tells("claim", {"queued", "task"} \cup Logged, invalidateDeal)
    /\ Tells("move", {"place"} \cup Logged, {"kanban", "deal", "myDay"})
<1>1. /\ Hooks["updateDeal"] = UseUpdateDeal(DealsApi.update)
      /\ Hooks["reassignDeal"] = UseUpdateDeal(DealsApi.reassign)
      /\ Hooks["enroll"] = UseUpdateDeal(DealsApi.enroll)
      /\ Hooks["setObjection"] = UseUpdateDeal(DealsApi.setObjection)
      /\ Hooks["markWon"] = UseMarkWon /\ Hooks["markLost"] = UseMarkLost
      /\ Hooks["reopen"] = UseReopenDeal /\ Hooks["reopenInCycle"] = UseReopenInCycle
      /\ Hooks["claim"] = UseClaimDeal /\ Hooks["move"] = UseMoveDeal
  BY DEF Hooks
<1>2. /\ DealsApi.update = {"profile"} /\ DealsApi.enroll = {"enrollment"}
      /\ DealsApi.reassign = {"profile", "owner", "task"} \cup Logged
      /\ DealsApi.setObjection = {"objected"}
      /\ DealsApi.markWon = {"status", "place", "profile"} \cup Logged
      /\ DealsApi.markLost = {"status"} \cup Logged /\ DealsApi.reopen = {"status"} \cup Logged
      /\ DealsApi.reopenInCycle = {"born", "rescued"} \cup Logged
      /\ DealsApi.claim = {"queued", "task"} \cup Logged /\ DealsApi.move = {"place"} \cup Logged
  BY DEF DealsApi
<1>3. /\ Tells("updateDeal", DealsApi.update, {"kanban"} \cup {} \cup {"deal"})
      /\ Tells("reassignDeal", DealsApi.reassign, {"kanban"} \cup {} \cup {"deal"})
      /\ Tells("enroll", DealsApi.enroll, {"kanban"} \cup {} \cup {"deal"})
      /\ Tells("setObjection", DealsApi.setObjection, {"kanban"} \cup {} \cup {"deal"})
  BY <1>1, OneTells, MostHoldNothingBack DEF UseUpdateDeal
<1>4. /\ Tells("markWon", DealsApi.markWon, invalidateDeal \cup {})
      /\ Tells("markLost", DealsApi.markLost, invalidateDeal \cup {})
      /\ Tells("reopen", DealsApi.reopen, invalidateDeal \cup {})
      /\ Tells("claim", DealsApi.claim, invalidateDeal \cup {})
  BY <1>1, OneTells, MostHoldNothingBack DEF UseMarkWon, UseMarkLost, UseReopenDeal, UseClaimDeal
<1>5. /\ Tells("reopenInCycle", DealsApi.reopenInCycle,
               {"recoverable", "kanban", "myDay", "deal", "activities"} \cup {})
      /\ Tells("move", DealsApi.move, {"kanban", "deal", "myDay"} \cup {})
  BY <1>1, OneTells, MostHoldNothingBack DEF UseReopenInCycle, UseMoveDeal
<1> QED
  BY <1>2, <1>3, <1>4, <1>5 DEF Tells

LEMMA TaskTells ==
    /\ Tells("addNote", Logged, {"activities", "deal"})
    /\ Tells("createTask", {"task"} \cup Logged, {"dealTasks", "myTasks", "activities"})
    /\ Tells("toggleTask", {"task"} \cup Logged, {"myTasks", "dealTasks", "activities"})
    /\ Tells("createContact", {"contactBorn"}, {"contacts"})
    /\ Tells("updateContact", {"contact"}, {"contacts"})
<1>1. /\ Hooks["addNote"] = UseAddNote /\ Hooks["createTask"] = UseCreateTask
      /\ Hooks["toggleTask"] = UseToggleTask /\ Hooks["createContact"] = UseCreateContact
      /\ Hooks["updateContact"] = UseUpdateContact
  BY DEF Hooks
<1>2. /\ DealsApi.addNote = Logged /\ TasksApi.create = {"task"} \cup Logged
      /\ TasksApi.update = {"task"} \cup Logged /\ ContactsApi.create = {"contactBorn"}
      /\ ContactsApi.update = {"contact"}
  BY DEF DealsApi, TasksApi, ContactsApi
<1>3. /\ Tells("addNote", DealsApi.addNote, {"activities", "deal"} \cup {})
      /\ Tells("createTask", TasksApi.create, {"dealTasks", "myTasks", "activities"} \cup {})
      /\ Tells("toggleTask", TasksApi.update, {"myTasks", "dealTasks", "activities"} \cup {})
      /\ Tells("createContact", ContactsApi.create, {"contacts"} \cup {})
      /\ Tells("updateContact", ContactsApi.update, {"contacts"} \cup {})
  BY <1>1, OneTells, MostHoldNothingBack
  DEF UseAddNote, UseCreateTask, UseToggleTask, UseCreateContact, UseUpdateContact
<1> QED
  BY <1>2, <1>3 DEF Tells

LEMMA SettingsTell ==
    /\ Tells("saveUser", {"user"}, {"users"}) /\ Tells("resetPassword", {}, {})
    /\ Tells("saveUnit", {"unit"}, {"units"}) /\ Tells("saveStage", {"stages"}, {"pipelines"})
    /\ Tells("saveTemplate", {"templates"}, {"templates"})
    /\ Tells("saveReason", {"reasons"}, {"reasons"})
    /\ Tells("saveSource", {"sources"}, {"sources"})
    /\ Tells("saveSettings", {"settings"}, {"settings"})
<1>1. /\ Hooks["saveUser"] = SaveUser /\ Hooks["resetPassword"] = ResetPassword
      /\ Hooks["saveUnit"] = SaveUnit /\ Hooks["saveStage"] = SaveStage
      /\ Hooks["saveTemplate"] = SaveTemplate /\ Hooks["saveReason"] = SaveReason
      /\ Hooks["saveSource"] = SaveSource /\ Hooks["saveSettings"] = SaveSettings
  BY DEF Hooks
<1>2. /\ UsersApi.update = {"user"} /\ UsersApi.resetPassword = {} /\ UnitsApi.update = {"unit"}
      /\ PipelinesApi.updateStage = {"stages"} /\ MessageTemplatesApi.update = {"templates"}
      /\ LostReasonsApi.update = {"reasons"} /\ LeadSourcesApi.revoke = {"sources"}
      /\ SettingsApi.update = {"settings"}
  BY DEF UsersApi, UnitsApi, PipelinesApi, MessageTemplatesApi, LostReasonsApi, LeadSourcesApi,
         SettingsApi
<1>3. /\ Tells("saveUser", UsersApi.update, {"users"} \cup {})
      /\ Tells("resetPassword", UsersApi.resetPassword, {} \cup {})
      /\ Tells("saveUnit", UnitsApi.update, {"units"} \cup {})
      /\ Tells("saveStage", PipelinesApi.updateStage, {"pipelines"} \cup {})
  BY <1>1, OneTells, MostHoldNothingBack DEF SaveUser, ResetPassword, SaveUnit, SaveStage
<1>4. /\ Tells("saveTemplate", MessageTemplatesApi.update, {"templates"} \cup {})
      /\ Tells("saveReason", LostReasonsApi.update, {"reasons"} \cup {})
      /\ Tells("saveSource", LeadSourcesApi.revoke, {"sources"} \cup {})
      /\ Tells("saveSettings", SettingsApi.update, {"settings"} \cup {})
  BY <1>1, OneTells, MostHoldNothingBack DEF SaveTemplate, SaveReason, SaveSource, SaveSettings
<1> QED
  BY <1>2, <1>3, <1>4 DEF Tells

LEMMA CycleTells ==
    /\ Tells("saveCycle", {"cycles"}, useInvalidateCycles)
    /\ Tells("activateCycle", {"cycles"}, useInvalidateCycles)
    /\ Tells("rollover", {"cycleOf"} \cup Logged, useInvalidateCycles)
    /\ Tells("saveGoal", {"goals"}, useInvalidateGoals)
    /\ Tells("saveSpend", {"spend"}, useInvalidateSpend)
    /\ Tells("saveObjection", {"objections"}, useInvalidateObjections)
<1>1. /\ Hooks["saveCycle"] = SaveCycle /\ Hooks["activateCycle"] = ActivateCycle
      /\ Hooks["rollover"] = RolloverCycle /\ Hooks["saveGoal"] = SaveGoal
      /\ Hooks["saveSpend"] = SaveSpend /\ Hooks["saveObjection"] = SaveCatalogObjection
  BY DEF Hooks
<1>2. /\ CyclesApi.update = {"cycles"} /\ CyclesApi.activate = {"cycles"}
      /\ CyclesApi.rollover = {"cycleOf"} \cup Logged /\ GoalsApi.update = {"goals"}
      /\ CampaignSpendApi.update = {"spend"} /\ ObjectionsApi.update = {"objections"}
  BY DEF CyclesApi, GoalsApi, CampaignSpendApi, ObjectionsApi
<1>3. /\ Tells("saveCycle", CyclesApi.update, useInvalidateCycles \cup {})
      /\ Tells("activateCycle", CyclesApi.activate, useInvalidateCycles \cup {})
      /\ Tells("rollover", CyclesApi.rollover, useInvalidateCycles \cup {})
      /\ Tells("saveGoal", GoalsApi.update, useInvalidateGoals \cup {})
      /\ Tells("saveSpend", CampaignSpendApi.update, useInvalidateSpend \cup {})
      /\ Tells("saveObjection", ObjectionsApi.update, useInvalidateObjections \cup {})
  BY <1>1, OneTells, MostHoldNothingBack
  DEF SaveCycle, ActivateCycle, RolloverCycle, SaveGoal, SaveSpend, SaveCatalogObjection
<1> QED
  BY <1>2, <1>3 DEF Tells

-----------------------------------------------------------------------------

LogStarts == {"quickLog", "visit", "objection", "setNext", "firstContact"}
BoardReads == {"kanban", "users", "units", "pipelines", "settings", "cycles", "activeCycle",
               "myGoalProgress", "objections", "recoverable"}
BoardStarts == LogStarts \cup {"claim", "move", "createDeal", "setNextFor", "missing"}
DetailReads == {"deal", "activities", "dealTasks", "users", "units", "pipelines", "reasons",
                "settings", "dealFields", "templates", "cycles", "objections", "recoverable"}
DetailStarts == LogStarts \cup {"markWon", "markLost", "reopen", "addNote", "move", "enroll",
                                "updateDeal", "reassignDeal", "setObjection", "createTask",
                                "toggleTask", "missing"}
QueueReads == {"users", "settings", "myDay", "templates", "objections", "recoverable"}

LEMMA BoardPage ==
    ASSUME NEW a \in BOOLEAN
    PROVE  Within(Pages(a).board, BoardReads, BoardStarts)
<1> DEFINE In(p) == Within(p, BoardReads, BoardStarts)
<1>1. In(NextContactPrompt) /\ In(FirstContactButton) /\ In(ObjectionDialog)
  BY PartWithin DEF NextContactPrompt, FirstContactButton, ObjectionDialog, BoardReads,
                    BoardStarts, LogStarts
<1>2. In(Part({"settings"}, {"quickLog", "visit"})) /\ In(Show({"units"}))
  BY PartWithin, ShowWithin DEF BoardReads, BoardStarts, LogStarts
<1>3. In(QuickLogActions)
  BY <1>1, <1>2, JoinWithin DEF QuickLogActions
<1>4. In(DealCardContent) /\ In(BoardColumn)
  BY <1>1, <1>2, <1>3, JoinWithin DEF DealCardContent, BoardColumn
<1>5. /\ In(Part({"settings"}, {"move", "setNextFor", "missing"})) /\ In(Part({}, {"claim"}))
      /\ In(CreateDealDialog) /\ In(Show({"pipelines", "activeCycle", "kanban"}))
      /\ In(CycleCountdown) /\ In(GoalProgressBar) /\ In(FiltersBar(a))
  BY PartWithin, ShowWithin DEF CreateDealDialog, CycleCountdown, GoalProgressBar, FiltersBar,
                                IfAdmin, BoardReads, BoardStarts
<1>6. In(KanbanBoard) /\ In(LeadQueue)
  BY <1>4, <1>5, JoinWithin DEF KanbanBoard, LeadQueue
<1>7. In(NegociacoesPage(a))
  BY <1>5, <1>6, JoinWithin DEF NegociacoesPage
<1>8. In(AppLayout(NegociacoesPage(a)))
  BY <1>7, LayoutWithin DEF BoardReads
<1> QED
  BY <1>8 DEF Pages

LEMMA DetailPage ==
    ASSUME NEW a \in BOOLEAN
    PROVE  Within(Pages(a).detail, DetailReads, DetailStarts)
<1> DEFINE In(p) == Within(p, DetailReads, DetailStarts)
<1>1. In(NextContactPrompt) /\ In(FirstContactButton) /\ In(ObjectionDialog)
      /\ In(Part({"settings"}, {"quickLog", "visit"})) /\ In(MissingFieldsDialog)
  BY PartWithin DEF NextContactPrompt, FirstContactButton, ObjectionDialog, MissingFieldsDialog,
                    DetailReads, DetailStarts, LogStarts
<1>2. In(QuickLogActions)
  BY <1>1, JoinWithin DEF QuickLogActions
<1>3. In(Part({}, {"markWon"})) /\ In(Part({"settings", "templates"}, {"firstContact"}))
      /\ In(Part({"dealTasks"}, {"toggleTask"})) /\ In(NewTaskDialog) /\ In(MarkLostDialog)
      /\ In(EnrollmentForm) /\ In(Timeline) /\ In(DealObjectionCard)
  BY PartWithin DEF NewTaskDialog, MarkLostDialog, EnrollmentForm, Timeline, DealObjectionCard,
                    DetailReads, DetailStarts, LogStarts
<1>4. In(StageGuide) /\ In(ClosingChecklist)
  BY ShowWithin DEF StageGuide, ClosingChecklist, DetailReads
<1>5. In(DealFieldsCard(a))
      /\ In(Part({"deal", "settings", "units", "pipelines"} \cup IfAdmin(a, {"users"}),
                 {"move"} \cup IfAdmin(a, {"reopen"})))
  BY PartWithin DEF DealFieldsCard, IfAdmin, DetailReads, DetailStarts
<1>6. In(MarkWonDialog) /\ In(WhatsAppButton) /\ In(DealTasks)
  BY <1>1, <1>3, JoinWithin DEF MarkWonDialog, WhatsAppButton, DealTasks
<1>7. In(DealDetailPage(a))
  BY <1>1, <1>2, <1>3, <1>4, <1>5, <1>6, JoinWithin DEF DealDetailPage
<1>8. In(AppLayout(DealDetailPage(a)))
  BY <1>7, LayoutWithin DEF DetailReads
<1> QED
  BY <1>8 DEF Pages

LEMMA DayPages ==
    ASSUME NEW a \in BOOLEAN
    PROVE  /\ Within(Pages(a).queue, QueueReads, LogStarts)
           /\ Within(Pages(a).rescue, {"myDay", "users", "recoverable"}, {"reopenInCycle"})
<1> DEFINE In(p) == Within(p, QueueReads, LogStarts)
<1>1. In(NextContactPrompt) /\ In(ObjectionDialog)
      /\ In(Part({"settings"}, {"quickLog", "visit"}))
      /\ In(Part({"settings", "templates"}, {"firstContact"}))
  BY PartWithin DEF NextContactPrompt, ObjectionDialog, QueueReads, LogStarts
<1>2. In(Show({})) /\ In(MyDayPage(a))
  BY ShowWithin DEF MyDayPage, IfAdmin, QueueReads
<1>3. In(QuickLogActions) /\ In(WhatsAppButton)
  BY <1>1, JoinWithin DEF QuickLogActions, WhatsAppButton
<1>4. In(DealRow)
  BY <1>2, <1>3, JoinWithin DEF DealRow
<1>5. In(MyDayQueue(a))
  BY <1>2, <1>4, JoinWithin DEF MyDayQueue
<1>6. In(AppLayout(MyDayQueue(a)))
  BY <1>5, LayoutWithin DEF QueueReads
<1>7. /\ Within(MyDayPage(a), {"myDay", "users", "recoverable"}, {"reopenInCycle"})
      /\ Within(RescueList, {"myDay", "users", "recoverable"}, {"reopenInCycle"})
  BY ShowWithin, PartWithin DEF MyDayPage, RescueList, IfAdmin
<1>8. Within(MyDayRescue(a), {"myDay", "users", "recoverable"}, {"reopenInCycle"})
  BY <1>7, JoinWithin DEF MyDayRescue
<1>9. Within(AppLayout(MyDayRescue(a)), {"myDay", "users", "recoverable"}, {"reopenInCycle"})
  BY <1>8, LayoutWithin
<1> QED
  BY <1>6, <1>9 DEF Pages

\* What each settings tab and the page of reports show and start.
Tabs == [usersTab |-> Part({"users", "units", "recoverable"}, {"saveUser", "resetPassword"}),
         unitsTab |-> Part({"units", "recoverable"}, {"saveUnit"}),
         stagesTab |-> Part({"pipelines", "dealFields", "recoverable"}, {"saveStage"}),
         messagesTab |-> Part({"templates", "recoverable"}, {"saveTemplate"}),
         cyclesTab |-> Part({"cycles", "openCount", "recoverable"},
                            {"saveCycle", "activateCycle", "rollover"}),
         spendTab |-> Part({"spend", "units", "recoverable"}, {"saveSpend"}),
         goalsTab |-> Part({"cycles", "goals", "users", "units", "recoverable"}, {"saveGoal"}),
         objectionsTab |-> Part({"objections", "templates", "recoverable"}, {"saveObjection"}),
         reasonsTab |-> Part({"reasons", "recoverable"}, {"saveReason"}),
         sourcesTab |-> Part({"sources", "units", "recoverable"}, {"saveSource"}),
         generalTab |-> Part({"settings", "recoverable"}, {"saveSettings"})]

WithinPart(p, q) == Within(p, q.reads, q.starts)

LEMMA SettingsTabs ==
    \A s \in DOMAIN SettingsPage : s \in DOMAIN Tabs /\ WithinPart(SettingsPage[s], Tabs[s])
<1>1. /\ WithinPart(UsersTab, Tabs.usersTab) /\ WithinPart(UnitsTab, Tabs.unitsTab)
      /\ WithinPart(StagesTab, Tabs.stagesTab) /\ WithinPart(MessagesTab, Tabs.messagesTab)
  <2> DEFINE u == Tabs.usersTab
             t == Tabs.stagesTab
  <2>1. Within(CreateUserDialog, u.reads, u.starts)
        /\ Within(ResetPasswordDialog, u.reads, u.starts)
        /\ Within(Part({"users", "units"}, {"saveUser"}), u.reads, u.starts)
    BY PartWithin DEF Tabs, Part, CreateUserDialog, ResetPasswordDialog
  <2>2. Within(Part({"units"}, {"saveUnit"}), Tabs.unitsTab.reads, Tabs.unitsTab.starts)
        /\ Within(UnitRow, Tabs.unitsTab.reads, Tabs.unitsTab.starts)
    BY PartWithin DEF Tabs, Part, UnitRow
  <2>3. Within(Part({}, {"saveStage"}), t.reads, t.starts)
        /\ Within(StageConfigDialog, t.reads, t.starts)
        /\ Within(Part({"pipelines"}, {"saveStage"}), t.reads, t.starts)
    BY PartWithin DEF Tabs, Part, StageConfigDialog
  <2>4. Within(Part({"templates"}, {"saveTemplate"}), Tabs.messagesTab.reads,
               Tabs.messagesTab.starts)
        /\ Within(TemplateCard, Tabs.messagesTab.reads, Tabs.messagesTab.starts)
    BY PartWithin DEF Tabs, Part, TemplateCard
  <2> HIDE DEF u, t
  <2>5. Within(StageRow, t.reads, t.starts)
    BY <2>3, JoinWithin DEF StageRow
  <2>6. Within(UsersTab, u.reads, u.starts) /\ Within(StagesTab, t.reads, t.starts)
    BY <2>1, <2>3, <2>5, JoinWithin DEF UsersTab, StagesTab
  <2>7. WithinPart(UnitsTab, Tabs.unitsTab) /\ WithinPart(MessagesTab, Tabs.messagesTab)
    BY <2>2, <2>4, JoinWithin DEF UnitsTab, MessagesTab, WithinPart
  <2> QED
    BY <2>6, <2>7 DEF u, t, WithinPart
<1>2. /\ WithinPart(CyclesTab, Tabs.cyclesTab) /\ WithinPart(SpendTab, Tabs.spendTab)
      /\ WithinPart(GoalsTab, Tabs.goalsTab) /\ WithinPart(ObjectionsTab, Tabs.objectionsTab)
  <2> DEFINE c == Tabs.cyclesTab
             g == Tabs.goalsTab
             a == Tabs.spendTab
             o == Tabs.objectionsTab
  <2>1. Within(Part({}, {"saveCycle"}), c.reads, c.starts)
        /\ Within(ActivateCycleDialog, c.reads, c.starts)
        /\ Within(RolloverDialog, c.reads, c.starts)
        /\ Within(Part({"cycles"}, {"saveCycle"}), c.reads, c.starts)
    BY PartWithin DEF Tabs, Part, ActivateCycleDialog, RolloverDialog
  <2>2. Within(Part({"cycles", "goals", "users", "units"}, {"saveGoal"}), g.reads, g.starts)
        /\ Within(TargetCell, g.reads, g.starts)
    BY PartWithin DEF Tabs, Part, TargetCell
  <2>3. Within(Part({"spend", "units"}, {"saveSpend"}), a.reads, a.starts)
        /\ Within(AmountCell, a.reads, a.starts)
    BY PartWithin DEF Tabs, Part, AmountCell
  <2>4. Within(Part({"objections", "templates"}, {"saveObjection"}), o.reads, o.starts)
        /\ Within(ObjectionCard, o.reads, o.starts)
    BY PartWithin DEF Tabs, Part, ObjectionCard
  <2> HIDE DEF c, g, a, o
  <2>5. Within(CycleRow, c.reads, c.starts)
    BY <2>1, JoinWithin DEF CycleRow
  <2>6. Within(CyclesTab, c.reads, c.starts) /\ Within(GoalsTab, g.reads, g.starts)
        /\ Within(SpendTab, a.reads, a.starts) /\ Within(ObjectionsTab, o.reads, o.starts)
    BY <2>1, <2>2, <2>3, <2>4, <2>5, JoinWithin DEF CyclesTab, GoalsTab, SpendTab, ObjectionsTab
  <2> QED
    BY <2>6 DEF c, g, a, o, WithinPart
<1>3. /\ WithinPart(LostReasonsTab, Tabs.reasonsTab)
      /\ WithinPart(LeadSourcesTab, Tabs.sourcesTab)
      /\ WithinPart(GeneralTab, Tabs.generalTab)
  <2> DEFINE r == Tabs.reasonsTab
  <2>1. Within(Part({"reasons"}, {"saveReason"}), r.reads, r.starts)
        /\ Within(LostReasonRow, r.reads, r.starts)
    BY PartWithin DEF Tabs, Part, LostReasonRow
  <2>2. WithinPart(LeadSourcesTab, Tabs.sourcesTab) /\ WithinPart(GeneralTab, Tabs.generalTab)
    BY PartWithin DEF Tabs, Part, LeadSourcesTab, GeneralTab, WithinPart
  <2> HIDE DEF r
  <2>3. Within(LostReasonsTab, r.reads, r.starts)
    BY <2>1, JoinWithin DEF LostReasonsTab
  <2> QED
    BY <2>2, <2>3 DEF r, WithinPart
<1>4. \A s \in DOMAIN Tabs : "recoverable" \in Tabs[s].reads
  BY DEF Tabs, Part
<1>5. \A p : \A s \in DOMAIN Tabs : WithinPart(p, Tabs[s]) => WithinPart(AppLayout(p), Tabs[s])
  BY <1>4, LayoutWithin DEF WithinPart
<1>6. DOMAIN Tabs = {"usersTab", "unitsTab", "stagesTab", "messagesTab", "cyclesTab", "spendTab",
                     "goalsTab", "objectionsTab", "reasonsTab", "sourcesTab", "generalTab"}
  BY DEF Tabs
<1> HIDE DEF Tabs, WithinPart
<1> QED
  BY <1>1, <1>2, <1>3, <1>5, <1>6 DEF SettingsPage

PageFits(p) == p.starts \subseteq Ops /\ \A op \in p.starts, q \in p.reads : Clean(op, q)

LEMMA FitsWithin ==
    ASSUME NEW p, NEW reads, NEW starts, Within(p, reads, starts),
           starts \subseteq Ops, \A op \in starts, q \in reads : Clean(op, q)
    PROVE  PageFits(p)
BY DEF Within, PageFits

LEMMA LogClean ==
    \A op \in LogStarts, q \in BoardReads \cup DetailReads \cup QueueReads : Clean(op, q)
<1>1. \A op \in {"quickLog", "visit", "firstContact"},
         q \in BoardReads \cup DetailReads \cup QueueReads : Clean(op, q)
  BY LogTells, DealShows, CatalogShows, CycleShows
  DEF Clean, Tells, Logged, invalidateDeal, BoardReads, DetailReads, QueueReads
<1>2. \A op \in {"setNext", "setNextFor"},
         q \in BoardReads \cup DetailReads \cup QueueReads : Clean(op, q)
  BY LogTells, DealShows, CatalogShows, CycleShows
  DEF Clean, Tells, BoardReads, DetailReads, QueueReads
<1>3. \A q \in BoardReads \cup DetailReads \cup QueueReads : Clean("objection", q)
  <2>1. <<"objection", "recoverable">> \in Gaps
    BY DEF Gaps
  <2> QED
    BY <2>1, SeveralTell, DealShows, CatalogShows, CycleShows
    DEF Clean, Tells, Logged, BoardReads, DetailReads, QueueReads
<1> QED
  BY <1>1, <1>2, <1>3 DEF LogStarts

LEMMA BoardFits ==
    ASSUME NEW a \in BOOLEAN
    PROVE  PageFits(Pages(a).board)
<1>1. \A op \in LogStarts, q \in BoardReads : Clean(op, q)
  BY LogClean
<1>2. \A q \in BoardReads : Clean("claim", q) /\ Clean("setNextFor", q)
  BY DealTells, LogTells, DealShows, CatalogShows, CycleShows
  DEF Clean, Tells, Logged, invalidateDeal, BoardReads
<1>3. \A q \in BoardReads : Clean("move", q) /\ Clean("createDeal", q)
  BY DealTells, SeveralTell, DealShows, CatalogShows, CycleShows
  DEF Clean, Tells, Logged, BoardReads
<1>4. \A q \in BoardReads : Clean("missing", q)
  <2>1. <<"missing", "recoverable">> \in Gaps /\ <<"missing", "myGoalProgress">> \in Gaps
    BY DEF Gaps
  <2> QED
    BY <2>1, SeveralTell, DealShows, CatalogShows, CycleShows DEF Clean, Tells, Logged, BoardReads
<1>5. BoardStarts \subseteq Ops
  BY DEF BoardStarts, LogStarts, Ops, Hooks
<1>6. \A op \in BoardStarts, q \in BoardReads : Clean(op, q)
  BY <1>1, <1>2, <1>3, <1>4 DEF BoardStarts
<1> QED
  BY <1>5, <1>6, BoardPage, FitsWithin

LEMMA DetailFits ==
    ASSUME NEW a \in BOOLEAN
    PROVE  PageFits(Pages(a).detail)
<1>1. \A op \in LogStarts, q \in DetailReads : Clean(op, q)
  BY LogClean
<1>2. /\ \A op \in {"markWon", "markLost", "reopen", "enroll", "updateDeal", "reassignDeal",
                    "missing"} : <<op, "recoverable">> \in Gaps
      /\ {<<"move", "activities">>, <<"reassignDeal", "activities">>,
          <<"createTask", "deal">>, <<"toggleTask", "deal">>, <<"reassignDeal", "dealTasks">>}
            \subseteq Gaps
  BY DEF Gaps
<1>3. \A op \in {"markWon", "markLost", "reopen"}, q \in DetailReads : Clean(op, q)
  BY <1>2, DealTells, DealShows, CatalogShows, CycleShows
  DEF Clean, Tells, Logged, invalidateDeal, DetailReads
<1>4. \A op \in {"enroll", "updateDeal", "reassignDeal", "setObjection"}, q \in DetailReads :
         Clean(op, q)
  BY <1>2, DealTells, DealShows, CatalogShows, CycleShows DEF Clean, Tells, Logged, DetailReads
<1>5. \A op \in {"addNote", "createTask", "toggleTask"}, q \in DetailReads : Clean(op, q)
  BY <1>2, TaskTells, DealShows, CatalogShows, CycleShows DEF Clean, Tells, Logged, DetailReads
<1>6. \A q \in DetailReads : Clean("move", q) /\ Clean("missing", q)
  BY <1>2, DealTells, SeveralTell, DealShows, CatalogShows, CycleShows
  DEF Clean, Tells, Logged, DetailReads
<1>7. DetailStarts \subseteq Ops
  BY DEF DetailStarts, LogStarts, Ops, Hooks
<1>8. \A op \in DetailStarts, q \in DetailReads : Clean(op, q)
  BY <1>1, <1>3, <1>4, <1>5, <1>6 DEF DetailStarts
<1> QED
  BY <1>7, <1>8, DetailPage, FitsWithin

LEMMA DayFits ==
    ASSUME NEW a \in BOOLEAN
    PROVE  PageFits(Pages(a).queue) /\ PageFits(Pages(a).rescue)
<1>1. \A op \in LogStarts, q \in QueueReads : Clean(op, q)
  BY LogClean
<1>2. \A op \in {"reopenInCycle"}, q \in {"myDay", "users", "recoverable"} : Clean(op, q)
  BY DealTells, CatalogShows, CycleShows DEF Clean, Tells, Logged
<1>3. LogStarts \subseteq Ops /\ {"reopenInCycle"} \subseteq Ops
  BY DEF LogStarts, Ops, Hooks
<1> QED
  BY <1>1, <1>2, <1>3, DayPages, FitsWithin

LEMMA ListsFit ==
    ASSUME NEW a \in BOOLEAN
    PROVE  PageFits(Pages(a).tasks) /\ PageFits(Pages(a).contacts)
<1>1. Within(Show({"myTasks"}), {"myTasks", "recoverable"}, {"toggleTask"})
      /\ Within(TaskRow, {"myTasks", "recoverable"}, {"toggleTask"})
  BY ShowWithin, PartWithin DEF TaskRow
<1>2. Within(TasksPage, {"myTasks", "recoverable"}, {"toggleTask"})
  BY <1>1, JoinWithin DEF TasksPage
<1>3. Within(AppLayout(TasksPage), {"myTasks", "recoverable"}, {"toggleTask"})
  BY <1>2, LayoutWithin
<1>4. Within(Show({"contacts"}), {"contacts", "recoverable"}, {"createContact", "updateContact"})
      /\ Within(ContactDialog, {"contacts", "recoverable"}, {"createContact", "updateContact"})
  BY ShowWithin, PartWithin DEF ContactDialog
<1>5. Within(ContactsPage, {"contacts", "recoverable"}, {"createContact", "updateContact"})
  BY <1>4, JoinWithin DEF ContactsPage
<1>6. Within(AppLayout(ContactsPage), {"contacts", "recoverable"},
             {"createContact", "updateContact"})
  BY <1>5, LayoutWithin
<1>7. \A op \in {"toggleTask"}, q \in {"myTasks", "recoverable"} : Clean(op, q)
  BY TaskTells, DealShows, CycleShows DEF Clean, Tells, Logged
<1>8. <<"updateContact", "recoverable">> \in Gaps
  BY DEF Gaps
<1>9. \A op \in {"createContact", "updateContact"}, q \in {"contacts", "recoverable"} :
         Clean(op, q)
  BY <1>8, TaskTells, DealShows, CycleShows DEF Clean, Tells
<1>10. {"toggleTask"} \subseteq Ops /\ {"createContact", "updateContact"} \subseteq Ops
  BY DEF Ops, Hooks
<1>11. PageFits(AppLayout(TasksPage)) /\ PageFits(AppLayout(ContactsPage))
  BY <1>3, <1>6, <1>7, <1>9, <1>10, FitsWithin
<1> QED
  BY <1>11 DEF Pages

LEMMA ReportsFit == PageFits(AppLayout(ReportsPage))
<1> DEFINE reads == {"recoverable", "units", "users", "cycles", "activeCycle", "summary",
                     "funnel", "lostReport", "responseReport", "salesReport", "cooling", "cac",
                     "goalProgress", "conversations"}
<1>1. /\ Within(Show({"units", "users", "cycles", "activeCycle", "summary"}), reads, {})
      /\ Within(FunnelSection, reads, {}) /\ Within(LostReasonsSection, reads, {})
      /\ Within(ResponseTimeSection, reads, {}) /\ Within(SalesSection, reads, {})
      /\ Within(CoolingSection, reads, {}) /\ Within(CacSection, reads, {})
      /\ Within(GoalsSection, reads, {}) /\ Within(ConversationsSection, reads, {})
  BY ShowWithin DEF FunnelSection, LostReasonsSection, ResponseTimeSection, SalesSection,
                    CoolingSection, CacSection, GoalsSection, ConversationsSection
<1> HIDE DEF reads
<1>2. Within(ReportsPage, reads, {})
  BY <1>1, JoinWithin DEF ReportsPage
<1>3. Within(AppLayout(ReportsPage), reads, {})
  BY <1>2, LayoutWithin DEF reads
<1> QED
  BY <1>3, FitsWithin

LEMMA SettingsFit == \A s \in DOMAIN SettingsPage : PageFits(SettingsPage[s])
<1>1. {<<"saveUser", "recoverable">>, <<"saveReason", "recoverable">>,
       <<"rollover", "openCount">>} \subseteq Gaps
  BY DEF Gaps
<1> DEFINE Fit(t) == t.starts \subseteq Ops /\ \A op \in t.starts, q \in t.reads : Clean(op, q)
<1>2. Fit(Tabs.usersTab) /\ Fit(Tabs.unitsTab) /\ Fit(Tabs.stagesTab) /\ Fit(Tabs.messagesTab)
  <2>1. /\ {"saveUser", "resetPassword", "saveUnit", "saveStage", "saveTemplate"} \subseteq Ops
    BY DEF Ops, Hooks
  <2>2. Fit(Tabs.usersTab) /\ Fit(Tabs.unitsTab)
    BY <1>1, <2>1, SettingsTell, CatalogShows, CycleShows DEF Clean, Tells, Tabs, Part
  <2>3. Fit(Tabs.stagesTab) /\ Fit(Tabs.messagesTab)
    BY <2>1, SettingsTell, CatalogShows, CycleShows DEF Clean, Tells, Tabs, Part
  <2> QED
    BY <2>2, <2>3
<1>3. Fit(Tabs.cyclesTab) /\ Fit(Tabs.spendTab) /\ Fit(Tabs.goalsTab) /\ Fit(Tabs.objectionsTab)
  <2>1. {"saveCycle", "activateCycle", "rollover", "saveSpend", "saveGoal", "saveObjection"}
           \subseteq Ops
    BY DEF Ops, Hooks
  <2>2. Fit(Tabs.cyclesTab)
    BY <1>1, <2>1, CycleTells, CatalogShows, CycleShows
    DEF Clean, Tells, Tabs, Part, Logged, useInvalidateCycles
  <2>3. Fit(Tabs.spendTab) /\ Fit(Tabs.goalsTab) /\ Fit(Tabs.objectionsTab)
    BY <2>1, CycleTells, CatalogShows, CycleShows
    DEF Clean, Tells, Tabs, Part, useInvalidateGoals, useInvalidateSpend, useInvalidateObjections
  <2> QED
    BY <2>2, <2>3
<1>4. Fit(Tabs.reasonsTab) /\ Fit(Tabs.sourcesTab) /\ Fit(Tabs.generalTab)
  <2>1. {"saveReason", "saveSource", "saveSettings"} \subseteq Ops
    BY DEF Ops, Hooks
  <2> QED
    BY <1>1, <2>1, SettingsTell, CatalogShows, CycleShows DEF Clean, Tells, Tabs, Part
<1>5. DOMAIN Tabs = {"usersTab", "unitsTab", "stagesTab", "messagesTab", "cyclesTab", "spendTab",
                     "goalsTab", "objectionsTab", "reasonsTab", "sourcesTab", "generalTab"}
  BY DEF Tabs
<1> HIDE DEF Fit
<1>6. \A s \in DOMAIN Tabs : Fit(Tabs[s])
  BY <1>2, <1>3, <1>4, <1>5
<1> QED
  BY <1>6, SettingsTabs, FitsWithin DEF Fit, WithinPart

\* Every page starts known mutations, and what it shows is told of them, but for
\* the listed gaps.
LEMMA EveryScreen ==
    ASSUME NEW a \in BOOLEAN, NEW s \in Screens(a)
    PROVE  s.starts \subseteq Ops /\ \A op \in s.starts, q \in s.reads : Clean(op, q)
<1>1. \A b \in BOOLEAN : \A p \in DOMAIN Pages(b) : PageFits(Pages(b)[p])
  <2> SUFFICES ASSUME NEW b \in BOOLEAN
               PROVE  \A p \in DOMAIN Pages(b) : PageFits(Pages(b)[p])
    OBVIOUS
  <2>1. DOMAIN Pages(b) = {"board", "detail", "queue", "rescue", "tasks", "contacts"}
    BY DEF Pages
  <2> QED
    BY <2>1, BoardFits, DetailFits, DayFits, ListsFit
<1> DEFINE reports == [reports |-> AppLayout(ReportsPage)]
<1>2. \A p \in DOMAIN reports : PageFits(reports[p])
  BY ReportsFit
<1> HIDE DEF reports
<1>3. \A p \in DOMAIN PagesFor(a) : PageFits(PagesFor(a)[p])
  <2>1. CASE a = TRUE
    <3>1. PagesFor(a) = Pages(TRUE) ++ reports ++ SettingsPage
      BY <2>1 DEF PagesFor, reports
    <3> QED
      BY <3>1, <1>1, <1>2, SettingsFit DEF ++
  <2>2. CASE a = FALSE
    <3>1. PagesFor(a) = Pages(FALSE)
      BY <2>2 DEF PagesFor
    <3> QED
      BY <3>1, <1>1
  <2> QED
    BY <2>1, <2>2
<1>4. PICK p \in DOMAIN PagesFor(a) :
         s = [name |-> p, reads |-> PagesFor(a)[p].reads, starts |-> PagesFor(a)[p].starts]
  BY DEF Screens
<1>5. s.reads = PagesFor(a)[p].reads /\ s.starts = PagesFor(a)[p].starts
  BY <1>4
<1> QED
  BY <1>3, <1>5 DEF PageFits

-----------------------------------------------------------------------------
(* The inductive invariant *)

Who == Ops \cup {"other"}

Call == {c \in [op : Ops, hook : {Hooks[o] : o \in Ops}, next : Nat, served : BOOLEAN,
                after : Seq(Who), heard : BOOLEAN] :
            c.hook = Hooks[c.op] /\ c.next \in 1..Len(c.hook.calls)}
Entry == {c \in [lacks : SUBSET Who, invalid : BOOLEAN, failed : BOOLEAN, fetching : BOOLEAN,
                 missed : Seq(Who)] :
             (c.fetching => ~c.failed) /\ (~c.fetching => c.missed = <<>>)}
Drafts == {NoDraft} \cup {[editor |-> e, in |-> Editors[e], lacks |-> l] :
                              e \in DOMAIN Editors, l \in SUBSET Who}

SceneTypes == /\ query \in {[name |-> q, shows |-> Shows[q]] : q \in Watched}
              /\ admin \in Roles /\ screen \in Screens(admin)
DraftTypes == draft \in Drafts /\ (draft # NoDraft => draft.in.reads = query.name)
RestTypes == /\ prompt \in BOOLEAN /\ lapses \subseteq Who
             /\ reverts \subseteq DOMAIN Editors /\ navs \in Nat
Types == SceneTypes /\ calls \in Seq(Call) /\ cache \in Entry /\ DraftTypes /\ RestTypes

\* A failed fetch leaves the entry marked, unless a move cleared the mark of the board.
FailedMarked == cache.failed => cache.invalid \/ query.name = "kanban"

\* What will still bring a served call to the watched entry: its own answer, the end of
\* a move, a prompt, a fetch sent after it, the mark of an entry that is not mounted, or
\* the retry of a failed fetch.
Begun(c) == c.served \/ c.next > 1
Answers(w) == \E i \in DOMAIN calls : /\ calls[i].op = w /\ Begun(calls[i])
                                      /\ w \notin Range(calls[i].after)
Settles == query.name = "kanban" /\ \E i \in DOMAIN calls : calls[i].op = "move"
Prompted(w) == prompt /\ query.name = "myDay" /\ w \in {"quickLog", "objection"}
Underway(w) == cache.fetching /\ w \notin Range(cache.missed)
Marked == cache.invalid /\ ~Mounted /\ ~cache.fetching
Covered(w) == Answers(w) \/ Settles \/ Prompted(w) \/ Underway(w) \/ Marked \/ cache.failed
AllCovered == \A w \in Ops : w \in cache.lacks /\ w \notin lapses /\ query.name \in Told(w)
                                 => Covered(w)

\* A draft that follows its row lacks nothing the row has.
RowDraft == draft.in.copies = "row" => draft.lacks \subseteq cache.lacks

\* Before the first change of page every mutation was started on this one.
Locals == {w \in screen.starts : Touches(Hooks[w].writes)} \cup {"other"}
HomeOnly ==
    navs = 0 =>
        /\ cache.lacks \subseteq Locals /\ Range(cache.missed) \subseteq Locals
        /\ \A i \in DOMAIN calls :
              calls[i].op \in screen.starts /\ Range(calls[i].after) \subseteq Locals

Inv == Types /\ FailedMarked /\ AllCovered /\ RowDraft /\ HomeOnly /\ RevertsOnlyKnown

-----------------------------------------------------------------------------
(* Sequences *)

LEMMA Elements ==
    ASSUME NEW S, NEW s \in Seq(S)
    PROVE  /\ Len(s) \in Nat /\ DOMAIN s = 1..Len(s)
           /\ \A i \in DOMAIN s : s[i] \in S
           /\ Range(s) \subseteq S
BY LenProperties, ElementOfSeq DEF Range

LEMMA EmptyRange == Range(<<>>) = {}
BY DEF Range

LEMMA Appended ==
    ASSUME NEW S, NEW s \in Seq(S), NEW e \in S
    PROVE  /\ Append(s, e) \in Seq(S) /\ Range(Append(s, e)) = Range(s) \cup {e}
           /\ DOMAIN Append(s, e) = 1..Len(s) + 1 /\ Len(s) \in Nat
           /\ \A i \in DOMAIN s : i \in DOMAIN Append(s, e) /\ Append(s, e)[i] = s[i]
           /\ Append(s, e)[Len(s) + 1] = e
<1>1. /\ Len(s) \in Nat /\ DOMAIN s = 1..Len(s)
      /\ Append(s, e) \in Seq(S) /\ DOMAIN Append(s, e) = 1..Len(s) + 1
      /\ \A i \in 1..Len(s) : Append(s, e)[i] = s[i]
      /\ Append(s, e)[Len(s) + 1] = e
  BY AppendProperties, LenProperties
<1>2. \A i \in 1..Len(s) + 1 : i \in 1..Len(s) \/ i = Len(s) + 1
  BY <1>1
<1>3. Range(Append(s, e)) = Range(s) \cup {e}
  <2>1. ASSUME NEW x \in Range(Append(s, e)) PROVE x \in Range(s) \cup {e}
    BY <1>1, <1>2 DEF Range
  <2>2. ASSUME NEW x \in Range(s) PROVE x \in Range(Append(s, e))
    BY <1>1 DEF Range
  <2>3. e \in Range(Append(s, e))
    BY <1>1 DEF Range
  <2> QED
    BY <2>1, <2>2, <2>3
<1> QED
  BY <1>1, <1>3

LEMMA Shortened ==
    ASSUME NEW S, NEW s \in Seq(S), NEW n \in 0..Len(s)
    PROVE  Range(SubSeq(s, n + 1, Len(s))) \subseteq Range(s)
<1>1. Len(s) \in Nat /\ DOMAIN s = 1..Len(s) /\ n \in Nat /\ n <= Len(s)
  BY LenProperties
<1> DEFINE t == SubSeq(s, n + 1, Len(s))
<1>2. DOMAIN t = 1..Len(s) - n /\ \A i \in 1..Len(s) - n : t[i] = s[n + i]
  BY <1>1
<1>3. \A i \in 1..Len(s) - n : n + i \in 1..Len(s)
  BY <1>1
<1> HIDE DEF t
<1>4. Range(t) \subseteq Range(s)
  BY <1>1, <1>2, <1>3 DEF Range
<1> QED
  BY <1>4 DEF t

LEMMA Removed ==
    ASSUME NEW S, NEW s \in Seq(S), NEW i \in DOMAIN s
    PROVE  /\ RemoveAt(s, i) \in Seq(S)
           /\ Len(RemoveAt(s, i)) = Len(s) - 1
           /\ \A j \in 1..Len(s) - 1 : RemoveAt(s, i)[j] = IF j < i THEN s[j] ELSE s[j + 1]
<1> DEFINE a == SubSeq(s, 1, i - 1)
           b == SubSeq(s, i + 1, Len(s))
<1>1. /\ Len(s) \in Nat /\ DOMAIN s = 1..Len(s)
      /\ \A j \in 1..Len(s) : s[j] \in S
  BY LenProperties, ElementOfSeq
<1>2. /\ a \in Seq(S) /\ Len(a) = i - 1
      /\ \A j \in 1..i - 1 : a[j] = s[j]
  BY <1>1
<1>3. /\ b \in Seq(S) /\ Len(b) = Len(s) - i
      /\ \A j \in 1..Len(s) - i : b[j] = s[j + i]
  BY <1>1
<1>4. RemoveAt(s, i) = a \o b
  BY DEF RemoveAt
<1> HIDE DEF a, b
<1>5. /\ a \o b \in Seq(S) /\ Len(a \o b) = Len(a) + Len(b)
      /\ \A j \in 1..Len(a) + Len(b) :
            (a \o b)[j] = IF j <= Len(a) THEN a[j] ELSE b[j - Len(a)]
  BY <1>2, <1>3, ConcatProperties
<1>6. i \in 1..Len(s) /\ Len(a) + Len(b) = Len(s) - 1
  BY <1>1, <1>2, <1>3
<1>7. ASSUME NEW j \in 1..Len(s) - 1
      PROVE  (a \o b)[j] = IF j < i THEN s[j] ELSE s[j + 1]
  <2>1. (a \o b)[j] = IF j <= i - 1 THEN a[j] ELSE b[j - (i - 1)]
    BY <1>2, <1>5, <1>6
  <2>2. CASE j < i
    BY <1>1, <1>2, <1>6, <2>1, <2>2
  <2>3. CASE ~(j < i)
    <3>1. j - (i - 1) \in 1..Len(s) - i /\ (j - (i - 1)) + i = j + 1
      BY <1>1, <1>6, <2>3
    <3>2. b[j - (i - 1)] = s[j + 1]
      BY <1>3, <3>1
    <3> QED
      BY <1>1, <1>6, <2>1, <2>3, <3>2
  <2> QED
    BY <2>2, <2>3
<1> QED
  BY <1>4, <1>5, <1>6, <1>7

\* What remains was there, and all but the removed element remains.
LEMMA RemovedElements ==
    ASSUME NEW S, NEW s \in Seq(S), NEW i \in DOMAIN s
    PROVE  /\ RemoveAt(s, i) \in Seq(S)
           /\ \A j \in DOMAIN RemoveAt(s, i) : \E k \in DOMAIN s : RemoveAt(s, i)[j] = s[k]
           /\ \A k \in DOMAIN s : k # i =>
                 \E j \in DOMAIN RemoveAt(s, i) : RemoveAt(s, i)[j] = s[k]
<1>1. Len(s) \in Nat /\ DOMAIN s = 1..Len(s) /\ i \in 1..Len(s)
  BY LenProperties
<1>2. DOMAIN RemoveAt(s, i) = 1..Len(s) - 1
  BY Removed, LenProperties
<1>3. ASSUME NEW j \in 1..Len(s) - 1
      PROVE  \E k \in DOMAIN s : RemoveAt(s, i)[j] = s[k]
  <2>1. j \in DOMAIN s /\ j + 1 \in DOMAIN s
    BY <1>1
  <2> QED
    BY <2>1, Removed
<1>4. ASSUME NEW k \in DOMAIN s, k # i
      PROVE  \E j \in DOMAIN RemoveAt(s, i) : RemoveAt(s, i)[j] = s[k]
  <2>1. CASE k < i
    <3>1. k \in 1..Len(s) - 1
      BY <1>1, <2>1
    <3> QED
      BY <1>2, <2>1, <3>1, Removed
  <2>2. CASE ~(k < i)
    <3>1. k - 1 \in 1..Len(s) - 1 /\ ~(k - 1 < i) /\ (k - 1) + 1 = k
      BY <1>1, <1>4, <2>2
    <3> QED
      BY <1>2, <3>1, Removed
  <2> QED
    BY <2>1, <2>2
<1> QED
  BY <1>2, <1>3, <1>4, Removed

-----------------------------------------------------------------------------
(* Entries and drafts *)

LEMMA EntryChanges ==
    ASSUME NEW c \in Entry
    PROVE  /\ ~c.failed => /\ Fetching(c) \in Entry /\ Fetching(c).fetching = TRUE
                           /\ Fetching(c).missed = <<>> /\ Fetching(c).lacks = c.lacks
                           /\ Fetching(c).failed = c.failed /\ Fetching(c).invalid = c.invalid
           /\ Idle(c) \in Entry /\ Idle(c).missed = <<>> /\ Idle(c).lacks = c.lacks
           /\ Idle(c).failed = c.failed /\ Idle(c).invalid = c.invalid
           /\ Idle(c).fetching = FALSE
<1>1. <<>> \in Seq(Who)
  OBVIOUS
<1> QED
  BY <1>1 DEF Entry, Fetching, Idle

\* Invalidating a mounted entry fetches it anew; one that is not mounted is marked.
LEMMA InvalidatedEntry ==
    ASSUME NEW c \in Entry
    PROVE  /\ Invalidated(c) \in Entry /\ Invalidated(c).lacks = c.lacks
           /\ Invalidated(c).invalid = TRUE
           /\ Mounted => /\ Invalidated(c).fetching = TRUE /\ Invalidated(c).missed = <<>>
                         /\ Invalidated(c).failed = FALSE
           /\ ~Mounted => /\ Invalidated(c).fetching = c.fetching
                          /\ Invalidated(c).missed = c.missed
                          /\ Invalidated(c).failed = c.failed
<1> DEFINE d == [c EXCEPT !.invalid = TRUE, !.failed = FALSE]
<1>1. d \in Entry /\ d.lacks = c.lacks /\ d.invalid = TRUE /\ d.failed = FALSE
  BY DEF Entry
<1> HIDE DEF d
<1>2. /\ Fetching(d) \in Entry /\ Fetching(d).fetching = TRUE /\ Fetching(d).missed = <<>>
      /\ Fetching(d).lacks = d.lacks /\ Fetching(d).failed = FALSE /\ Fetching(d).invalid = TRUE
  BY <1>1, EntryChanges
<1>3. CASE Mounted
  <2>1. Invalidated(c) = Fetching(d)
    BY <1>3 DEF Invalidated, d
  <2> QED
    BY <1>1, <1>2, <1>3, <2>1
<1>4. CASE ~Mounted
  <2>1. Invalidated(c) = [c EXCEPT !.invalid = TRUE]
    BY <1>4 DEF Invalidated
  <2> QED
    BY <1>4, <2>1 DEF Entry
<1> QED
  BY <1>3, <1>4

LEMMA DraftFacts ==
    ASSUME Types
    PROVE  /\ \/ draft = NoDraft
              \/ (draft.editor \in DOMAIN Editors /\ draft.in = Editors[draft.editor])
           /\ draft.lacks \subseteq Who /\ draft.in.facts \subseteq query.shows
           /\ \A l \in SUBSET Who :
                 draft # NoDraft =>
                    /\ [draft EXCEPT !.lacks = l] \in Drafts
                    /\ [draft EXCEPT !.lacks = l] # NoDraft
                    /\ [draft EXCEPT !.lacks = l].in = draft.in
                    /\ [draft EXCEPT !.lacks = l].lacks = l
           /\ NoDraft.in = [where |-> "none", reads |-> "none", facts |-> {}, op |-> "none",
                            copies |-> "none"]
           /\ NoDraft.lacks = {}
<1>1. NoDraft.in = [where |-> "none", reads |-> "none", facts |-> {}, op |-> "none",
                    copies |-> "none"] /\ NoDraft.lacks = {} /\ NoDraft.editor = "none"
  BY DEF NoDraft, Editor
<1>2. query.shows = Shows[query.name]
  BY DEF Types, SceneTypes
<1>3. "none" \notin DOMAIN Editors
  BY DEF Editors, DealEditors, ContactEditors, SettingsEditors, CatalogEditors, ++
<1>4. CASE draft = NoDraft
  BY <1>1, <1>4
<1>5. CASE draft # NoDraft
  <2>1. PICK e \in DOMAIN Editors, l \in SUBSET Who :
           draft = [editor |-> e, in |-> Editors[e], lacks |-> l]
    BY <1>5 DEF Types, DraftTypes, Drafts
  <2>2. draft.editor = e /\ draft.in = Editors[e] /\ draft.lacks = l
    BY <2>1
  <2>3. draft.in.facts \subseteq query.shows
    BY <1>2, <1>5, <2>2, EveryEditor DEF Types, DraftTypes
  <2>4. \A k \in SUBSET Who :
           /\ [draft EXCEPT !.lacks = k] = [editor |-> e, in |-> Editors[e], lacks |-> k]
           /\ [draft EXCEPT !.lacks = k].editor = e
           /\ [draft EXCEPT !.lacks = k].in = draft.in
           /\ [draft EXCEPT !.lacks = k].lacks = k
    BY <2>1
  <2>5. \A k \in SUBSET Who : [draft EXCEPT !.lacks = k] \in Drafts
    BY <2>4 DEF Drafts
  <2>6. \A k \in SUBSET Who : [draft EXCEPT !.lacks = k] # NoDraft
    BY <1>1, <1>3, <2>4
  <2> QED
    BY <1>1, <2>2, <2>3, <2>4, <2>5, <2>6
<1> QED
  BY <1>4, <1>5

\* A draft is untouched, or reseeded with the new row.
LEMMA DraftReseeded ==
    ASSUME Types, RowDraft, NEW c \in Entry, draft' = Reseeded(draft, c), cache' = c,
           UNCHANGED query
    PROVE  DraftTypes' /\ RowDraft'
<1>1. c.lacks \in SUBSET Who
  BY DEF Entry
<1>2. CASE draft.in.copies = "row"
  <2>1. draft' = [draft EXCEPT !.lacks = c.lacks]
    BY <1>2 DEF Reseeded, Copied
  <2>2. draft # NoDraft
    BY <1>2, DraftFacts
  <2>3. draft' \in Drafts /\ draft' # NoDraft /\ draft'.in = draft.in /\ draft'.lacks = c.lacks
    BY <1>1, <2>1, <2>2, DraftFacts
  <2> QED
    BY <2>2, <2>3 DEF Types, DraftTypes, RowDraft
<1>3. CASE draft.in.copies # "row"
  BY <1>3 DEF Reseeded, Types, DraftTypes, RowDraft
<1> QED
  BY <1>2, <1>3

-----------------------------------------------------------------------------
(* Calls that stay *)

\* A call in flight that is still there after a step, at least as far, and behind no more.
Stays(j) == \E k \in DOMAIN calls' :
                /\ calls'[k].op = calls[j].op
                /\ Begun(calls[j]) => Begun(calls'[k])
                /\ Range(calls'[k].after) \subseteq Range(calls[j].after)

LEMMA StillAnswered ==
    ASSUME NEW w, NEW j \in DOMAIN calls, calls[j].op = w, Begun(calls[j]),
           w \notin Range(calls[j].after), Stays(j)
    PROVE  Answers(w)'
BY DEF Stays, Answers, Begun

LEMMA StillSettles ==
    ASSUME NEW j \in DOMAIN calls, calls[j].op = "move", Stays(j), query.name = "kanban",
           UNCHANGED query
    PROVE  Settles'
BY DEF Stays, Settles

\* When every call stays, what calls cover stays covered.
LEMMA AllStay ==
    ASSUME UNCHANGED query, \A j \in DOMAIN calls : Stays(j)
    PROVE  (\A w : Answers(w) => Answers(w)') /\ (Settles => Settles')
<1>1. ASSUME NEW w, Answers(w) PROVE Answers(w)'
  <2>1. PICK j \in DOMAIN calls :
           calls[j].op = w /\ Begun(calls[j]) /\ w \notin Range(calls[j].after)
    BY <1>1 DEF Answers
  <2> QED
    BY <2>1, StillAnswered
<1>2. ASSUME Settles PROVE Settles'
  <2>1. PICK j \in DOMAIN calls : calls[j].op = "move"
    BY <1>2 DEF Settles
  <2> QED
    BY <1>2, <2>1, StillSettles DEF Settles
<1> QED
  BY <1>1, <1>2

LEMMA UnchangedStay ==
    ASSUME UNCHANGED calls
    PROVE  \A j \in DOMAIN calls : Stays(j)
BY DEF Stays, Begun

LEMMA CallFacts ==
    ASSUME NEW c \in Call
    PROVE  /\ c.op \in Ops /\ c.hook = Hooks[c.op] /\ c.next \in 1..Len(c.hook.calls)
           /\ c.served \in BOOLEAN /\ c.after \in Seq(Who) /\ c.heard \in BOOLEAN
           /\ c.next \in Nat /\ c.hook.calls \in Seq(SUBSET Facts)
           /\ c.hook.calls[c.next] \subseteq c.hook.writes
           /\ c = [op |-> c.op, hook |-> c.hook, next |-> c.next, served |-> c.served,
                   after |-> c.after, heard |-> c.heard]
<1>1. /\ c.op \in Ops /\ c.hook = Hooks[c.op] /\ c.next \in 1..Len(c.hook.calls)
      /\ c.served \in BOOLEAN /\ c.after \in Seq(Who) /\ c.heard \in BOOLEAN /\ c.next \in Nat
      /\ c = [op |-> c.op, hook |-> c.hook, next |-> c.next, served |-> c.served,
              after |-> c.after, heard |-> c.heard]
  BY DEF Call
<1>2. HookOK(c.hook)
  BY <1>1, EveryHook
<1>3. /\ c.hook.calls \in Seq(SUBSET Facts)
      /\ \A i \in DOMAIN c.hook.calls : c.hook.calls[i] \subseteq c.hook.writes
  BY <1>2 DEF HookOK
<1>4. c.next \in DOMAIN c.hook.calls
  BY <1>1, <1>3, LenProperties
<1> QED
  BY <1>1, <1>3, <1>4

LEMMA CallsIn ==
    ASSUME Types
    PROVE  /\ calls \in Seq(Call) /\ Len(calls) \in Nat /\ DOMAIN calls = 1..Len(calls)
           /\ \A i \in DOMAIN calls : calls[i] \in Call
BY Elements DEF Types

\* A mutation that is over leaves the others in flight.
LEMMA OthersStay ==
    ASSUME Types, NEW i \in DOMAIN calls, calls' = Done(i)
    PROVE  /\ calls' \in Seq(Call)
           /\ \A j \in DOMAIN calls' : \E k \in DOMAIN calls : calls'[j] = calls[k]
           /\ \A j \in DOMAIN calls : j # i => Stays(j)
<1>1. /\ calls' \in Seq(Call)
      /\ \A j \in DOMAIN calls' : \E k \in DOMAIN calls : calls'[j] = calls[k]
      /\ \A k \in DOMAIN calls : k # i => \E j \in DOMAIN calls' : calls'[j] = calls[k]
  BY CallsIn, RemovedElements DEF Done
<1>2. \A j \in DOMAIN calls : j # i => Stays(j)
  BY <1>1 DEF Stays, Begun
<1> QED
  BY <1>1, <1>2

-----------------------------------------------------------------------------
(* What several actions have in common *)

SceneStays == UNCHANGED <<query, admin, screen>>

LEMMA AfterInvalidate ==
    ASSUME Types, FailedMarked, SceneStays, cache' = Invalidated(cache),
           lapses \cup Erased(cache) \subseteq lapses'
    PROVE  /\ cache' \in Entry /\ FailedMarked' /\ AllCovered'
           /\ cache'.lacks = cache.lacks /\ Range(cache'.missed) \subseteq Range(cache.missed)
           /\ Erased(cache) \subseteq Who
<1>1. cache \in Entry /\ (Mounted' <=> Mounted)
  BY DEF Types, SceneStays, Mounted, MountedOn
<1>2. Range(cache.missed) \subseteq Who
  <2>1. cache.missed \in Seq(Who)
    BY <1>1 DEF Entry
  <2> QED
    BY <2>1, Elements
<1>3. /\ cache' \in Entry /\ cache'.lacks = cache.lacks /\ cache'.invalid = TRUE
      /\ Mounted => cache'.fetching = TRUE /\ cache'.missed = <<>>
      /\ ~Mounted => cache'.fetching = cache.fetching /\ cache'.missed = cache.missed
  BY <1>1, InvalidatedEntry
<1>4. FailedMarked'
  BY <1>3 DEF FailedMarked
<1>5. ASSUME NEW w \in Ops, w \notin lapses' PROVE Underway(w)' \/ Marked'
  <2>1. CASE Mounted
    BY <1>3, <2>1, EmptyRange DEF Underway
  <2>2. CASE ~Mounted /\ cache.fetching
    BY <1>3, <1>5, <2>2 DEF Underway, Erased
  <2>3. CASE ~Mounted /\ ~cache.fetching
    BY <1>1, <1>3, <2>3 DEF Marked
  <2> QED
    BY <2>1, <2>2, <2>3
<1>6. AllCovered'
  BY <1>5 DEF AllCovered, Covered
<1>7. Range(cache'.missed) \subseteq Range(cache.missed)
  BY <1>3, EmptyRange
<1> QED
  BY <1>2, <1>3, <1>4, <1>6, <1>7 DEF Erased

LEMMA HomeKept ==
    ASSUME HomeOnly, SceneStays, UNCHANGED navs,
           navs = 0 => cache'.lacks \subseteq Locals /\ Range(cache'.missed) \subseteq Locals,
           \A j \in DOMAIN calls' : \E k \in DOMAIN calls :
               /\ calls'[j].op = calls[k].op
               /\ Range(calls'[j].after) \subseteq Range(calls[k].after)
    PROVE  HomeOnly'
<1>1. Locals' = Locals /\ screen' = screen
  BY DEF Locals, SceneStays, Touches
<1>2. ASSUME navs = 0, NEW j \in DOMAIN calls'
      PROVE  calls'[j].op \in screen.starts /\ Range(calls'[j].after) \subseteq Locals
  BY <1>2 DEF HomeOnly
<1> QED
  BY <1>1, <1>2 DEF HomeOnly

\* When the entry, what is known lost and the prompt are as they were, and every call stays.
LEMMA CoveredKept ==
    ASSUME AllCovered, SceneStays, UNCHANGED <<cache, lapses, prompt>>,
           \A j \in DOMAIN calls : Stays(j)
    PROVE  AllCovered'
<1>1. /\ \A w : Answers(w) => Answers(w)'
      /\ Settles => Settles'
  BY AllStay DEF SceneStays
<1>2. \A w : (Prompted(w)' <=> Prompted(w)) /\ (Underway(w)' <=> Underway(w))
  BY DEF SceneStays, Prompted, Underway
<1>3. (Marked' <=> Marked) /\ (cache'.failed <=> cache.failed)
  BY DEF SceneStays, Marked, Mounted, MountedOn
<1>4. \A w : Covered(w) => Covered(w)'
  BY <1>1, <1>2, <1>3 DEF Covered
<1> QED
  BY <1>4 DEF AllCovered, SceneStays

-----------------------------------------------------------------------------
(* Mutations are sent *)

LEMMA StartsOps == ASSUME Types PROVE screen.starts \subseteq Ops
<1>1. admin \in BOOLEAN /\ screen \in Screens(admin)
  BY ScopeAssumption DEF Types, SceneTypes
<1> QED
  BY <1>1, EveryScreen

LEMMA SendKeeps ==
    ASSUME Inv, SceneStays, UNCHANGED <<prompt, draft, lapses, navs>>,
           NEW op \in screen.starts, Send(op)
    PROVE  /\ calls' \in Seq(Call) /\ cache' \in Entry /\ FailedMarked' /\ AllCovered'
           /\ RowDraft' /\ HomeOnly'
<1>1. op \in Ops /\ calls \in Seq(Call) /\ cache \in Entry
  BY StartsOps DEF Inv, Types
<1> DEFINE new == [op |-> op, hook |-> Hooks[op], next |-> 1, served |-> FALSE,
                   after |-> <<>>, heard |-> TRUE]
<1>2. new \in Call
  <2>1. Hooks[op].calls \in Seq(SUBSET Facts) /\ Len(Hooks[op].calls) >= 1
    BY <1>1, EveryHook DEF HookOK
  <2>2. 1 \in 1..Len(Hooks[op].calls) /\ <<>> \in Seq(Who)
    BY <2>1, LenProperties
  <2> QED
    BY <1>1, <2>2 DEF Call
<1>3. calls' = Append(calls, new) /\ cache' = OnMutate(op)
  BY DEF Send
<1>4. new.op = op /\ Range(new.after) = {}
  BY EmptyRange
<1> HIDE DEF new
<1>5. /\ calls' \in Seq(Call) /\ DOMAIN calls' = 1..Len(calls) + 1 /\ Len(calls) \in Nat
      /\ DOMAIN calls = 1..Len(calls)
      /\ \A i \in DOMAIN calls : i \in DOMAIN calls' /\ calls'[i] = calls[i]
      /\ calls'[Len(calls) + 1] = new
  BY <1>1, <1>2, <1>3, Appended, Elements
<1>6. \A j \in DOMAIN calls : Stays(j)
  BY <1>5 DEF Stays, Begun
<1>7. cache' \in Entry /\ FailedMarked' /\ AllCovered' /\ cache'.lacks = cache.lacks
      /\ (Range(cache'.missed) \subseteq Range(cache.missed))
  <2>1. CASE op = "move" /\ query.name = "kanban"
    <3> DEFINE c == [cache EXCEPT !.invalid = FALSE]
    <3>1. c \in Entry /\ c.lacks = cache.lacks
      BY <1>1 DEF Entry
    <3> HIDE DEF c
    <3>2. cache' = Idle(c)
      BY <1>3, <2>1 DEF OnMutate, c
    <3>3. cache' \in Entry /\ cache'.lacks = cache.lacks /\ cache'.missed = <<>>
      BY <3>1, <3>2, EntryChanges
    <3>4. query'.name = "kanban" /\ Len(calls) + 1 \in DOMAIN calls'
          /\ calls'[Len(calls) + 1].op = "move"
      BY <1>4, <1>5, <2>1 DEF SceneStays
    <3>5. Settles' /\ FailedMarked'
      BY <3>4 DEF Settles, FailedMarked
    <3> QED
      BY <3>3, <3>5, EmptyRange DEF AllCovered, Covered
  <2>2. CASE ~(op = "move" /\ query.name = "kanban")
    <3>1. cache' = cache
      BY <1>3, <2>2 DEF OnMutate
    <3>2. AllCovered'
      BY <1>6, <3>1, CoveredKept DEF Inv
    <3> QED
      BY <1>1, <3>1, <3>2 DEF Inv, FailedMarked, SceneStays
  <2> QED
    BY <2>1, <2>2
<1>8. RowDraft'
  BY <1>7 DEF Inv, RowDraft
<1>9. HomeOnly'
  <2>1. Locals' = Locals /\ screen' = screen
    BY DEF Locals, SceneStays, Touches
  <2>2. ASSUME navs = 0, NEW j \in DOMAIN calls'
        PROVE  calls'[j].op \in screen.starts /\ Range(calls'[j].after) \subseteq Locals
    <3>1. CASE j \in DOMAIN calls
      BY <1>5, <2>2, <3>1 DEF Inv, HomeOnly
    <3>2. CASE j \notin DOMAIN calls
      <4>1. j = Len(calls) + 1
        BY <1>5, <3>2
      <4> QED
        BY <1>4, <1>5, <4>1
    <3> QED
      BY <3>1, <3>2
  <2> QED
    BY <1>7, <2>1, <2>2 DEF Inv, HomeOnly
<1> QED
  BY <1>5, <1>7, <1>8, <1>9

LEMMA StartKeeps ==
    ASSUME Inv, NEW op \in screen.starts, Start(op)
    PROVE  Inv'
<1>1. /\ SceneStays /\ UNCHANGED <<prompt, draft, lapses, navs, reverts>> /\ Send(op)
  BY DEF Start, SceneStays
<1>2. /\ calls' \in Seq(Call) /\ cache' \in Entry /\ FailedMarked' /\ AllCovered'
      /\ RowDraft' /\ HomeOnly'
  BY <1>1, SendKeeps
<1>3. SceneTypes' /\ DraftTypes' /\ RestTypes' /\ RevertsOnlyKnown'
  BY <1>1 DEF Inv, Types, SceneTypes, DraftTypes, RestTypes, RevertsOnlyKnown, SceneStays
<1> QED
  BY <1>2, <1>3 DEF Inv, Types

\* A draft that follows its row never writes back less than the screen shows.
LEMMA SaveKeeps ==
    ASSUME Inv, Save
    PROVE  Inv'
<1>1. /\ SceneStays /\ UNCHANGED <<prompt, draft, lapses, navs>>
      /\ draft.in.op \in screen.starts /\ Send(draft.in.op)
      /\ reverts' = reverts \cup (IF draft.lacks \subseteq cache.lacks THEN {} ELSE {draft.editor})
  BY DEF Save, SceneStays
<1>2. /\ calls' \in Seq(Call) /\ cache' \in Entry /\ FailedMarked' /\ AllCovered'
      /\ RowDraft' /\ HomeOnly'
  BY <1>1, SendKeeps
<1>3. draft.editor \in DOMAIN Editors /\ draft.in = Editors[draft.editor]
  <2>1. draft.in.op # "none"
    BY <1>1, StartsOps, NamedHooks DEF Inv
  <2> QED
    BY <2>1, DraftFacts DEF Inv
<1>4. SceneTypes' /\ DraftTypes' /\ RestTypes'
  BY <1>1, <1>3 DEF Inv, Types, SceneTypes, DraftTypes, RestTypes, SceneStays
<1>5. RevertsOnlyKnown'
  <2>1. ~(draft.lacks \subseteq cache.lacks) => Editors[draft.editor].copies # "row"
    BY <1>3 DEF Inv, RowDraft
  <2> QED
    BY <1>1, <2>1 DEF Inv, RevertsOnlyKnown
<1> QED
  BY <1>2, <1>4, <1>5 DEF Inv, Types

LEMMA OpenDialogKeeps ==
    ASSUME Inv, OpenDialog
    PROVE  Inv'
<1>1. /\ SceneStays /\ UNCHANGED <<cache, calls, prompt, lapses, navs, reverts>>
      /\ draft.in.copies = "open" /\ draft' = [draft EXCEPT !.lacks = cache.lacks]
  BY DEF OpenDialog, SceneStays, Copied
<1>2. cache.lacks \in SUBSET Who
  BY DEF Inv, Types, Entry
<1>3. draft # NoDraft
  BY <1>1, DraftFacts DEF Inv
<1>4. draft' \in Drafts /\ draft' # NoDraft /\ draft'.in = draft.in
  BY <1>1, <1>2, <1>3, DraftFacts DEF Inv
<1>5. DraftTypes' /\ RowDraft'
  BY <1>1, <1>3, <1>4 DEF Inv, Types, DraftTypes, RowDraft, SceneStays
<1>6. SceneTypes' /\ RestTypes' /\ RevertsOnlyKnown' /\ FailedMarked'
  BY <1>1 DEF Inv, Types, SceneTypes, RestTypes, RevertsOnlyKnown, SceneStays, FailedMarked
<1>7. AllCovered'
  BY <1>1, CoveredKept, UnchangedStay DEF Inv
<1>8. HomeOnly'
  BY <1>1, HomeKept DEF Inv, HomeOnly
<1> QED
  BY <1>1, <1>5, <1>6, <1>7, <1>8 DEF Inv, Types

-----------------------------------------------------------------------------
(* Calls are served *)

\* A change served: the entry and the draft lack it, and so does every fetch and answer
\* under way, but no other call.
LEMMA ChangesKeep ==
    ASSUME Types, RowDraft, SceneStays, NEW who \in Who, NEW facts, Changes(who, facts)
    PROVE  /\ cache' \in Entry /\ DraftTypes' /\ RowDraft'
           /\ cache'.failed = cache.failed /\ cache'.invalid = cache.invalid
           /\ cache'.fetching = cache.fetching
           /\ cache.lacks \subseteq cache'.lacks
           /\ cache'.lacks \subseteq cache.lacks \cup {who}
           /\ Range(cache'.missed) \subseteq Range(cache.missed) \cup {who}
           /\ ~Touches(facts) => cache' = cache
<1>1. cache \in Entry
  BY DEF Types
<1>2. CASE Touches(facts)
  <2> DEFINE m == IF cache.fetching THEN Append(cache.missed, who) ELSE cache.missed
             l == cache.lacks \cup {who}
  <2>1. cache' = [cache EXCEPT !.lacks = l, !.missed = m]
    BY <1>2 DEF Changes
  <2>2. cache.missed \in Seq(Who) /\ l \in SUBSET Who
    BY <1>1 DEF Entry
  <2>3. m \in Seq(Who) /\ (Range(m) \subseteq Range(cache.missed) \cup {who})
        /\ (~cache.fetching => m = cache.missed)
    BY <2>2, Appended
  <2> HIDE DEF m, l
  <2>4. /\ cache' \in Entry /\ cache'.failed = cache.failed /\ cache'.invalid = cache.invalid
        /\ cache'.fetching = cache.fetching /\ cache'.lacks = l /\ cache'.missed = m
    BY <1>1, <2>1, <2>2, <2>3 DEF Entry
  <2>5. DraftTypes' /\ RowDraft'
    <3> DEFINE k == draft.lacks \cup {who}
    <3>1. CASE who # draft.in.op /\ facts \cap draft.in.facts # {}
      <4>1. draft' = [draft EXCEPT !.lacks = k]
        BY <3>1 DEF Changes
      <4>2. draft # NoDraft /\ k \in SUBSET Who
        BY <3>1, DraftFacts
      <4> HIDE DEF k
      <4>3. draft' \in Drafts /\ draft' # NoDraft /\ draft'.in = draft.in /\ draft'.lacks = k
        BY <4>1, <4>2, DraftFacts
      <4> QED
        BY <2>4, <4>2, <4>3 DEF Types, DraftTypes, RowDraft, SceneStays, k, l
    <3>2. CASE ~(who # draft.in.op /\ facts \cap draft.in.facts # {})
      <4>1. draft' = draft
        BY <3>2 DEF Changes
      <4> QED
        BY <2>4, <4>1 DEF Types, DraftTypes, RowDraft, SceneStays, l
    <3> QED
      BY <3>1, <3>2
  <2> QED
    BY <1>2, <2>3, <2>4, <2>5 DEF l
<1>3. CASE ~Touches(facts)
  <2>1. cache' = cache
    BY <1>3 DEF Changes
  <2>2. facts \cap draft.in.facts = {}
    BY <1>3, DraftFacts DEF Touches
  <2>3. draft' = draft
    BY <2>2 DEF Changes
  <2> QED
    BY <1>1, <2>1, <2>3 DEF Types, DraftTypes, RowDraft, SceneStays
<1> QED
  BY <1>2, <1>3

\* The other calls' answers come to lack it, and nothing else happens to them.
LEMMA BehindIn ==
    ASSUME Types, NEW who \in Who, NEW facts, NEW i
    PROVE  /\ Behind(who, facts, i) \in Seq(Call) /\ DOMAIN Behind(who, facts, i) = DOMAIN calls
           /\ \A j \in DOMAIN calls :
                 /\ Behind(who, facts, i)[j].op = calls[j].op
                 /\ Behind(who, facts, i)[j].served = calls[j].served
                 /\ Behind(who, facts, i)[j].next = calls[j].next
                 /\ Range(Behind(who, facts, i)[j].after)
                       \subseteq Range(calls[j].after) \cup {who}
                 /\ ~Touches(facts) => Behind(who, facts, i)[j] = calls[j]
<1> DEFINE F(j) == IF j # i /\ calls[j].served /\ Touches(facts)
                   THEN [calls[j] EXCEPT !.after = Append(@, who)] ELSE calls[j]
<1>1. /\ Len(calls) \in Nat /\ DOMAIN calls = 1..Len(calls)
      /\ \A j \in DOMAIN calls : calls[j] \in Call
  BY CallsIn
<1>2. ASSUME NEW j \in DOMAIN calls
      PROVE  /\ F(j) \in Call /\ F(j).op = calls[j].op /\ F(j).served = calls[j].served
             /\ F(j).next = calls[j].next
             /\ Range(F(j).after) \subseteq Range(calls[j].after) \cup {who}
             /\ ~Touches(facts) => F(j) = calls[j]
  <2> DEFINE c == calls[j]
             a == Append(c.after, who)
  <2>1. c \in Call /\ c.after \in Seq(Who)
    BY <1>1 DEF Call
  <2>2. a \in Seq(Who) /\ Range(a) = Range(c.after) \cup {who}
    BY <2>1, Appended
  <2> HIDE DEF a
  <2>3. /\ [c EXCEPT !.after = a] \in Call /\ [c EXCEPT !.after = a].op = c.op
        /\ [c EXCEPT !.after = a].served = c.served /\ [c EXCEPT !.after = a].next = c.next
        /\ [c EXCEPT !.after = a].after = a
    BY <2>1, <2>2 DEF Call
  <2>4. F(j) = c \/ (Touches(facts) /\ F(j) = [c EXCEPT !.after = a])
    BY DEF a
  <2> QED
    BY <2>1, <2>2, <2>3, <2>4
<1>3. Behind(who, facts, i) = [j \in 1..Len(calls) |-> F(j)]
  BY <1>1 DEF Behind
<1> HIDE DEF F
<1>4. Behind(who, facts, i) \in Seq(Call) /\ DOMAIN Behind(who, facts, i) = DOMAIN calls
      /\ \A j \in DOMAIN calls : Behind(who, facts, i)[j] = F(j)
  BY <1>1, <1>2, <1>3
<1> QED
  BY <1>2, <1>4

\* What was covered stays so after a change by another call: the fetch and the answers
\* under way come to lack that change only.
LEMMA CoveredAfterChange ==
    ASSUME Types, AllCovered, SceneStays, UNCHANGED <<lapses, prompt>>, NEW who \in Who,
           cache'.failed = cache.failed, cache'.invalid = cache.invalid,
           cache'.fetching = cache.fetching,
           cache'.lacks \subseteq cache.lacks \cup {who},
           Range(cache'.missed) \subseteq Range(cache.missed) \cup {who},
           \A j \in DOMAIN calls :
              /\ j \in DOMAIN calls' /\ calls'[j].op = calls[j].op
              /\ calls[j].op # who =>
                    /\ Begun(calls[j]) => Begun(calls'[j])
                    /\ Range(calls'[j].after) \subseteq Range(calls[j].after) \cup {who},
           who \in cache'.lacks /\ who \in Ops => Covered(who)'
    PROVE  AllCovered'
<1> SUFFICES ASSUME NEW w \in Ops, w \in cache'.lacks, w \notin lapses', query'.name \in Told(w)
             PROVE  Covered(w)'
  BY DEF AllCovered, Told, HeldBack, OpensPrompt
<1>1. CASE w = who
  BY <1>1
<1>2. CASE w # who
  <2>1. Covered(w)
    BY <1>2 DEF AllCovered, SceneStays
  <2>2. ASSUME Answers(w) PROVE Answers(w)'
    <3>1. PICK j \in DOMAIN calls :
             calls[j].op = w /\ Begun(calls[j]) /\ w \notin Range(calls[j].after)
      BY <2>2 DEF Answers
    <3>2. /\ j \in DOMAIN calls' /\ calls'[j].op = w /\ Begun(calls'[j])
          /\ w \notin Range(calls'[j].after)
      BY <1>2, <3>1
    <3> QED
      BY <3>2 DEF Answers, Begun
  <2>3. ASSUME Settles PROVE Settles'
    BY <2>3 DEF Settles, SceneStays
  <2>4. (Prompted(w) => Prompted(w)') /\ (Underway(w) => Underway(w)')
    BY <1>2 DEF SceneStays, Prompted, Underway
  <2>5. (Marked => Marked') /\ (cache.failed => cache'.failed)
    BY DEF SceneStays, Marked, Mounted, MountedOn
  <2> QED
    BY <2>1, <2>2, <2>3, <2>4, <2>5 DEF Covered
<1> QED
  BY <1>1, <1>2

LEMMA ServeKeeps ==
    ASSUME Inv, NEW i \in DOMAIN calls, Serve(i)
    PROVE  Inv'
<1>1. /\ SceneStays /\ UNCHANGED <<prompt, lapses, navs, reverts>>
      /\ ~calls[i].served
  BY DEF Serve, SceneStays
<1>2. calls[i] \in Call /\ DOMAIN calls = 1..Len(calls)
  BY CallsIn DEF Inv
<1> PICK who \in Ops : calls[i].op = who
  BY <1>2, CallFacts
<1>3. who \in Who /\ calls[i].hook.calls[calls[i].next] \subseteq Hooks[who].writes
  BY <1>2, CallFacts DEF Who
<1>4. PICK facts :
         /\ facts \in {HookOf(i).calls[calls[i].next]}
                        \cup (IF calls[i].op \in Skips THEN {{}} ELSE {})
         /\ Changes(who, facts)
         /\ calls' = [Behind(who, facts, i) EXCEPT ![i].served = TRUE, ![i].after = <<>>]
  BY DEF Serve
<1>5. facts \subseteq Hooks[who].writes
  BY <1>3, <1>4 DEF HookOf
<1>6. /\ cache' \in Entry /\ DraftTypes' /\ RowDraft'
      /\ cache'.failed = cache.failed /\ cache'.invalid = cache.invalid
      /\ cache'.fetching = cache.fetching
      /\ cache'.lacks \subseteq cache.lacks \cup {who}
      /\ Range(cache'.missed) \subseteq Range(cache.missed) \cup {who}
      /\ ~Touches(facts) => cache' = cache
  BY <1>1, <1>3, <1>4, ChangesKeep DEF Inv
<1> DEFINE b == Behind(who, facts, i)
<1>7. /\ b \in Seq(Call) /\ DOMAIN b = DOMAIN calls
      /\ \A j \in DOMAIN calls :
            /\ b[j].op = calls[j].op /\ b[j].served = calls[j].served
            /\ b[j].next = calls[j].next
            /\ Range(b[j].after) \subseteq Range(calls[j].after) \cup {who}
            /\ ~Touches(facts) => b[j] = calls[j]
  <2>1. Types
    BY DEF Inv
  <2>2. Behind(who, facts, i) \in Seq(Call) /\ DOMAIN Behind(who, facts, i) = DOMAIN calls
    BY <1>3, <2>1, BehindIn
  <2> QED
    BY <1>3, <2>1, <2>2, BehindIn
<1> HIDE DEF b
<1> DEFINE c == [b[i] EXCEPT !.served = TRUE, !.after = <<>>]
<1>8. c \in Call /\ c.op = who /\ c.served = TRUE /\ c.after = <<>>
  <2>1. b[i] \in Call /\ b[i].op = who
    BY <1>7, Elements
  <2>2. <<>> \in Seq(Who)
    OBVIOUS
  <2> QED
    BY <2>1, <2>2 DEF Call
<1>9. calls' = [b EXCEPT ![i] = c]
  BY <1>4, <1>7 DEF b
<1> HIDE DEF c
<1>10. /\ calls' \in Seq(Call) /\ DOMAIN calls' = DOMAIN calls
       /\ \A j \in DOMAIN calls : calls'[j] = IF j = i THEN c ELSE b[j]
  <2>1. DOMAIN b = 1..Len(b)
    BY <1>7, Elements
  <2>2. [b EXCEPT ![i] = c] \in Seq(Call)
    BY <1>7, <1>8, <2>1, ExceptSeq
  <2> QED
    BY <1>7, <1>9, <2>2
<1>11. Covered(who)'
  <2>1. i \in DOMAIN calls' /\ calls'[i].op = who /\ Begun(calls'[i])
        /\ who \notin Range(calls'[i].after)
    BY <1>8, <1>10, EmptyRange DEF Begun
  <2> QED
    BY <2>1 DEF Covered, Answers, Begun
<1>12. AllCovered'
  <2>1. \A j \in DOMAIN calls :
           /\ j \in DOMAIN calls' /\ calls'[j].op = calls[j].op
           /\ calls[j].op # who =>
                 /\ Begun(calls[j]) => Begun(calls'[j])
                 /\ Range(calls'[j].after) \subseteq Range(calls[j].after) \cup {who}
    BY <1>7, <1>8, <1>10 DEF Begun
  <2> QED
    BY <1>1, <1>3, <1>6, <1>11, <2>1, CoveredAfterChange DEF Inv
<1>13. HomeOnly'
  <2>1. ASSUME navs = 0, Touches(facts) PROVE who \in Locals
    <3>1. who \in screen.starts
      BY <2>1 DEF Inv, HomeOnly
    <3>2. Touches(Hooks[who].writes)
      BY <1>5, <2>1 DEF Touches
    <3> QED
      BY <3>1, <3>2 DEF Locals
  <2>2. navs = 0 => cache'.lacks \subseteq Locals /\ Range(cache'.missed) \subseteq Locals
    BY <1>6, <2>1 DEF Inv, HomeOnly
  <2>3. Locals' = Locals /\ screen' = screen /\ navs' = navs
    BY <1>1 DEF Locals, SceneStays, Touches
  <2>4. ASSUME navs = 0, NEW j \in DOMAIN calls'
        PROVE  calls'[j].op \in screen.starts /\ Range(calls'[j].after) \subseteq Locals
    <3>1. calls[j].op \in screen.starts /\ Range(calls[j].after) \subseteq Locals
      BY <1>10, <2>4 DEF Inv, HomeOnly
    <3>2. CASE j = i
      BY <1>8, <1>10, <3>1, <3>2, EmptyRange
    <3>3. CASE j # i
      BY <1>7, <1>10, <2>1, <2>4, <3>1, <3>3
    <3> QED
      BY <3>2, <3>3
  <2> QED
    BY <2>2, <2>3, <2>4 DEF HomeOnly
<1>14. SceneTypes' /\ RestTypes' /\ RevertsOnlyKnown' /\ FailedMarked'
  BY <1>1, <1>6 DEF Inv, Types, SceneTypes, RestTypes, RevertsOnlyKnown, SceneStays, FailedMarked
<1> QED
  BY <1>6, <1>10, <1>12, <1>13, <1>14 DEF Inv, Types

LEMMA OtherUserKeeps ==
    ASSUME Inv, OtherUser
    PROVE  Inv'
<1> DEFINE facts == draft.in.facts
<1>1. /\ SceneStays /\ UNCHANGED <<prompt, lapses, navs, reverts>>
      /\ Changes("other", facts) /\ calls' = Behind("other", facts, 0)
  BY DEF OtherUser, SceneStays
<1>2. "other" \in Who /\ "other" \notin Ops /\ "other" \in Locals
  BY NamedHooks DEF Who, Locals
<1>3. /\ cache' \in Entry /\ DraftTypes' /\ RowDraft'
      /\ cache'.failed = cache.failed /\ cache'.invalid = cache.invalid
      /\ cache'.fetching = cache.fetching
      /\ cache'.lacks \subseteq cache.lacks \cup {"other"}
      /\ Range(cache'.missed) \subseteq Range(cache.missed) \cup {"other"}
  BY <1>1, <1>2, ChangesKeep DEF Inv
<1>4. /\ calls' \in Seq(Call) /\ DOMAIN calls' = DOMAIN calls
      /\ \A j \in DOMAIN calls :
            /\ calls'[j].op = calls[j].op /\ calls'[j].served = calls[j].served
            /\ calls'[j].next = calls[j].next
            /\ Range(calls'[j].after) \subseteq Range(calls[j].after) \cup {"other"}
  BY <1>1, <1>2, BehindIn DEF Inv
<1>5. AllCovered'
  <2>1. \A j \in DOMAIN calls :
           /\ j \in DOMAIN calls' /\ calls'[j].op = calls[j].op
           /\ calls[j].op # "other" =>
                 /\ Begun(calls[j]) => Begun(calls'[j])
                 /\ Range(calls'[j].after) \subseteq Range(calls[j].after) \cup {"other"}
    BY <1>4 DEF Begun
  <2> QED
    BY <1>1, <1>2, <1>3, <2>1, CoveredAfterChange DEF Inv
<1>6. HomeOnly'
  <2>1. Locals' = Locals /\ screen' = screen /\ navs' = navs
    BY <1>1 DEF Locals, SceneStays, Touches
  <2>2. navs = 0 => cache'.lacks \subseteq Locals /\ Range(cache'.missed) \subseteq Locals
    BY <1>2, <1>3 DEF Inv, HomeOnly
  <2>3. ASSUME navs = 0, NEW j \in DOMAIN calls'
        PROVE  calls'[j].op \in screen.starts /\ Range(calls'[j].after) \subseteq Locals
    BY <1>2, <1>4, <2>3 DEF Inv, HomeOnly
  <2> QED
    BY <2>1, <2>2, <2>3 DEF HomeOnly
<1>7. SceneTypes' /\ RestTypes' /\ RevertsOnlyKnown' /\ FailedMarked'
  BY <1>1, <1>3 DEF Inv, Types, SceneTypes, RestTypes, RevertsOnlyKnown, SceneStays, FailedMarked
<1> QED
  BY <1>3, <1>4, <1>5, <1>6, <1>7 DEF Inv, Types

LEMMA ContinueKeeps ==
    ASSUME Inv, NEW i \in DOMAIN calls, Continue(i)
    PROVE  Inv'
<1> DEFINE n == calls[i].next + 1
           c == [calls[i] EXCEPT !.next = n, !.served = FALSE, !.after = <<>>]
<1>1. /\ SceneStays /\ UNCHANGED <<cache, draft, prompt, lapses, navs, reverts>>
      /\ calls[i].next # Len(calls[i].hook.calls)
      /\ calls' = [calls EXCEPT ![i].next = @ + 1, ![i].served = FALSE, ![i].after = <<>>]
  BY DEF Continue, SceneStays, LastCall, HookOf
<1>2. calls \in Seq(Call) /\ DOMAIN calls = 1..Len(calls) /\ calls[i] \in Call
  BY CallsIn DEF Inv
<1>3. n \in 1..Len(calls[i].hook.calls) /\ n > 1 /\ n \in Nat
  <2>1. calls[i].hook.calls \in Seq(SUBSET Facts) /\ calls[i].next \in 1..Len(calls[i].hook.calls)
    BY <1>2, CallFacts
  <2>2. Len(calls[i].hook.calls) \in Nat
    BY <2>1, LenProperties
  <2> QED
    BY <1>1, <2>1, <2>2
<1>4. calls' = [calls EXCEPT ![i] = c]
  BY <1>1
<1> HIDE DEF n
<1>5. c \in Call /\ c.op = calls[i].op /\ c.next = n /\ c.after = <<>>
  <2>1. <<>> \in Seq(Who)
    OBVIOUS
  <2> QED
    BY <1>2, <1>3, <2>1 DEF Call
<1> HIDE DEF c
<1>6. /\ calls' \in Seq(Call) /\ DOMAIN calls' = DOMAIN calls
      /\ \A j \in DOMAIN calls : calls'[j] = IF j = i THEN c ELSE calls[j]
  <2>1. [calls EXCEPT ![i] = c] \in Seq(Call)
    BY <1>2, <1>5, ExceptSeq
  <2> QED
    BY <1>4, <2>1
<1>7. \A j \in DOMAIN calls : Stays(j)
  <2>1. Begun(c) /\ Range(c.after) = {}
    BY <1>3, <1>5, EmptyRange DEF Begun
  <2> QED
    BY <1>5, <1>6, <2>1 DEF Stays
<1>8. AllCovered'
  BY <1>1, <1>7, CoveredKept DEF Inv
<1>9. HomeOnly'
  <2>1. Range(c.after) = {}
    BY <1>5, EmptyRange
  <2>2. \A j \in DOMAIN calls' : \E k \in DOMAIN calls :
           calls'[j].op = calls[k].op /\ Range(calls'[j].after) \subseteq Range(calls[k].after)
    BY <1>5, <1>6, <2>1
  <2> QED
    BY <1>1, <2>2, HomeKept DEF Inv, HomeOnly
<1>10. /\ SceneTypes' /\ cache' \in Entry /\ DraftTypes' /\ RestTypes' /\ RevertsOnlyKnown'
       /\ FailedMarked' /\ RowDraft'
  BY <1>1 DEF Inv, Types, SceneTypes, DraftTypes, RestTypes, RevertsOnlyKnown, SceneStays,
              FailedMarked, RowDraft
<1> QED
  BY <1>6, <1>8, <1>9, <1>10 DEF Inv, Types

-----------------------------------------------------------------------------
(* Calls are answered *)

\* The merge of an answer: what the entry lacked and lacks still is on its way, because
\* the answer's own call wrote nothing it leaves out, and the rest is known to be lost.
LEMMA MergeCovers ==
    ASSUME Inv, NEW i \in DOMAIN calls, SceneStays, prompt \in BOOLEAN,
           calls[i].hook.merges, query.name = "deal",
           \A j \in DOMAIN calls : j # i => Stays(j),
           cache' = mergeDealCache(cache, calls[i].after),
           lapses \cup (Range(calls[i].after) \ cache.lacks) \subseteq lapses',
           cache.invalid /\ ~cache.fetching => cache'.lacks \subseteq lapses'
    PROVE  /\ cache' \in Entry /\ FailedMarked' /\ AllCovered'
           /\ cache'.lacks \subseteq cache.lacks \cup Range(calls[i].after)
           /\ cache'.missed = cache.missed
<1> DEFINE after == Range(calls[i].after)
           kept == {o \in cache.lacks \cap Ops : Hooks[o].writes \cap ContactData # {}}
           l == after \cup kept
<1>1. /\ calls[i] \in Call /\ cache \in Entry /\ calls[i].after \in Seq(Who)
      /\ calls[i].hook = Hooks[calls[i].op] /\ calls[i].op \in Ops
  BY CallsIn, CallFacts DEF Inv, Types
<1>2. l \in SUBSET Who
  <2>1. after \subseteq Who
    BY <1>1, Elements
  <2> QED
    BY <2>1 DEF Who
<1>3. cache' = [cache EXCEPT !.lacks = l, !.invalid = FALSE, !.failed = FALSE]
  BY DEF mergeDealCache
<1>4. l \subseteq cache.lacks \cup after
  OBVIOUS
<1>5. Hooks[calls[i].op].writes \cap ContactData = {}
  BY <1>1, EveryHook DEF HookOK
<1>6. \A w \in l : w \in after \/ Hooks[w].writes \cap ContactData # {}
  OBVIOUS
<1> HIDE DEF l, kept
<1>7. /\ cache' \in Entry /\ cache'.lacks = l /\ cache'.invalid = FALSE /\ cache'.failed = FALSE
      /\ cache'.fetching = cache.fetching /\ cache'.missed = cache.missed
  BY <1>1, <1>2, <1>3 DEF Entry
<1>8. ASSUME NEW w \in Ops, w \in l, w \notin lapses', query.name \in Told(w)
      PROVE  Answers(w)' \/ Underway(w)'
  <2>1. w \in cache.lacks /\ w \notin lapses
    BY <1>4, <1>8
  <2>2. Covered(w)
    BY <1>8, <2>1 DEF Inv, AllCovered
  <2>3. ASSUME Answers(w) PROVE Answers(w)'
    <3>1. PICK j \in DOMAIN calls :
             calls[j].op = w /\ Begun(calls[j]) /\ w \notin Range(calls[j].after)
      BY <2>3 DEF Answers
    <3>2. j # i
      BY <1>5, <1>6, <1>8, <3>1
    <3> QED
      BY <3>1, <3>2, StillAnswered
  <2>4. Underway(w) => Underway(w)'
    BY <1>7 DEF Underway
  <2>5. ~Settles /\ ~Prompted(w)
    BY DEF Settles, Prompted
  <2>6. ~Marked
    BY <1>7, <1>8 DEF Marked
  <2>7. ~cache.failed
    BY <1>1, <1>7, <1>8 DEF Inv, FailedMarked, Entry
  <2> QED
    BY <2>2, <2>3, <2>4, <2>5, <2>6, <2>7 DEF Covered
<1>9. AllCovered'
  BY <1>7, <1>8 DEF AllCovered, Covered, SceneStays, Told, HeldBack, OpensPrompt
<1>10. FailedMarked'
  BY <1>7 DEF FailedMarked
<1> QED
  BY <1>4, <1>7, <1>9, <1>10

\* The end of a mutation that does not touch the entry: what its answer covered was not
\* for the entry, or is left to a prompt, or known to be lost.
LEMMA EndCovers ==
    ASSUME Inv, NEW i \in DOMAIN calls, SceneStays, UNCHANGED cache, prompt' \in BOOLEAN,
           \A j \in DOMAIN calls : j # i => Stays(j),
           lapses \subseteq lapses', prompt => prompt',
           query.name = "kanban" => calls[i].op # "move",
           Begun(calls[i]) /\ query.name \in Told(calls[i].op) /\ calls[i].op \notin lapses'
               => prompt' /\ query.name = "myDay" /\ calls[i].op \in {"quickLog", "objection"}
    PROVE  AllCovered' /\ FailedMarked'
<1>1. ASSUME NEW w \in Ops, w \in cache.lacks, w \notin lapses', query.name \in Told(w)
      PROVE  Covered(w)'
  <2>1. Covered(w)
    BY <1>1 DEF Inv, AllCovered
  <2>2. ASSUME Answers(w) PROVE Answers(w)' \/ Prompted(w)'
    <3>1. PICK j \in DOMAIN calls :
             calls[j].op = w /\ Begun(calls[j]) /\ w \notin Range(calls[j].after)
      BY <2>2 DEF Answers
    <3>2. CASE j # i
      BY <3>1, <3>2, StillAnswered
    <3>3. CASE j = i
      BY <1>1, <3>1, <3>3 DEF Prompted, SceneStays
    <3> QED
      BY <3>2, <3>3
  <2>3. ASSUME Settles PROVE Settles'
    <3>1. PICK j \in DOMAIN calls : calls[j].op = "move" /\ query.name = "kanban"
      BY <2>3 DEF Settles
    <3>2. j # i /\ UNCHANGED query
      BY <3>1 DEF SceneStays
    <3> QED
      BY <3>1, <3>2, StillSettles
  <2>4. (Prompted(w) => Prompted(w)') /\ (Underway(w) => Underway(w)')
    BY DEF SceneStays, Prompted, Underway
  <2>5. (Marked => Marked') /\ (cache.failed => cache'.failed)
    BY DEF SceneStays, Marked, Mounted, MountedOn
  <2> QED
    BY <2>1, <2>2, <2>3, <2>4, <2>5 DEF Covered
<1>2. AllCovered'
  BY <1>1 DEF AllCovered, SceneStays
<1>3. FailedMarked'
  BY DEF Inv, FailedMarked, SceneStays
<1> QED
  BY <1>2, <1>3

\* When calls end, the rest of the page's history is as it was.
LEMMA EndHome ==
    ASSUME Inv, SceneStays, UNCHANGED navs, NEW i \in DOMAIN calls,
           \A j \in DOMAIN calls' : \E k \in DOMAIN calls : calls'[j] = calls[k],
           cache'.lacks \subseteq cache.lacks \cup Range(calls[i].after),
           Range(cache'.missed) \subseteq Range(cache.missed)
    PROVE  HomeOnly'
<1>1. navs = 0 => cache'.lacks \subseteq Locals /\ Range(cache'.missed) \subseteq Locals
  BY DEF Inv, HomeOnly
<1> QED
  BY <1>1, HomeKept DEF Inv

LEMMA SucceedKeeps ==
    ASSUME Inv, NEW i \in DOMAIN calls, Succeed(i)
    PROVE  Inv'
<1> PICK op \in Ops : calls[i].op = op
  BY CallsIn, CallFacts DEF Inv
<1> DEFINE now == calls[i].hook.refreshes
                      \cup (IF op = "visit" /\ calls[i].heard THEN {"myDay"} ELSE {})
           unheard == IF query.name \in HeldBack(op) /\ ~calls[i].heard THEN {op} ELSE {}
           merged == mergeDealCache(cache, calls[i].after)
<1>1. /\ SceneStays /\ UNCHANGED <<navs, reverts>> /\ calls[i].served /\ calls' = Done(i)
      /\ prompt' = (prompt \/ (OpensPrompt(op) /\ calls[i].heard))
  BY DEF Succeed, SceneStays
<1>2. /\ calls' \in Seq(Call)
      /\ \A j \in DOMAIN calls' : \E k \in DOMAIN calls : calls'[j] = calls[k]
      /\ \A j \in DOMAIN calls : j # i => Stays(j)
  BY <1>1, OthersStay DEF Inv
<1>3. /\ calls[i] \in Call /\ cache \in Entry /\ calls[i].hook = Hooks[op]
      /\ calls[i].heard \in BOOLEAN /\ calls[i].after \in Seq(Who)
  BY CallsIn, CallFacts DEF Inv, Types
<1>4. prompt' \in BOOLEAN
  BY <1>1, <1>3 DEF OpensPrompt, Inv, Types, RestTypes
<1>5. Range(calls[i].after) \subseteq Who /\ op \in Who
  BY <1>3, Elements DEF Who
<1>6. SceneTypes' /\ RevertsOnlyKnown'
  BY <1>1 DEF Inv, Types, SceneTypes, SceneStays, RevertsOnlyKnown
<1>7. CASE calls[i].hook.merges /\ query.name = "deal"
  <2>1. /\ cache' = merged /\ draft' = Reseeded(draft, merged)
        /\ lapses' = lapses \cup (Range(calls[i].after) \ cache.lacks)
                       \cup (IF cache.invalid /\ ~cache.fetching THEN merged.lacks ELSE {})
    BY <1>7 DEF Succeed, HookOf
  <2> HIDE DEF merged
  <2>2. /\ cache' \in Entry /\ FailedMarked' /\ AllCovered'
        /\ cache'.lacks \subseteq cache.lacks \cup Range(calls[i].after)
        /\ cache'.missed = cache.missed
    <3>1. prompt \in BOOLEAN
      BY DEF Inv, Types, RestTypes
    <3>2. cache.invalid /\ ~cache.fetching => cache'.lacks \subseteq lapses'
      BY <2>1
    <3>3. lapses \cup (Range(calls[i].after) \ cache.lacks) \subseteq lapses'
      BY <2>1
    <3>4. cache' = mergeDealCache(cache, calls[i].after)
      BY <2>1 DEF merged
    <3> QED
      BY <1>1, <1>2, <1>7, <3>1, <3>2, <3>3, <3>4, MergeCovers
  <2>3. DraftTypes' /\ RowDraft'
    BY <1>1, <2>1, <2>2, DraftReseeded DEF Inv, SceneStays
  <2>4. HomeOnly'
    BY <1>1, <1>2, <2>2, EndHome
  <2>5. RestTypes'
    <3>1. merged.lacks \subseteq Who
      BY <2>1, <2>2 DEF Entry
    <3>2. lapses' \subseteq Who
      BY <1>5, <2>1, <3>1 DEF Inv, Types, RestTypes
    <3> QED
      BY <1>1, <1>4, <3>2 DEF Inv, Types, RestTypes
  <2> QED
    BY <1>2, <1>6, <2>2, <2>3, <2>4, <2>5 DEF Inv, Types
<1>8. CASE ~(calls[i].hook.merges /\ query.name = "deal")
  <2>1. /\ draft' = draft
        /\ query.name \in now => /\ cache' = Invalidated(cache)
                                 /\ lapses' = lapses \cup Erased(cache) \cup unheard
        /\ query.name \notin now => cache' = cache /\ lapses' = lapses \cup unheard
    BY <1>8 DEF Succeed, HookOf
  <2>2. unheard \subseteq Who
    BY <1>5
  <2>3. op \notin unheard /\ query.name \in HeldBack(op) => calls[i].heard
    OBVIOUS
  <2>4. query.name \notin now =>
           /\ query.name \notin Hooks[op].refreshes
           /\ ~(op = "visit" /\ calls[i].heard /\ query.name = "myDay")
    BY <1>3
  <2> HIDE DEF unheard, now
  <2>5. /\ cache' \in Entry /\ FailedMarked' /\ AllCovered' /\ lapses' \subseteq Who
        /\ cache'.lacks = cache.lacks /\ Range(cache'.missed) \subseteq Range(cache.missed)
    <3>1. CASE query.name \in now
      <4>1. lapses \cup Erased(cache) \subseteq lapses' /\ cache' = Invalidated(cache)
        BY <2>1, <3>1
      <4>2. /\ cache' \in Entry /\ FailedMarked' /\ AllCovered'
            /\ cache'.lacks = cache.lacks /\ Range(cache'.missed) \subseteq Range(cache.missed)
            /\ Erased(cache) \subseteq Who
        BY <1>1, <4>1, AfterInvalidate DEF Inv
      <4> QED
        BY <2>1, <2>2, <3>1, <4>2 DEF Inv, Types, RestTypes
    <3>2. CASE query.name \notin now
      <4>1. cache' = cache /\ lapses' = lapses \cup unheard
        BY <2>1, <3>2
      <4>2. query.name = "kanban" => op # "move"
        BY <2>4, <3>2, NamedHooks
      <4>3. query.name \in Told(op) => query.name \in HeldBack(op)
        BY <1>3, <1>8, <2>4, <3>2 DEF Told
      <4>4. query.name \in HeldBack(op) =>
               query.name = "myDay" /\ (OpensPrompt(op) \/ op = "visit")
        BY DEF HeldBack
      <4>5. query.name \in Told(op) /\ op \notin lapses' =>
               prompt' /\ query.name = "myDay" /\ op \in {"quickLog", "objection"}
        BY <1>1, <2>3, <2>4, <3>2, <4>1, <4>3, <4>4 DEF OpensPrompt
      <4>6. AllCovered' /\ FailedMarked'
        BY <1>1, <1>2, <1>4, <4>1, <4>2, <4>5, EndCovers
      <4> QED
        BY <1>3, <2>2, <4>1, <4>6 DEF Inv, Types, RestTypes
    <3> QED
      BY <3>1, <3>2
  <2>6. DraftTypes' /\ RowDraft' /\ RestTypes'
    BY <1>1, <1>4, <2>1, <2>5 DEF Inv, Types, DraftTypes, RestTypes, RowDraft, SceneStays
  <2>7. HomeOnly'
    BY <1>1, <1>2, <2>5, EndHome
  <2> QED
    BY <1>2, <1>6, <2>5, <2>6, <2>7 DEF Inv, Types
<1> QED
  BY <1>7, <1>8

LEMMA FailKeeps ==
    ASSUME Inv, NEW i \in DOMAIN calls, Fail(i)
    PROVE  Inv'
<1> PICK op \in Ops : calls[i].op = op
  BY CallsIn, CallFacts DEF Inv
<1>1. /\ SceneStays /\ UNCHANGED <<navs, reverts, draft, prompt>> /\ calls' = Done(i)
  BY DEF Fail, SceneStays
<1>2. /\ calls' \in Seq(Call)
      /\ \A j \in DOMAIN calls' : \E k \in DOMAIN calls : calls'[j] = calls[k]
      /\ \A j \in DOMAIN calls : j # i => Stays(j)
  BY <1>1, OthersStay DEF Inv
<1>3. /\ calls[i] \in Call /\ cache \in Entry /\ calls[i].hook = Hooks[op] /\ op \in Who
      /\ prompt \in BOOLEAN
  BY CallsIn, CallFacts DEF Inv, Types, Who, RestTypes
<1>4. /\ cache' \in Entry /\ FailedMarked' /\ AllCovered' /\ lapses' \subseteq Who
      /\ cache'.lacks = cache.lacks /\ Range(cache'.missed) \subseteq Range(cache.missed)
  <2>1. CASE op = "move" /\ query.name \in Hooks[op].refreshes
    <3>1. cache' = Invalidated(cache) /\ lapses' = lapses \cup Erased(cache)
      BY <1>3, <2>1 DEF Fail, Invalidate, HookOf
    <3>2. /\ cache' \in Entry /\ FailedMarked' /\ AllCovered'
          /\ cache'.lacks = cache.lacks /\ Range(cache'.missed) \subseteq Range(cache.missed)
          /\ Erased(cache) \subseteq Who
      BY <1>1, <3>1, AfterInvalidate DEF Inv
    <3> QED
      BY <3>1, <3>2 DEF Inv, Types, RestTypes
  <2>2. CASE op = "move" /\ query.name \notin Hooks[op].refreshes
    <3>1. cache' = cache /\ lapses' = lapses
      BY <1>3, <2>2 DEF Fail, Invalidate, HookOf
    <3>2. query.name # "kanban" /\ query.name \notin Told(op)
      BY <2>2, NamedHooks, MostHoldNothingBack DEF Told
    <3>3. AllCovered' /\ FailedMarked'
      BY <1>1, <1>2, <1>3, <3>1, <3>2, EndCovers
    <3> QED
      BY <1>3, <3>1, <3>3 DEF Inv, Types, RestTypes
  <2>3. CASE op # "move"
    <3>1. /\ cache' = cache /\ lapses \subseteq lapses' /\ lapses' \subseteq lapses \cup {op}
          /\ Begun(calls[i]) => op \in lapses'
      BY <2>3 DEF Fail, Begun
    <3>2. AllCovered' /\ FailedMarked'
      BY <1>1, <1>2, <1>3, <2>3, <3>1, EndCovers
    <3> QED
      BY <1>3, <3>1, <3>2 DEF Inv, Types, RestTypes
  <2> QED
    BY <2>1, <2>2, <2>3
<1>5. /\ SceneTypes' /\ RevertsOnlyKnown' /\ DraftTypes' /\ RowDraft' /\ RestTypes'
  BY <1>1, <1>4
  DEF Inv, Types, SceneTypes, SceneStays, RevertsOnlyKnown, DraftTypes, RowDraft, RestTypes
<1>6. HomeOnly'
  BY <1>1, <1>2, <1>4, EndHome
<1> QED
  BY <1>2, <1>4, <1>5, <1>6 DEF Inv, Types

-----------------------------------------------------------------------------
(* Fetches, prompts and pages *)

\* The data a fetch brings lack what the server did after it was read; what the entry
\* did not lack before is known to be lost.
LEMMA DeliverKeeps ==
    ASSUME Inv, Deliver
    PROVE  Inv'
<1>1. /\ SceneStays /\ UNCHANGED <<calls, prompt, navs, reverts>> /\ cache.fetching
  BY DEF Deliver, SceneStays
<1>2. PICK n \in 0..Len(cache.missed) :
         LET late == Range(SubSeq(cache.missed, n + 1, Len(cache.missed)))
             fresh == Idle([cache EXCEPT !.lacks = late, !.invalid = FALSE, !.failed = FALSE])
         IN /\ cache' = fresh
            /\ draft' = Reseeded(draft, fresh)
            /\ lapses' = lapses \cup (late \ cache.lacks)
  BY DEF Deliver
<1> DEFINE late == Range(SubSeq(cache.missed, n + 1, Len(cache.missed)))
           c == [cache EXCEPT !.lacks = late, !.invalid = FALSE, !.failed = FALSE]
<1>3. /\ cache' = Idle(c) /\ draft' = Reseeded(draft, Idle(c))
      /\ lapses' = lapses \cup (late \ cache.lacks)
  BY <1>2
<1>4. cache \in Entry /\ cache.missed \in Seq(Who)
  BY DEF Inv, Types, Entry
<1>5. late \subseteq Range(cache.missed) /\ (Range(cache.missed) \subseteq Who)
  BY <1>4, Shortened, Elements
<1> HIDE DEF late
<1>6. c \in Entry /\ c.lacks = late /\ c.failed = FALSE
  BY <1>4, <1>5 DEF Entry
<1> HIDE DEF c
<1>7. /\ cache' \in Entry /\ cache'.lacks = late /\ cache'.failed = FALSE
      /\ cache'.missed = <<>>
  BY <1>3, <1>6, EntryChanges
<1>8. DraftTypes' /\ RowDraft'
  BY <1>1, <1>3, <1>7, DraftReseeded DEF Inv, SceneStays
<1>9. ASSUME NEW w \in Ops, w \in late, w \notin lapses', query.name \in Told(w)
      PROVE  Covered(w)'
  <2>1. Covered(w)
    BY <1>3, <1>9 DEF Inv, AllCovered
  <2>2. ~Underway(w) /\ ~Marked /\ ~cache.failed
    BY <1>1, <1>4, <1>5, <1>9 DEF Underway, Marked, Entry
  <2>3. (Answers(w) => Answers(w)') /\ (Settles => Settles')
    BY <1>1, UnchangedStay, AllStay DEF SceneStays
  <2>4. Prompted(w) => Prompted(w)'
    BY <1>1 DEF Prompted, SceneStays
  <2> QED
    BY <2>1, <2>2, <2>3, <2>4 DEF Covered
<1>10. AllCovered' /\ FailedMarked'
  BY <1>1, <1>7, <1>9 DEF AllCovered, FailedMarked, SceneStays, Told, HeldBack, OpensPrompt
<1>11. HomeOnly'
  <2>1. navs = 0 => cache'.lacks \subseteq Locals /\ Range(cache'.missed) \subseteq Locals
    BY <1>5, <1>7, EmptyRange DEF Inv, HomeOnly
  <2> QED
    BY <1>1, <2>1, HomeKept DEF Inv
<1>12. SceneTypes' /\ RestTypes' /\ RevertsOnlyKnown'
  BY <1>1, <1>3, <1>5 DEF Inv, Types, SceneTypes, RestTypes, RevertsOnlyKnown, SceneStays
<1> QED
  BY <1>1, <1>7, <1>8, <1>10, <1>11, <1>12 DEF Inv, Types

LEMMA FetchFailsKeeps ==
    ASSUME Inv, FetchFails
    PROVE  Inv'
<1> DEFINE c == [cache EXCEPT !.invalid = TRUE, !.failed = TRUE]
<1>1. /\ SceneStays /\ UNCHANGED <<calls, prompt, draft, lapses, navs, reverts>> /\ cache.fetching
      /\ cache' = Idle(c)
  BY DEF FetchFails, SceneStays
<1>2. /\ cache' \in Entry /\ cache'.lacks = cache.lacks /\ cache'.missed = <<>>
      /\ cache'.invalid = TRUE /\ cache'.failed = TRUE
  <2>1. cache \in Entry /\ <<>> \in Seq(Who)
    BY DEF Inv, Types
  <2> QED
    BY <1>1, <2>1 DEF Entry, Idle
<1>3. AllCovered' /\ FailedMarked' /\ RowDraft'
  BY <1>1, <1>2 DEF AllCovered, Covered, FailedMarked, RowDraft, Inv
<1>4. HomeOnly'
  BY <1>1, <1>2, HomeKept, EmptyRange DEF Inv, HomeOnly
<1>5. SceneTypes' /\ DraftTypes' /\ RestTypes' /\ RevertsOnlyKnown'
  BY <1>1 DEF Inv, Types, SceneTypes, DraftTypes, RestTypes, RevertsOnlyKnown, SceneStays
<1> QED
  BY <1>1, <1>2, <1>3, <1>4, <1>5 DEF Inv, Types

\* A prompt that is gone covers nothing: either My Day was invalidated, or what waited
\* for it is known to be lost.
LEMMA PromptGone ==
    ASSUME Inv, SceneStays, UNCHANGED <<cache, calls>>, lapses \subseteq lapses',
           query.name = "myDay" /\ prompt => {"quickLog", "objection"} \subseteq lapses'
    PROVE  AllCovered' /\ FailedMarked'
<1>1. (\A w : Answers(w) => Answers(w)') /\ (Settles => Settles')
  BY UnchangedStay, AllStay DEF SceneStays
<1>2. ASSUME NEW w \in Ops, w \in cache.lacks, w \notin lapses', query.name \in Told(w)
      PROVE  Covered(w)'
  <2>1. Covered(w) /\ ~Prompted(w)
    BY <1>2 DEF Inv, AllCovered, Prompted
  <2>2. (Underway(w) => Underway(w)') /\ (Marked => Marked') /\ (cache.failed => cache'.failed)
    BY DEF Underway, Marked, Mounted, MountedOn, SceneStays
  <2> QED
    BY <1>1, <2>1, <2>2 DEF Covered
<1>3. AllCovered'
  BY <1>2 DEF AllCovered, SceneStays
<1>4. FailedMarked'
  BY DEF Inv, FailedMarked, SceneStays
<1> QED
  BY <1>3, <1>4

LEMMA ClosePromptKeeps ==
    ASSUME Inv, ClosePrompt
    PROVE  Inv'
<1>1. /\ SceneStays /\ UNCHANGED <<calls, draft, navs, reverts>> /\ prompt' = FALSE
      /\ Invalidate({"myDay"})
  BY DEF ClosePrompt, SceneStays
<1>2. /\ cache' \in Entry /\ FailedMarked' /\ AllCovered' /\ lapses' \subseteq Who
      /\ cache'.lacks = cache.lacks /\ Range(cache'.missed) \subseteq Range(cache.missed)
  <2>1. CASE query.name = "myDay"
    <3>1. cache' = Invalidated(cache) /\ lapses' = lapses \cup Erased(cache)
      BY <1>1, <2>1 DEF Invalidate
    <3>2. /\ cache' \in Entry /\ FailedMarked' /\ AllCovered'
          /\ cache'.lacks = cache.lacks /\ Range(cache'.missed) \subseteq Range(cache.missed)
          /\ Erased(cache) \subseteq Who
      BY <1>1, <3>1, AfterInvalidate DEF Inv
    <3> QED
      BY <3>1, <3>2 DEF Inv, Types, RestTypes
  <2>2. CASE query.name # "myDay"
    <3>1. UNCHANGED <<cache, lapses>>
      BY <1>1, <2>2 DEF Invalidate
    <3> QED
      BY <1>1, <2>2, <3>1, PromptGone DEF Inv, Types, RestTypes
  <2> QED
    BY <2>1, <2>2
<1>3. HomeOnly'
  BY <1>1, <1>2, HomeKept DEF Inv, HomeOnly
<1>4. SceneTypes' /\ DraftTypes' /\ RestTypes' /\ RevertsOnlyKnown' /\ RowDraft'
  BY <1>1, <1>2
  DEF Inv, Types, SceneTypes, DraftTypes, RestTypes, RevertsOnlyKnown, RowDraft, SceneStays
<1> QED
  BY <1>1, <1>2, <1>3, <1>4 DEF Inv, Types

\* The names of the hooks a prompt holds back.
LEMMA PromptOps == {"quickLog", "objection"} \subseteq Who
BY DEF Who, Ops, Hooks

LEMMA PromptUnmountsKeeps ==
    ASSUME Inv, PromptUnmounts
    PROVE  Inv'
<1>1. /\ SceneStays /\ UNCHANGED <<cache, calls, draft, navs, reverts>> /\ prompt' = FALSE
      /\ lapses' = lapses \cup (IF query.name = "myDay" THEN {"quickLog", "objection"} ELSE {})
  BY DEF PromptUnmounts, SceneStays
<1>2. AllCovered' /\ FailedMarked'
  BY <1>1, PromptGone
<1>3. HomeOnly'
  BY <1>1, HomeKept DEF Inv, HomeOnly
<1>4. RestTypes'
  BY <1>1, PromptOps DEF Inv, Types, RestTypes
<1>5. SceneTypes' /\ DraftTypes' /\ RevertsOnlyKnown' /\ RowDraft'
  BY <1>1 DEF Inv, Types, SceneTypes, DraftTypes, RevertsOnlyKnown, RowDraft, SceneStays
<1> QED
  BY <1>1, <1>2, <1>3, <1>4, <1>5 DEF Inv, Types

LEMMA DraftsOnScreen ==
    ASSUME NEW s, NEW c \in Entry, NEW d \in DraftsOn(s, c)
    PROVE  d \in Drafts /\ (d # NoDraft => d.in.reads = query.name)
           /\ (d.in.copies = "row" => d.lacks = c.lacks)
<1>1. NoDraft.in.copies = "none"
  BY DEF NoDraft, Editor
<1>2. CASE d = NoDraft
  BY <1>1, <1>2 DEF Drafts
<1>3. CASE d # NoDraft
  <2>1. PICK e \in DOMAIN Editors :
           /\ Editors[e].reads = query.name
           /\ d = [editor |-> e, in |-> Editors[e], lacks |-> c.lacks]
    BY <1>3 DEF DraftsOn
  <2>2. c.lacks \in SUBSET Who
    BY DEF Entry
  <2>3. d \in Drafts
    BY <2>1, <2>2 DEF Drafts
  <2> QED
    BY <2>1, <2>3
<1> QED
  BY <1>2, <1>3

\* The calls in flight stay, unheard; a mark or a fetch of the entry turns into a fetch.
LEMMA NavigateKeeps ==
    ASSUME Inv, NEW s \in Screens(admin), Navigate(s)
    PROVE  Inv'
<1>1. /\ UNCHANGED <<query, admin, reverts>> /\ screen' = s /\ navs' = navs + 1
      /\ prompt' = FALSE
      /\ calls' = [i \in DOMAIN calls |-> [calls[i] EXCEPT !.heard = FALSE]]
      /\ lapses' = lapses \cup (IF prompt /\ query.name = "myDay" THEN {"quickLog", "objection"}
                                ELSE {})
      /\ cache' \in IF Mounted THEN {cache} ELSE Mounting(cache, s)
      /\ draft' \in DraftsOn(s, cache)
  BY DEF Navigate
<1>2. cache \in Entry /\ Len(calls) \in Nat /\ DOMAIN calls = 1..Len(calls)
      /\ \A i \in DOMAIN calls : calls[i] \in Call
  BY CallsIn DEF Inv, Types
<1>3. \A i \in DOMAIN calls : LET c == [calls[i] EXCEPT !.heard = FALSE] IN
         /\ c \in Call /\ c.op = calls[i].op /\ c.served = calls[i].served
         /\ c.next = calls[i].next /\ c.after = calls[i].after
  <2> SUFFICES ASSUME NEW i \in DOMAIN calls
               PROVE  LET c == [calls[i] EXCEPT !.heard = FALSE] IN
                      /\ c \in Call /\ c.op = calls[i].op /\ c.served = calls[i].served
                      /\ c.next = calls[i].next /\ c.after = calls[i].after
    OBVIOUS
  <2>1. calls[i] \in Call
    BY <1>2
  <2> QED
    BY <2>1 DEF Call
<1>4. /\ calls' \in Seq(Call) /\ DOMAIN calls' = DOMAIN calls
      /\ \A i \in DOMAIN calls : /\ calls'[i].op = calls[i].op
                                 /\ calls'[i].served = calls[i].served
                                 /\ calls'[i].next = calls[i].next
                                 /\ calls'[i].after = calls[i].after
  <2>1. calls' = [i \in 1..Len(calls) |-> [calls[i] EXCEPT !.heard = FALSE]]
    BY <1>1, <1>2
  <2>2. calls' \in Seq(Call)
    BY <1>2, <1>3, <2>1
  <2> QED
    BY <1>1, <1>3, <2>2
<1>5. \A j \in DOMAIN calls : Stays(j)
  BY <1>4 DEF Stays, Begun
<1>6. (\A w : Answers(w) => Answers(w)') /\ (Settles => Settles')
  BY <1>1, <1>5, AllStay
<1>7. /\ cache' \in Entry /\ cache'.lacks = cache.lacks /\ FailedMarked'
      /\ cache' = cache \/ (cache'.fetching = TRUE /\ cache'.missed = <<>>)
      /\ Marked => cache'.fetching = TRUE /\ cache'.missed = <<>>
  <2>1. CASE Mounted
    BY <1>1, <1>2, <2>1 DEF Inv, FailedMarked, Marked
  <2>2. CASE ~Mounted /\ cache' = cache
    <3>1. cache.fetching \/ ~cache.invalid
      <4> DEFINE d == [cache EXCEPT !.failed = FALSE]
      <4>1. d \in Entry /\ d.failed = FALSE
        BY <1>2 DEF Entry
      <4> HIDE DEF d
      <4>2. Fetching(d).fetching = TRUE
        BY <4>1, EntryChanges
      <4>3. MountedOn(s)
        BY <2>2 DEF Navigate
      <4>4. ASSUME ~cache.fetching, cache.invalid PROVE cache' = Fetching(d)
        BY <1>1, <2>2, <4>3, <4>4 DEF Mounting, d
      <4> QED
        BY <2>2, <4>2, <4>4
    <3> QED
      BY <1>1, <1>2, <2>2, <3>1 DEF Inv, FailedMarked, Marked
  <2>3. CASE ~Mounted /\ cache' # cache
    <3> DEFINE d == [cache EXCEPT !.failed = FALSE]
    <3>1. d \in Entry /\ d.failed = FALSE /\ d.lacks = cache.lacks
      BY <1>2 DEF Entry
    <3>2. cache' = Fetching(d)
      BY <1>1, <2>3 DEF Mounting
    <3> HIDE DEF d
    <3>3. /\ cache' \in Entry /\ cache'.fetching = TRUE /\ cache'.missed = <<>>
          /\ cache'.lacks = cache.lacks /\ cache'.failed = FALSE
      BY <3>1, <3>2, EntryChanges
    <3> QED
      BY <3>3 DEF FailedMarked
  <2> QED
    BY <2>1, <2>2, <2>3
<1>8. ASSUME NEW w \in Ops, w \in cache.lacks, w \notin lapses', query.name \in Told(w)
      PROVE  Covered(w)'
  <2>1. Covered(w) /\ ~Prompted(w)
    BY <1>1, <1>8 DEF Inv, AllCovered, Prompted
  <2>2. CASE cache'.fetching = TRUE /\ cache'.missed = <<>>
    BY <2>2, EmptyRange DEF Covered, Underway
  <2>3. CASE ~(cache'.fetching = TRUE /\ cache'.missed = <<>>)
    <3>1. cache' = cache /\ ~Marked
      BY <1>7, <2>3
    <3>2. Answers(w) \/ Settles \/ Underway(w) \/ cache.failed
      BY <2>1, <3>1 DEF Covered
    <3>3. (Underway(w) => Underway(w)') /\ (cache.failed => cache'.failed)
      BY <3>1 DEF Underway
    <3> QED
      BY <1>6, <3>2, <3>3 DEF Covered
  <2> QED
    BY <2>2, <2>3
<1>9. AllCovered'
  BY <1>1, <1>7, <1>8 DEF AllCovered, Told, HeldBack, OpensPrompt
<1>10. DraftTypes' /\ RowDraft'
  BY <1>1, <1>2, <1>7, DraftsOnScreen DEF DraftTypes, RowDraft
<1>11. HomeOnly'
  <2>1. navs' # 0
    BY <1>1 DEF Inv, Types, RestTypes
  <2> QED
    BY <2>1 DEF HomeOnly
<1>12. SceneTypes' /\ RestTypes' /\ RevertsOnlyKnown'
  <2>1. screen' = s /\ admin' = admin /\ query' = query /\ reverts' = reverts
    BY <1>1
  <2>2. SceneTypes' /\ RevertsOnlyKnown'
    BY <2>1 DEF Inv, Types, SceneTypes, RevertsOnlyKnown
  <2>3. lapses' \subseteq Who
    BY <1>1, PromptOps DEF Inv, Types, RestTypes
  <2>4. prompt' \in BOOLEAN /\ navs' \in Nat /\ reverts' \subseteq DOMAIN Editors
    <3>1. prompt' \in BOOLEAN
      BY <1>1
    <3>2. navs \in Nat /\ reverts \subseteq DOMAIN Editors
      BY DEF Inv, Types, RestTypes
    <3>3. navs' \in Nat
      BY <1>1, <3>2
    <3> QED
      BY <2>1, <3>1, <3>2, <3>3
  <2> QED
    BY <2>2, <2>3, <2>4 DEF RestTypes
<1> QED
  BY <1>4, <1>7, <1>9, <1>10, <1>11, <1>12 DEF Inv, Types

-----------------------------------------------------------------------------

LEMMA InitHolds == Init => Inv
<1> SUFFICES ASSUME Init PROVE Inv
  OBVIOUS
<1>1. /\ cache \in Entry /\ cache.lacks = {} /\ cache.missed = <<>> /\ cache.failed = FALSE
  <2>1. <<>> \in Seq(Who)
    OBVIOUS
  <2>2. cache \in [lacks : {{}}, invalid : {FALSE}, failed : {FALSE}, fetching : BOOLEAN,
                   missed : {<<>>}]
    BY DEF Init
  <2> QED
    BY <2>1, <2>2 DEF Entry
<1>2. /\ draft \in DraftsOn(screen, cache) /\ calls = <<>> /\ prompt = FALSE /\ lapses = {}
      /\ reverts = {} /\ navs = 0
  BY DEF Init
<1>3. DraftTypes /\ RowDraft
  BY <1>1, <1>2, DraftsOnScreen DEF DraftTypes, RowDraft
<1>4. calls \in Seq(Call) /\ DOMAIN calls = {}
  BY <1>2
<1>5. SceneTypes
  BY DEF Init, SceneTypes
<1>6. RestTypes /\ RevertsOnlyKnown
  BY <1>2 DEF RestTypes, RevertsOnlyKnown
<1>7. FailedMarked /\ AllCovered /\ HomeOnly
  BY <1>1, <1>4, EmptyRange DEF FailedMarked, AllCovered, HomeOnly
<1> QED
  BY <1>1, <1>3, <1>4, <1>5, <1>6, <1>7 DEF Inv, Types

LEMMA StepHolds == Inv /\ [Next]_vars => Inv'
<1> SUFFICES ASSUME Inv, [Next]_vars PROVE Inv'
  OBVIOUS
<1>1. ASSUME NEW op \in screen.starts, Start(op) PROVE Inv'
  BY <1>1, StartKeeps
<1>2. CASE Save
  BY <1>2, SaveKeeps
<1>3. CASE OpenDialog
  BY <1>3, OpenDialogKeeps
<1>4. ASSUME NEW i \in DOMAIN calls, Serve(i) PROVE Inv'
  BY <1>4, ServeKeeps
<1>5. ASSUME NEW i \in DOMAIN calls, Continue(i) PROVE Inv'
  BY <1>5, ContinueKeeps
<1>6. ASSUME NEW i \in DOMAIN calls, Succeed(i) PROVE Inv'
  BY <1>6, SucceedKeeps
<1>7. ASSUME NEW i \in DOMAIN calls, Fail(i) PROVE Inv'
  BY <1>7, FailKeeps
<1>8. CASE Deliver
  BY <1>8, DeliverKeeps
<1>9. CASE FetchFails
  BY <1>9, FetchFailsKeeps
<1>10. CASE ClosePrompt
  BY <1>10, ClosePromptKeeps
<1>11. CASE PromptUnmounts
  BY <1>11, PromptUnmountsKeeps
<1>12. ASSUME NEW s \in Screens(admin), Navigate(s) PROVE Inv'
  BY <1>12, NavigateKeeps
<1>13. CASE OtherUser
  BY <1>13, OtherUserKeeps
<1>14. CASE UNCHANGED vars
  <2>1. /\ SceneStays /\ UNCHANGED <<cache, calls, prompt, draft, lapses, reverts, navs>>
    BY <1>14 DEF vars, SceneStays
  <2>2. AllCovered'
    BY <2>1, CoveredKept, UnchangedStay DEF Inv
  <2>3. HomeOnly'
    BY <2>1, HomeKept DEF Inv, HomeOnly
  <2> QED
    BY <2>1, <2>2, <2>3
    DEF Inv, Types, SceneTypes, SceneStays, DraftTypes, RestTypes, FailedMarked, RowDraft,
        RevertsOnlyKnown
<1> QED
  BY <1>1, <1>2, <1>3, <1>4, <1>5, <1>6, <1>7, <1>8, <1>9, <1>10, <1>11, <1>12, <1>13, <1>14
  DEF Next

\* The invariant holds in every state of every tab: whatever is watched, by whoever, with
\* any number of mutations, changes of page and other users' edits.
THEOREM TabInv == Spec => []Inv
BY InitHolds, StepHolds, PTL DEF Spec

\* TypeOK: the parts of the tab keep their shape; a call in flight is one of its hook's, and
\* a fetch that is over has missed nothing.
THEOREM TabTypeOK == Spec => []TypeOK
<1>1. Inv => TypeOK
  <2> SUFFICES ASSUME Inv PROVE TypeOK
    OBVIOUS
  <2>1. query.name \in Watched /\ query.shows = Shows[query.name] /\ admin \in Roles
    BY DEF Inv, Types, SceneTypes
  <2>2. /\ cache.lacks \subseteq Ops \cup {"other"}
        /\ cache.invalid \in BOOLEAN /\ cache.failed \in BOOLEAN /\ cache.fetching \in BOOLEAN
        /\ cache.fetching \/ cache.missed = <<>>
    BY DEF Inv, Types, Entry, Who
  <2>3. \A i \in DOMAIN calls : calls[i].op \in Ops /\ calls[i].next <= Len(HookOf(i).calls)
    <3> SUFFICES ASSUME NEW i \in DOMAIN calls
                 PROVE  calls[i].op \in Ops /\ calls[i].next <= Len(calls[i].hook.calls)
      BY DEF HookOf
    <3>1. /\ calls[i].op \in Ops /\ calls[i].next \in 1..Len(calls[i].hook.calls)
          /\ calls[i].hook.calls \in Seq(SUBSET Facts)
      BY CallsIn, CallFacts DEF Inv
    <3> QED
      BY <3>1, LenProperties
  <2>4. draft.editor \in DOMAIN Editors \cup {"none"}
    <3>1. NoDraft.editor = "none"
      BY DEF NoDraft
    <3> QED
      BY <3>1, DraftFacts DEF Inv
  <2>5. /\ prompt \in BOOLEAN /\ reverts \subseteq DOMAIN Editors
        /\ lapses \subseteq Ops \cup {"other"}
    BY DEF Inv, Types, RestTypes, Who
  <2> QED
    BY <2>1, <2>2, <2>3, <2>4, <2>5 DEF TypeOK
<1> QED
  BY <1>1, TabInv, PTL

\* FreshAtRest: when nothing is on its way, a mounted query lacks no mutation that was to
\* refresh it, and on the page where it was made none at all but the listed gaps.
THEOREM FreshWhenAtRest == Spec => []FreshAtRest
<1>1. Inv => FreshAtRest
  <2> SUFFICES ASSUME Inv, AtRest, Mounted, NEW op \in cache.lacks \ (lapses \cup {"other"})
               PROVE  /\ query.name \notin Told(op)
                      /\ navs = 0 => <<op, query.name>> \in Gaps
    BY DEF FreshAtRest
  <2>1. op \in Ops /\ op # "other"
    BY DEF Inv, Types, Entry, Who
  <2>2. DOMAIN calls = {} /\ ~prompt /\ ~cache.fetching /\ ~cache.failed
    BY DEF AtRest
  <2>3. ~Covered(op)
    BY <2>2 DEF Covered, Answers, Settles, Prompted, Underway, Marked
  <2>4. query.name \notin Told(op)
    BY <2>1, <2>3 DEF Inv, AllCovered
  <2>5. ASSUME navs = 0 PROVE <<op, query.name>> \in Gaps
    <3>1. op \in screen.starts /\ Touches(Hooks[op].writes)
      BY <2>1, <2>5 DEF Inv, HomeOnly, Locals
    <3>2. Shows[query.name] \cap Hooks[op].writes # {}
      BY <3>1 DEF Touches, Inv, Types, SceneTypes
    <3>3. admin \in BOOLEAN /\ screen \in Screens(admin) /\ query.name \in screen.reads
      BY ScopeAssumption DEF Inv, Types, SceneTypes, Mounted, MountedOn
    <3>4. Clean(op, query.name)
      BY <3>1, <3>3, EveryScreen
    <3> QED
      BY <2>4, <3>2, <3>4 DEF Clean
  <2> QED
    BY <2>4, <2>5
<1> QED
  BY <1>1, TabInv, PTL

\* RevertsOnlyKnown: an editor that follows its cached row never writes back a value older
\* than the one the screen shows.
THEOREM RevertsKnown == Spec => []RevertsOnlyKnown
<1>1. Inv => RevertsOnlyKnown
  BY DEF Inv
<1> QED
  BY <1>1, TabInv, PTL
=============================================================================
