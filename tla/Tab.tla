--------------------------------- MODULE Tab ---------------------------------
(***************************************************************************)
(* One browser tab of the CRM: its query cache, the mutations in flight    *)
(* and the drafts of its editors.                                          *)
(*                                                                         *)
(* The entries of the cache do not influence one another, so a behaviour   *)
(* watches one query, chosen at the start; a property of every entry is a  *)
(* property of the watched one.  Instead of data, an entry holds what its  *)
(* data lack: the calls already served that changed a fact it shows.       *)
(* "other" stands for a change by another user's tab.                      *)
(*                                                                         *)
(* The cache library is outside the repository; it is modelled from how    *)
(* hooks/ and app/providers.tsx use it: invalidating refetches a mounted   *)
(* entry, cancelling the fetch in flight, and only marks one that is not   *)
(* mounted; an answer replaces the data and removes the mark; mounting     *)
(* fetches a marked or aged entry, and joins a fetch in flight.            *)
(***************************************************************************)
EXTENDS TabScreens, TabHooks, Naturals, FiniteSets, SequencesExt

CONSTANTS Watched,     \* the entries a behaviour may watch
          Roles,       \* may the user be an admin?
          MaxOps,      \* mutations started
          Later,       \* those that may be started after the first
          MaxNavs,     \* changes of page or settings tab
          MaxOthers    \* changes by other users

ASSUME ScopeAssumption ==
    Watched \subseteq Queries /\ Roles \subseteq BOOLEAN /\ Later \subseteq DOMAIN Hooks
ASSUME BoundsAssumption == MaxOps \in Nat /\ MaxNavs \in Nat /\ MaxOthers \in Nat

VARIABLES query,       \* the watched entry
          admin,       \* the user's role
          screen,
          cache,       \* [lacks, invalid, failed, fetching, missed]
          calls,       \* the mutations in flight: [op, next, served, after, heard]
          prompt,      \* a quick log's prompt holds back My Day's invalidation
          draft,       \* the watched editor's [editor, lacks]
          lapses,      \* calls whose notice to the watched entry was lost
          reverts,     \* editors that wrote back a value older than the screen showed
          ops, navs, others   \* how many there have been

vars == <<query, admin, screen, cache, calls, prompt, draft, lapses, reverts, ops, navs, others>>

Ops == DOMAIN Hooks
Touches(facts) == facts \cap query.shows # {}
MountedOn(s) == query.name \in s.reads
Mounted == MountedOn(screen)

-----------------------------------------------------------------------------
(* Drafts.  An editor copies its row into local state: once, at mount      *)
(* ("mount"), when its dialog opens ("open"), or whenever the cached row   *)
(* changes ("row").                                                        *)

Editor(where, reads, facts, op, copies) ==
    [where |-> where, reads |-> reads, facts |-> facts, op |-> op, copies |-> copies]

DealEditors ==
    [dealFields |-> Editor("detail", "deal", {"profile", "owner"}, "reassignDeal", "mount"),
     enrollment |-> Editor("detail", "deal", {"enrollment"}, "enroll", "mount"),
     markWon |-> Editor("detail", "deal", {"profile"}, "markWon", "open")]
ContactEditors ==
    [contact |-> Editor("contacts", "contacts", {"contact"}, "updateContact", "open")]
SettingsEditors ==
    [unitRow |-> Editor("unitsTab", "units", {"unit"}, "saveUnit", "mount"),
     stageRow |-> Editor("stagesTab", "pipelines", {"stages"}, "saveStage", "mount"),
     stageConfig |-> Editor("stagesTab", "pipelines", {"stages"}, "saveStage", "open"),
     template |-> Editor("messagesTab", "templates", {"templates"}, "saveTemplate", "row"),
     reasonRow |-> Editor("reasonsTab", "reasons", {"reasons"}, "saveReason", "mount"),
     general |-> Editor("generalTab", "settings", {"settings"}, "saveSettings", "row")]
CatalogEditors ==
    [cycleName |-> Editor("cyclesTab", "cycles", {"cycles"}, "saveCycle", "row"),
     cycleDates |-> Editor("cyclesTab", "cycles", {"cycles"}, "saveCycle", "mount"),
     target |-> Editor("goalsTab", "goals", {"goals"}, "saveGoal", "row"),
     amount |-> Editor("spendTab", "spend", {"spend"}, "saveSpend", "row"),
     objection |-> Editor("objectionsTab", "objections", {"objections"}, "saveObjection", "row")]
Editors == DealEditors ++ ContactEditors ++ SettingsEditors ++ CatalogEditors

NoDraft == [editor |-> "none", in |-> Editor("none", "none", {}, "none", "none"), lacks |-> {}]
Copied(d, c) == [d EXCEPT !.lacks = c.lacks]
DraftsOn(s, c) ==
    {NoDraft}
    \cup {[editor |-> e, in |-> Editors[e], lacks |-> c.lacks] :
              e \in {x \in DOMAIN Editors : Editors[x].where = s.name
                                           /\ Editors[x].reads = query.name
                                           /\ Editors[x].op \in s.starts}}

\* Mutant: the editor lacks that effect.
NotReseeded(d, c) == d

\* The effect that follows a change of the cached row.
Reseeded(d, c) == IF d.in.copies = "row" THEN Copied(d, c) ELSE d

-----------------------------------------------------------------------------
(* Changes of the cache entry *)

Fetching(c) == [c EXCEPT !.fetching = TRUE, !.missed = <<>>]

\* Mutant: a cancelled or finished fetch leaves its bookkeeping behind.
IdleKeepingMissed(c) == [c EXCEPT !.fetching = FALSE]

Idle(c) == [c EXCEPT !.fetching = FALSE, !.missed = <<>>]

\* Mutant: a fetch in flight is taken to be enough.
InvalidatedOnce(c) ==
    IF Mounted /\ c.fetching THEN c
    ELSE IF Mounted THEN Fetching([c EXCEPT !.invalid = TRUE, !.failed = FALSE])
    ELSE [c EXCEPT !.invalid = TRUE]

\* invalidateQueries of an entry: refetch when mounted, else mark it.
Invalidated(c) ==
    IF Mounted THEN Fetching([c EXCEPT !.invalid = TRUE, !.failed = FALSE])
               ELSE [c EXCEPT !.invalid = TRUE]

\* A mark on an entry that is being fetched but not mounted is removed by that
\* fetch, although it may lack the call the mark was for.
Erased(c) == IF Mounted THEN {} ELSE Range(c.missed)

Invalidate(queries) ==
    IF query.name \in queries
    THEN cache' = Invalidated(cache) /\ lapses' = lapses \cup Erased(cache)
    ELSE UNCHANGED <<cache, lapses>>

\* setQueryData with the DealOut of a PATCH: all but the embedded contact.
mergeDealCache(c, after) ==
    LET kept == {o \in c.lacks \cap Ops : Hooks[o].writes \cap ContactData # {}}
    IN [c EXCEPT !.lacks = Range(after) \cup kept, !.invalid = FALSE, !.failed = FALSE]

-----------------------------------------------------------------------------
(* A mutation: sent, served call by call, answered *)

HookOf(i) == calls[i].hook
LastCall(i) == calls[i].next = Len(HookOf(i).calls)

\* A quick log leaves My Day to its prompt, a visit to its dialog's callback; both
\* are lost when the component that started it is gone.
OpensPrompt(op) == op \in {"quickLog", "objection"}
HeldBack(op) == IF OpensPrompt(op) \/ op = "visit" THEN {"myDay"} ELSE {}
Told(op) == Hooks[op].refreshes \cup HeldBack(op)
                \cup (IF Hooks[op].merges THEN {"deal"} ELSE {})

\* The others leave the watched entry alone.
Concerns(op) == query.name \in Told(op) \/ Touches(Hooks[op].writes)

\* Dialogs that skip a call they do not need.
Skips == {"missing", "objection", "createDeal"}

\* onMutate of a move cancels the board's fetch and writes the moved card.
OnMutate(op) ==
    IF op = "move" /\ query.name = "kanban" THEN Idle([cache EXCEPT !.invalid = FALSE]) ELSE cache

Send(op) ==
    /\ ops < MaxOps /\ ops' = ops + 1
    /\ ops = 0 \/ (op \in Later /\ calls # <<>> /\ draft = NoDraft)   \* overlapping
    /\ Concerns(op)
    /\ calls' = Append(calls, [op |-> op, hook |-> Hooks[op], next |-> 1, served |-> FALSE,
                               after |-> <<>>, heard |-> TRUE])
    /\ cache' = OnMutate(op)

Start(op) ==
    /\ Send(op)
    /\ UNCHANGED <<query, admin, screen, prompt, draft, lapses, reverts, navs, others>>

\* Saving the watched editor sends its draft, with whatever it lacks.
Save ==
    /\ draft.in.op \in screen.starts
    /\ Send(draft.in.op)
    /\ reverts' = reverts \cup (IF draft.lacks \subseteq cache.lacks THEN {} ELSE {draft.editor})
    /\ UNCHANGED <<query, admin, screen, prompt, draft, lapses, navs, others>>

OpenDialog ==
    /\ draft.in.copies = "open"
    /\ draft' = Copied(draft, cache)
    /\ UNCHANGED <<query, admin, screen, cache, calls, prompt, lapses, reverts, ops, navs, others>>

\* A change served: what is cached, fetched, answered or drafted before lacks it.
Changes(who, facts) ==
    /\ cache' = IF Touches(facts)
                THEN [cache EXCEPT !.lacks = @ \cup {who},
                                   !.missed = IF cache.fetching THEN Append(@, who) ELSE @]
                ELSE cache
    /\ draft' = IF who # draft.in.op /\ facts \cap draft.in.facts # {}
                THEN [draft EXCEPT !.lacks = @ \cup {who}] ELSE draft

\* The other mutations' answers do not include a call served after them.
Behind(who, facts, i) ==
    [j \in DOMAIN calls |-> IF j # i /\ calls[j].served /\ Touches(facts)
                            THEN [calls[j] EXCEPT !.after = Append(@, who)] ELSE calls[j]]

Serve(i) ==
    /\ ~calls[i].served
    /\ \E facts \in {HookOf(i).calls[calls[i].next]}
                    \cup (IF calls[i].op \in Skips THEN {{}} ELSE {}) :
          /\ Changes(calls[i].op, facts)
          /\ calls' = [Behind(calls[i].op, facts, i) EXCEPT ![i].served = TRUE, ![i].after = <<>>]
    /\ UNCHANGED <<query, admin, screen, prompt, lapses, reverts, ops, navs, others>>

Done(i) == RemoveAt(calls, i)

Succeed(i) ==
    LET op == calls[i].op
        now == HookOf(i).refreshes \cup (IF op = "visit" /\ calls[i].heard THEN {"myDay"} ELSE {})
        unheard == IF query.name \in HeldBack(op) /\ ~calls[i].heard THEN {op} ELSE {}
    IN
    /\ calls[i].served /\ LastCall(i)
    /\ calls' = Done(i)
    /\ prompt' = (prompt \/ (OpensPrompt(op) /\ calls[i].heard))
    /\ IF HookOf(i).merges /\ query.name = "deal"
       THEN LET merged == mergeDealCache(cache, calls[i].after) IN
            /\ cache' = merged
            /\ draft' = Reseeded(draft, merged)
            \* an older answer takes newer data back, and the mark of the entry is lost
            /\ lapses' = lapses \cup (Range(calls[i].after) \ cache.lacks)
                          \cup (IF cache.invalid /\ ~cache.fetching THEN merged.lacks ELSE {})
       ELSE /\ draft' = draft
            /\ IF query.name \in now
               THEN /\ cache' = Invalidated(cache)
                    /\ lapses' = lapses \cup Erased(cache) \cup unheard
               ELSE cache' = cache /\ lapses' = lapses \cup unheard
    /\ UNCHANGED <<query, admin, screen, reverts, ops, navs, others>>

\* The next call of a mutation that makes several.
Continue(i) ==
    /\ calls[i].served /\ ~LastCall(i)
    /\ calls' = [calls EXCEPT ![i].next = @ + 1, ![i].served = FALSE, ![i].after = <<>>]
    /\ UNCHANGED <<query, admin, screen, cache, prompt, draft, lapses, reverts, ops, navs, others>>

\* A refusal, or an answer that never came: a toast.  Only a move, whose onSettled
\* runs either way, invalidates; what the server did before is not announced.
Fail(i) ==
    /\ calls' = Done(i)
    /\ IF calls[i].op = "move" THEN Invalidate(HookOf(i).refreshes)
       ELSE /\ cache' = cache
            /\ lapses' = IF calls[i].served \/ calls[i].next > 1 THEN lapses \cup {calls[i].op}
                         ELSE lapses
    /\ UNCHANGED <<query, admin, screen, prompt, draft, reverts, ops, navs, others>>

-----------------------------------------------------------------------------
(* Fetches, prompts, navigation, other users *)

\* The server read the data at some point of the fetch.
Deliver ==
    /\ cache.fetching
    /\ \E n \in 0..Len(cache.missed) :
          LET late == Range(SubSeq(cache.missed, n + 1, Len(cache.missed)))
              fresh == Idle([cache EXCEPT !.lacks = late, !.invalid = FALSE, !.failed = FALSE])
          IN /\ cache' = fresh
             /\ draft' = Reseeded(draft, fresh)
             \* an answer older than a merge takes the merged data back
             /\ lapses' = lapses \cup (late \ cache.lacks)
    /\ UNCHANGED <<query, admin, screen, calls, prompt, reverts, ops, navs, others>>

FetchFails ==
    /\ cache.fetching
    /\ cache' = Idle([cache EXCEPT !.invalid = TRUE, !.failed = TRUE])
    /\ UNCHANGED <<query, admin, screen, calls, prompt, draft, lapses, reverts, ops, navs, others>>

\* Choosing a date or skipping; a chosen date is a setNext of its own.
ClosePrompt ==
    /\ prompt /\ prompt' = FALSE
    /\ Invalidate({"myDay"})
    /\ UNCHANGED <<query, admin, screen, calls, draft, reverts, ops, navs, others>>

\* The card or row that hosts the prompt is gone from the refetched list.  My Day's
\* own rows only go with data that include the log.
PromptUnmounts ==
    /\ prompt /\ screen.name # "queue" /\ prompt' = FALSE
    /\ lapses' = lapses \cup (IF query.name = "myDay" THEN {"quickLog", "objection"} ELSE {})
    /\ UNCHANGED <<query, admin, screen, cache, calls, draft, reverts, ops, navs, others>>

\* useQuery at mount: fetch when marked or aged, unless a fetch is in flight.
Mounting(c, s) ==
    IF ~MountedOn(s) \/ c.fetching THEN {c}
    ELSE {Fetching([c EXCEPT !.failed = FALSE])} \cup (IF c.invalid THEN {} ELSE {c})

Navigate(s) ==
    /\ navs < MaxNavs /\ s # screen
    /\ ops > 0                                   \* Init starts on any page
    /\ Mounted \/ MountedOn(s)
    /\ navs' = navs + 1 /\ screen' = s
    /\ calls' = [i \in DOMAIN calls |-> [calls[i] EXCEPT !.heard = FALSE]]
    /\ prompt' = FALSE
    /\ lapses' = lapses \cup (IF prompt /\ query.name = "myDay" THEN {"quickLog", "objection"} ELSE {})
    /\ cache' \in IF Mounted THEN {cache} ELSE Mounting(cache, s)
    /\ draft' \in DraftsOn(s, cache)
    /\ UNCHANGED <<query, admin, reverts, ops, others>>

OtherUser ==
    /\ others < MaxOthers /\ draft.editor # "none"
    /\ others' = others + 1
    /\ Changes("other", draft.in.facts)
    /\ calls' = Behind("other", draft.in.facts, 0)
    /\ UNCHANGED <<query, admin, screen, prompt, lapses, reverts, ops, navs>>

-----------------------------------------------------------------------------

Init ==
    /\ admin \in Roles
    /\ screen \in Screens(admin)
    /\ query \in {[name |-> q, shows |-> Shows[q]] : q \in Watched}
    /\ cache \in [lacks : {{}}, invalid : {FALSE}, failed : {FALSE}, fetching : BOOLEAN,
                  missed : {<<>>}]
    /\ draft \in DraftsOn(screen, cache)
    /\ calls = <<>> /\ prompt = FALSE /\ lapses = {} /\ reverts = {}
    /\ ops = 0 /\ navs = 0 /\ others = 0

Next ==
    \/ \E op \in screen.starts : Start(op)
    \/ Save \/ OpenDialog
    \/ \E i \in DOMAIN calls : Serve(i) \/ Continue(i) \/ Succeed(i) \/ Fail(i)
    \/ Deliver \/ FetchFails \/ ClosePrompt \/ PromptUnmounts
    \/ \E s \in Screens(admin) : Navigate(s)
    \/ OtherUser

Spec == Init /\ [][Next]_vars

-----------------------------------------------------------------------------

TypeOK ==
    /\ query.name \in Watched /\ query.shows = Shows[query.name] /\ admin \in Roles
    /\ cache.lacks \subseteq Ops \cup {"other"}
    /\ {cache.invalid, cache.failed, cache.fetching, prompt} \subseteq BOOLEAN
    /\ cache.fetching \/ cache.missed = <<>>
    /\ \A i \in DOMAIN calls : calls[i].op \in Ops /\ calls[i].next <= Len(HookOf(i).calls)
    /\ draft.editor \in DOMAIN Editors \cup {"none"} /\ reverts \subseteq DOMAIN Editors
    /\ lapses \subseteq Ops \cup {"other"}

\* Nothing is on its way to the watched entry.
AtRest == ~cache.fetching /\ ~cache.failed /\ ~prompt /\ calls = <<>>

\* The screen's own mutations that change what the screen shows without refreshing it.
Gaps ==
    ({"markWon", "markLost", "reopen", "enroll", "updateDeal", "reassignDeal", "updateContact",
      "objection", "missing", "saveUser", "saveReason"} \X {"recoverable"})
    \cup ({"move", "reassignDeal"} \X {"activities"})
    \cup ({"createTask", "toggleTask"} \X {"deal"})
    \cup {<<"reassignDeal", "dealTasks">>, <<"rollover", "openCount">>,
          <<"missing", "myGoalProgress">>}

\* When nothing is on its way, a mounted query lacks no mutation that was to refresh
\* it, however the fetches, answers and page changes overlapped, and on the page where
\* it was made no mutation at all but the listed ones; a notice known to be lost
\* (lapses) is excused.
FreshAtRest ==
    AtRest /\ Mounted =>
        \A op \in cache.lacks \ (lapses \cup {"other"}) :
            /\ query.name \notin Told(op)
            /\ navs = 0 => <<op, query.name>> \in Gaps

\* Only an editor that copies its row once, at mount or when its dialog opens, writes
\* back a value older than the one the screen shows.
RevertsOnlyKnown == \A e \in reverts : Editors[e].copies # "row"
=============================================================================
