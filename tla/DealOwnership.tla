---------------------------- MODULE DealOwnership ----------------------------
(***************************************************************************)
(* The unassigned queue and who works a deal: POST /claim, PATCH /deals,   *)
(* which an admin also uses to reassign, and the deal's tasks              *)
(* (app/services/deals.py, app/api/deals.py, app/api/tasks.py).            *)
(***************************************************************************)
EXTENDS DealLifecycle

\* Mutant: the merge forgets what was stored.
MergedAsReplace(enrollment, set, cleared) == set \ cleared

\* EnrollmentData.merge_into: keys sent with a value, keys sent as null.
Merged(enrollment, set, cleared) == (enrollment \cup set) \ cleared

\* Mutant: only tasks already given to somebody are looked for.
OpenAssigned(d) ==
    {t \in Tasks : /\ tasks[t].state = "todo" /\ tasks[t].deal = d
                   /\ tasks[t].assignee # None}

\* The deal's open tasks that nobody is assigned to.
OpenUnassigned(d) ==
    {t \in Tasks : tasks[t] = [state |-> "todo", deal |-> d, assignee |-> None]}

\* _assign_open_unassigned_tasks: the tasks read go to the new owner.
Assigned(ts, u) ==
    [t \in Tasks |-> IF t \in ts THEN [tasks[t] EXCEPT !.assignee = u] ELSE tasks[t]]

\* The owner is flushed, which locks the deal's row, and the deal's open
\* unassigned tasks are read; they are written before the commit, and
\* meanwhile other requests see neither and wait for the row.
TakeOver(w, assigned) ==
    /\ ~LockedByOther(w, tx[w].deal)
    /\ tx' = [tx EXCEPT ![w].phase = "owning", ![w].assigned = assigned,
                        ![w].taskSet = OpenUnassigned(tx[w].deal)]
    /\ UNCHANGED <<tables, clock>>

\* POST /claim: the queue is visible to every consultant, so no edit right.
Claim(w) ==
    /\ tx[w].phase = "loaded"
    /\ tx[w].row.status = "open" /\ tx[w].row.owner = None
    /\ TakeOver(w, [tx[w].row EXCEPT !.owner = tx[w].user])

\* Enrollment part of a PATCH /deals body: keys sent with a value, keys sent as
\* null, and the mode.
Patches ==
    {p \in [mode : {"merge", "replace"}, set : SUBSET Keys, cleared : SUBSET Keys] :
        /\ p.set \cap p.cleared = {}
        /\ p.mode = "replace" => p.cleared = {}}

Patched(row, p) ==
    [row EXCEPT !.enrollment = IF p.mode = "merge" THEN Merged(@, p.set, p.cleared)
                               ELSE p.set]

\* PATCH /deals that leaves the owner alone.  A closed deal is for admins.
UpdateDeal(w, p) ==
    /\ MayEdit(w)
    /\ tx[w].row.status = "open" \/ IsAdmin(tx[w].user)
    /\ Save(w, Patched(tx[w].row, p), FALSE)
    /\ Finish(w)
    /\ UNCHANGED <<tasks, cycles, rescues>>

\* PATCH /deals with another owner_id, admin only (change_owner).
ChangeOwner(w, p) ==
    /\ tx[w].phase = "loaded" /\ IsAdmin(tx[w].user)
    /\ \E u \in Users \ {tx[w].row.owner} :
          TakeOver(w, [Patched(tx[w].row, p) EXCEPT !.owner = u])

\* The rest of claim and change_owner.  A task read but deleted meanwhile
\* fails the UPDATE (StaleDataError), and the request with it.
FinishTakeOver(w) ==
    /\ tx[w].phase = "owning"
    /\ \A t \in tx[w].taskSet : tasks[t].state # "deleted"
    /\ Save(w, tx[w].assigned, TRUE)
    /\ tasks' = Assigned(tx[w].taskSet, tx[w].assigned.owner)
    /\ Finish(w)
    /\ UNCHANGED <<cycles, rescues>>

-----------------------------------------------------------------------------
(* Tasks *)

\* POST /deals/{id}/tasks, for a given assignee, the owner or the caller.
CreateTask(w) ==
    /\ MayEdit(w)
    /\ \E t \in Tasks, a \in Users :
          /\ tasks[t] = NoTask
          /\ tasks' = [tasks EXCEPT ![t] =
                         [state |-> "todo", deal |-> tx[w].deal, assignee |-> a]]
    /\ Save(w, tx[w].row, TRUE)
    /\ Finish(w)
    /\ UNCHANGED <<cycles, rescues>>

\* _get_task_scoped: the task is read, then its deal for the right to edit.
LoadTask(w) ==
    /\ tx[w].phase = "begun"
    /\ \E u \in Users, t \in Tasks :
          LET d == tasks[t].deal
          IN /\ tasks[t].state \in {"todo", "done"}
             /\ Visible(u, deals[d]) /\ CanEdit(u, deals[d])
             /\ tx' = [tx EXCEPT ![w].phase = "task", ![w].user = u,
                                 ![w].deal = d, ![w].row = deals[d],
                                 ![w].task = t, ![w].taskRow = tasks[t]]
    /\ UNCHANGED <<tables, clock>>

\* The UPDATE of a task row, column by column.
FlushTask(now, loaded, state, assignee) ==
    [now EXCEPT !.state = Column(@, loaded.state, state),
                !.assignee = Column(@, loaded.assignee, assignee)]

\* PATCH /tasks: is_done and assigned_to, compared with the row loaded.  Only
\* completing logs an activity, which writes the deal.
UpdateTask(w) ==
    LET t == tx[w].task
        loaded == tx[w].taskRow
    IN /\ tx[w].phase = "task"
       /\ tasks[t].state # "deleted"
       /\ \E s \in {"todo", "done"}, a \in Users \cup {loaded.assignee} :
             /\ tasks' = [tasks EXCEPT ![t] = FlushTask(@, loaded, s, a)]
             /\ IF s = "done" /\ loaded.state = "todo"
                THEN Save(w, tx[w].row, TRUE)
                ELSE UNCHANGED <<deals, history>>
       /\ Finish(w)
       /\ UNCHANGED <<cycles, rescues>>

\* DELETE /tasks
DeleteTask(w) ==
    /\ tx[w].phase = "task"
    /\ tasks' = [tasks EXCEPT ![tx[w].task].state = "deleted"]
    /\ Finish(w)
    /\ UNCHANGED <<deals, history, cycles, rescues>>

OwnershipStep(w) ==
    \/ "claim" \in Traffic /\ Claim(w)
    \/ "patch" \in Traffic /\ \E p \in Patches : UpdateDeal(w, p)
    \/ "reassign" \in Traffic /\ \E p \in Patches : ChangeOwner(w, p)
    \/ FinishTakeOver(w)
    \/ "tasks" \in Traffic /\ (CreateTask(w) \/ LoadTask(w) \/ UpdateTask(w) \/ DeleteTask(w))
=============================================================================
