---------------------------- MODULE DealLifecycle ----------------------------
(***************************************************************************)
(* Birth, stage moves and outcome of a deal: POST /deals, the lead webhook *)
(* as far as the deal goes, and PATCH /stage, /won, /lost, /reopen and     *)
(* DELETE of app/api/deals.py with their services in app/services/deals.py.*)
(***************************************************************************)
EXTENDS DealStore

\* Mutant: the transition does not call the gate.
GateForgotten(enrollment, s) == TRUE

\* ensure_stage_requirements: every key the stage requires is filled.
MeetsRequirements(enrollment, s) == Required[s] \subseteq enrollment

\* The handler's loaded deal, in a session that may edit it.
MayEdit(w) == tx[w].phase = "loaded" /\ CanEdit(tx[w].user, tx[w].row)

\* Mutant: a handler without _ensure_open.
MayTransitionUnlocked(w) == MayEdit(w)

\* _ensure_open on the loaded deal.
MayTransition(w) == MayEdit(w) /\ tx[w].row.status = "open"

\* Mutants: winning leaves the deal where it is; reopening sends it back.
WonInPlace(row, t) == [row EXCEPT !.status = "won", !.wonAt = t]
ReopenedAtStart(row) ==
    [row EXCEPT !.status = "open", !.wonAt = 0, !.lostAt = 0, !.stage = FirstStage]

\* Assignments of mark_won, mark_lost and reopen to the loaded deal.
Won(row, t) == [row EXCEPT !.status = "won", !.wonAt = t, !.stage = WonStage]
Lost(row, t) == [row EXCEPT !.status = "lost", !.lostAt = t]
Reopened(row) == [row EXCEPT !.status = "open", !.wonAt = 0, !.lostAt = 0]

\* Mutant: the handler forgets stage_id and the column is nullable.
NewDealUnstaged(s, o, c, e) ==
    [NoDeal EXCEPT !.status = "open", !.owner = o, !.cycle = c, !.enrollment = e]

\* A deal as a handler builds it; the database fills the other columns.
NewDeal(s, o, c, e) ==
    [NoDeal EXCEPT !.status = "open", !.stage = s, !.owner = o, !.cycle = c,
                   !.enrollment = e]

-----------------------------------------------------------------------------

\* POST /deals.  A consultant creates for themselves, an admin for anyone or
\* for the queue.  Without stage_id the deal is born in the first stage and
\* no gate applies; with it the stage is not the won-stage and its gate does.
CreateDeal(w) ==
    /\ tx[w].phase = "begun"
    /\ \E u \in Users, d \in Deals, c \in Cycles, e \in SUBSET Keys, s \in Stages :
          /\ \/ s = FirstStage
             \/ s # WonStage /\ MeetsRequirements(e, s)
          /\ \E o \in IF IsAdmin(u) THEN Users \cup {None} ELSE {u} :
                Insert(w, d, NewDeal(s, o, c, e))
    /\ Finish(w)
    /\ UNCHANGED <<tasks, cycles, rescues>>

\* process_lead, as far as the deal goes: the active cycle is read...
StartCapture(w) ==
    /\ tx[w].phase = "begun"
    /\ \E c \in Cycles :
          /\ IsActive(c)
          /\ tx' = [tx EXCEPT ![w].phase = "capturing", ![w].cycle = c]
    /\ UNCHANGED <<tables, clock>>

\* ... and the lead lands unowned in the first stage, with at most the course
\* of interest filled in, and with the unassigned task "Make first contact"
\* when the setting asks for it.
FinishCapture(w) ==
    /\ tx[w].phase = "capturing"
    /\ \E d \in Deals, e \in {{}} \cup {{k} : k \in Keys} :
          /\ Insert(w, d, NewDeal(FirstStage, None, tx[w].cycle, e))
          /\ \/ UNCHANGED tasks
             \/ \E t \in Tasks :
                   /\ tasks[t] = NoTask
                   /\ tasks' = [tasks EXCEPT ![t] =
                                  [state |-> "todo", deal |-> d, assignee |-> None]]
    /\ Finish(w)
    /\ UNCHANGED <<cycles, rescues>>

\* Mutant: the move is not logged, so last_activity_at stays behind.
MoveStageUnlogged(w) ==
    /\ MayTransition(w)
    /\ \E s \in Stages \ {WonStage, tx[w].row.stage} :
          /\ MeetsRequirements(tx[w].row.enrollment, s)
          /\ Save(w, [tx[w].row EXCEPT !.stage = s], FALSE)
    /\ Finish(w)
    /\ UNCHANGED <<tasks, cycles, rescues>>

\* PATCH /stage to another stage than the won-stage, through its gate.  A move
\* to the current stage changes nothing, and one into the won-stage is MarkWon:
\* move_stage hands over to mark_won.
MoveStage(w) ==
    /\ MayTransition(w)
    /\ \E s \in Stages \ {WonStage, tx[w].row.stage} :
          /\ MeetsRequirements(tx[w].row.enrollment, s)
          /\ Save(w, [tx[w].row EXCEPT !.stage = s], TRUE)
    /\ Finish(w)
    /\ UNCHANGED <<tasks, cycles, rescues>>

\* POST /won, and PATCH /stage into the won-stage.
MarkWon(w) ==
    /\ MayTransition(w)
    /\ MeetsRequirements(tx[w].row.enrollment, WonStage)
    /\ Save(w, Won(tx[w].row, tx[w].start), TRUE)
    /\ Finish(w)
    /\ UNCHANGED <<tasks, cycles, rescues>>

\* POST /lost with an active lost reason.
MarkLost(w) ==
    /\ MayTransition(w)
    /\ Save(w, Lost(tx[w].row, tx[w].start), TRUE)
    /\ Finish(w)
    /\ UNCHANGED <<tasks, cycles, rescues>>

\* POST /reopen, admin only: the outcome is cleared, the stage stays.
Reopen(w) ==
    /\ tx[w].phase = "loaded" /\ IsAdmin(tx[w].user)
    /\ tx[w].row.status \in Closed
    /\ Save(w, Reopened(tx[w].row), TRUE)
    /\ Finish(w)
    /\ UNCHANGED <<tasks, cycles, rescues>>

\* DELETE, admin only: the row stays, every scoped read stops seeing it.
DeleteDeal(w) ==
    /\ tx[w].phase = "loaded" /\ IsAdmin(tx[w].user)
    /\ Save(w, [tx[w].row EXCEPT !.deleted = TRUE], FALSE)
    /\ Finish(w)
    /\ UNCHANGED <<tasks, cycles, rescues>>

LifecycleStep(w) ==
    \/ "create" \in Traffic /\ CreateDeal(w)
    \/ "webhook" \in Traffic /\ StartCapture(w)
    \/ FinishCapture(w)
    \/ "stage" \in Traffic /\ MoveStage(w)
    \/ "won" \in Traffic /\ MarkWon(w)
    \/ "lost" \in Traffic /\ MarkLost(w)
    \/ "reopen" \in Traffic /\ Reopen(w)
    \/ "delete" \in Traffic /\ DeleteDeal(w)
=============================================================================
