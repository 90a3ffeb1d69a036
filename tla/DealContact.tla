----------------------------- MODULE DealContact -----------------------------
(***************************************************************************)
(* Contact with the lead: the write-once first WhatsApp contact, its admin *)
(* correction, the one-click quick log and timeline notes                  *)
(* (app/services/deals.py, app/api/deals.py, app/api/activities.py).       *)
(***************************************************************************)
EXTENDS DealOwnership

\* POST /first-contact, on open and closed deals alike.
RegisterFirstContact(w) ==
    /\ MayEdit(w)
    /\ tx[w].row.firstContact = 0
    /\ Save(w, [tx[w].row EXCEPT !.firstContact = tx[w].start], TRUE)
    /\ Finish(w)
    /\ UNCHANGED <<tasks, cycles, rescues>>

\* PATCH /first-contact, admin only, with the transaction's trigger override.
CorrectFirstContact(w) ==
    /\ tx[w].phase = "loaded" /\ IsAdmin(tx[w].user)
    /\ Update(w, [tx[w].row EXCEPT !.firstContact = tx[w].start], TRUE)
    /\ Finish(w)
    /\ UNCHANGED <<tasks, cycles, rescues>>

\* The quick log registers the first contact when the loaded deal has none.
Contacted(row, t) ==
    [row EXCEPT !.firstContact = IF row.firstContact = 0 THEN t ELSE row.firstContact]

\* POST /log.  A scheduled visit leaves a task with the owner, or with the
\* caller when nobody owns the deal.
QuickLog(w) ==
    /\ MayTransition(w)
    /\ Save(w, Contacted(tx[w].row, tx[w].start), TRUE)
    /\ \/ UNCHANGED tasks
       \/ \E t \in Tasks :
             /\ tasks[t] = NoTask
             /\ tasks' = [tasks EXCEPT ![t] =
                   [state |-> "todo", deal |-> tx[w].deal,
                    assignee |-> IF tx[w].row.owner = None THEN tx[w].user
                                 ELSE tx[w].row.owner]]
    /\ Finish(w)
    /\ UNCHANGED <<cycles, rescues>>

\* POST /activities: a note writes nothing but last_activity_at.
AddNote(w) ==
    /\ MayEdit(w)
    /\ Save(w, tx[w].row, TRUE)
    /\ Finish(w)
    /\ UNCHANGED <<tasks, cycles, rescues>>

ContactStep(w) ==
    \/ "first_contact" \in Traffic /\ RegisterFirstContact(w)
    \/ "correct_contact" \in Traffic /\ CorrectFirstContact(w)
    \/ "log" \in Traffic /\ QuickLog(w)
    \/ "note" \in Traffic /\ AddNote(w)
=============================================================================
