-------------------------------- MODULE Deals --------------------------------
(***************************************************************************)
(* The deal back end: every handler that writes a deal, its stage history, *)
(* its tasks or the cycles, on the connections of one pool.  With a single *)
(* worker requests are served one after the other; with more they overlap. *)
(***************************************************************************)
EXTENDS DealCycles

Next ==
    \E w \in Workers :
        \/ Begin(w)
        \/ Load(w)
        \/ Abort(w)
        \/ LifecycleStep(w)
        \/ OwnershipStep(w)
        \/ ContactStep(w)
        \/ CyclesStep(w)

Spec == Init /\ [][Next]_vars

-----------------------------------------------------------------------------
(* Stage history: what the reports compute from, kept by triggers *)

\* The history of a deal ends in one open row, for the stage the deal is in,
\* and all earlier rows are closed (record_deal_stage_history), whatever
\* requests overlap.  Only a deal not yet created has none: deletion marks the row.
HistoryMatchesStage ==
    \A d \in Deals :
        LET h == history[d]
        IN /\ (h = <<>>) <=> ~Exists(d)
           /\ Exists(d) => h[Len(h)].stage = deals[d].stage
           /\ \A i \in DOMAIN h : h[i].left = 0 <=> i = Len(h)

\* The stays of a deal follow each other without gap or overlap and no stay
\* has a negative length, although left_at and entered_at are the start times
\* of transactions that may commit in another order.
HistoryContiguous ==
    \A d \in Deals : \A i \in 1 .. Len(history[d]) - 1 :
        /\ history[d][i].left = history[d][i + 1].entered
        /\ history[d][i].entered <= history[d][i].left

\* last_activity_at is never older than the entry into any of its stages:
\* every handler that changes the stage logs an activity, and
\* touch_deal_last_activity keeps the greater date.
ActivityCoversHistory ==
    \A d \in Deals : \A i \in DOMAIN history[d] :
        history[d][i].entered <= deals[d].lastActivity

\* last_activity_at never goes back, even when an older transaction commits
\* after a younger one (GREATEST in touch_deal_last_activity).
LastActivityMonotone ==
    [][\A d \in Deals : Exists(d) => deals'[d].lastActivity >= deals[d].lastActivity]_vars

\* deal_stage_history is the append-only, time-ordered trail of StageTrail.
VisitsOf(h) == [i \in DOMAIN h |-> [stage |-> h[i].stage, entered |-> h[i].entered]]

Visits == [d \in Deals |-> VisitsOf(history[d])]

Trail == INSTANCE StageTrail WITH Times <- 1 .. MaxTx, trail <- Visits

StageTrailKept == Trail!Spec

-----------------------------------------------------------------------------
(* Outcome of a deal *)

\* won_at and lost_at say what the status says: a won deal has won_at, no
\* lost_at and is in the won-stage; a lost one has lost_at and no won_at.
OutcomeMatchesStatus ==
    \A d \in Deals :
        /\ deals[d].wonAt # 0 <=> deals[d].status = "won"
        /\ deals[d].lostAt # 0 <=> deals[d].status = "lost"
        /\ deals[d].status = "won" => deals[d].stage = WonStage

\* "won/lost deals are locked (admin reopen is the only way back)": no step
\* changes the status, the stage or the dates of a closed deal but one that
\* opens it.
LockedUntilReopen ==
    [][\A d \in Deals :
          deals[d].status \in Closed =>
             \/ deals'[d].status = "open" /\ deals'[d].stage = deals[d].stage
             \/ /\ deals'[d].status = deals[d].status
                /\ deals'[d].stage = deals[d].stage
                /\ deals'[d].wonAt = deals[d].wonAt
                /\ deals'[d].lostAt = deals[d].lostAt]_vars

\* A deal that enters a stage, by a move, by winning or by being created past
\* the first one, has every field the stage requires
\* (ensure_stage_requirements).
GateOnEntry ==
    [][\A d \in Deals :
          LET s == deals'[d].stage
          IN deals[d].stage # s /\ (Exists(d) \/ s # FirstStage)
                => Required[s] \subseteq deals'[d].enrollment]_vars

\* The promise of app/services/deals.py about status and stage.
Promise == INSTANCE DealPromise WITH
              status <- [d \in Deals |-> IF deals[d].deleted THEN "deleted"
                                         ELSE deals[d].status],
              stage <- [d \in Deals |-> deals[d].stage]

PromiseKept == Promise!Spec

-----------------------------------------------------------------------------
(* Partial updates, ownership and first contact *)

\* A merging PATCH leaves every enrollment key absent from its body as it is
\* in the table ("keys absent from the payload are preserved").
AbsentKeysPreserved ==
    [][\A w \in Workers :
          LET d == tx[w].deal
          IN tx[w].phase = "loaded" /\ deals'[d].enrollment # deals[d].enrollment =>
                \A p \in Patches : p.mode = "merge" /\ UpdateDeal(w, p) =>
                   LET sent == p.set \cup p.cleared
                   IN deals'[d].enrollment \ sent = deals[d].enrollment \ sent]_vars

\* A claim succeeds only on a deal that still has no owner when it commits
\* (409 deal_already_owned otherwise), and leaves the deal's open tasks with
\* somebody.
ClaimTakesFromQueue ==
    [][\A w \in Workers :
          FinishTakeOver(w) /\ tx[w].row.owner = None =>
             LET d == tx[w].deal
             IN /\ deals[d].owner = None
                /\ \A t \in Tasks : tasks'[t].deal = d /\ tasks'[t].state = "todo"
                                      => tasks'[t].assignee # None]_vars

\* first_whatsapp_contact_at is write-once: once set, only the admin's
\* correction changes it, whatever requests overlap.
FirstContactWriteOnce ==
    [][\A d \in Deals :
          deals[d].firstContact # 0 /\ deals'[d].firstContact # deals[d].firstContact =>
             \E w \in Workers : tx[w].deal = d /\ CorrectFirstContact(w)]_vars

-----------------------------------------------------------------------------
(* Cycles and win-back *)

\* Exactly one cycle is active, whatever activations overlap.
OneActiveCycle == \E c \in Cycles : \A b \in Cycles : IsActive(b) <=> b = c

\* Changing the cycle of a deal is for open deals: "the source's won/lost
\* deals stay put" (rollover).
RolloverMovesOpenDeals ==
    [][\A d \in Deals : Exists(d) /\ deals'[d].cycle # deals[d].cycle =>
          deals[d].status = "open" /\ ~deals[d].deleted]_vars

\* A lost deal is rescued at most once: a second call "must NOT mint a second
\* deal for the same contact".
RescuedOnce == \A d \in Deals : Cardinality(rescues[d]) <= 1
=============================================================================
