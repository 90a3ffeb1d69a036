---------------------------- MODULE SerialProofs -----------------------------
(***************************************************************************)
(* The outcome of a deal when requests are served one after the other: the *)
(* row a session loaded is then the row of the table, and the rules at the *)
(* head of app/services/deals.py hold.  The runs of Deals with two workers *)
(* show that they do not without that assumption.                          *)
(***************************************************************************)
EXTENDS ContactProofs, FiniteSetTheorems

Serial == \A v, w \in Workers : v = w

\* What a session read is what the table holds, and it is not deleted; what a
\* new owner is about to be written with differs in owner and enrollment only.
FreshRow(w) == tx[w].row = deals[tx[w].deal] /\ ~tx[w].row.deleted

SameOutcome(r, s) ==
    /\ r.status = s.status /\ r.stage = s.stage
    /\ r.wonAt = s.wonAt /\ r.lostAt = s.lostAt /\ r.deleted = s.deleted

Fresh == \A w \in Workers :
            /\ tx[w].phase \in Holding => FreshRow(w)
            /\ tx[w].phase = "owning" => SameOutcome(tx[w].assigned, tx[w].row)

LEMMA FreshKeptHere ==
    ASSUME Inv, Fresh, NEW w \in Workers, deals' = deals,
           tx[w].phase \in Holding, tx'[w].deal = tx[w].deal, tx'[w].row = tx[w].row
    PROVE  FreshRow(w)'
BY DEF Fresh, FreshRow

LEMMA TakenOver ==
    ASSUME Inv, NEW w \in Workers, tx[w].phase = "loaded",
           Claim(w) \/ \E p \in Patches : ChangeOwner(w, p)
    PROVE  /\ tx'[w].deal = tx[w].deal /\ tx'[w].row = tx[w].row /\ deals' = deals
           /\ SameOutcome(tx'[w].assigned, tx'[w].row)
<1> tx \in [Workers -> Session] /\ tx[w].row \in Row
  BY DEF Inv, TypeOK, Session
<1>1. ASSUME NEW a, TakeOver(w, a)
      PROVE  /\ tx'[w].deal = tx[w].deal /\ tx'[w].row = tx[w].row
             /\ deals' = deals /\ tx'[w].assigned = a
  BY <1>1 DEF TakeOver, tables, Session
<1>2. CASE Claim(w)
  <2>1. TakeOver(w, [tx[w].row EXCEPT !.owner = tx[w].user])
    BY <1>2 DEF Claim
  <2>2. SameOutcome([tx[w].row EXCEPT !.owner = tx[w].user], tx[w].row)
    BY DEF SameOutcome, Row
  <2> QED
    BY <1>1, <2>1, <2>2
<1>3. ASSUME NEW p \in Patches, ChangeOwner(w, p)
      PROVE  /\ tx'[w].deal = tx[w].deal /\ tx'[w].row = tx[w].row /\ deals' = deals
             /\ SameOutcome(tx'[w].assigned, tx'[w].row)
  <2>1. PICK u \in Users : TakeOver(w, [Patched(tx[w].row, p) EXCEPT !.owner = u])
    BY <1>3 DEF ChangeOwner
  <2>2. SameOutcome([Patched(tx[w].row, p) EXCEPT !.owner = u], tx[w].row)
    BY DEF SameOutcome, Row, Patched
  <2> QED
    BY <1>1, <2>1, <2>2
<1> QED
  BY <1>2, <1>3

LEMMA FreshStep ==
    ASSUME Serial, Inv, Fresh, [Next]_vars
    PROVE  Fresh'
<1> DEFINE At(v) == /\ tx'[v].phase \in Holding => FreshRow(v)'
                    /\ tx'[v].phase = "owning" => SameOutcome(tx'[v].assigned, tx'[v].row)
<1> SUFFICES ASSUME NEW v \in Workers
             PROVE  At(v)
  BY DEF Fresh
<1>1. CASE UNCHANGED vars
  BY <1>1 DEF vars, tables, Fresh, FreshRow
<1>2. CASE Next
  <2> PICK w \in Workers :
        \/ Begin(w) \/ Load(w) \/ Abort(w)
        \/ LifecycleStep(w) \/ OwnershipStep(w) \/ ContactStep(w) \/ CyclesStep(w)
    BY <1>2 DEF Next
  <2> v = w /\ tx \in [Workers -> Session] /\ tx[w] \in Session
    BY DEF Serial, Inv, TypeOK
  <2>1. CASE tx' = [tx EXCEPT ![w] = Idle]
    BY <2>1 DEF Idle, Holding
  <2>2. CASE Begin(w)
    <3>1. tx'[w] = [Idle EXCEPT !.phase = "begun", !.start = clock + 1]
      BY <2>2 DEF Begin
    <3>2. tx'[w].phase = "begun"
      BY <3>1 DEF Idle
    <3> QED
      BY <3>2 DEF Holding
  <2>3. CASE Load(w)
    <3>1. PICK u \in Users, d \in Deals :
             /\ Visible(u, deals[d])
             /\ tx' = [tx EXCEPT ![w].phase = "loaded", ![w].user = u,
                                 ![w].deal = d, ![w].row = deals[d]]
      BY <2>3 DEF Load
    <3>2. /\ tx'[w].deal = d /\ tx'[w].row = deals[d] /\ deals' = deals
          /\ tx'[w].phase = "loaded"
      BY <2>3, <3>1 DEF Load, tables, Session
    <3> QED
      BY <3>1, <3>2 DEF Visible, FreshRow
  <2>4. CASE LoadTask(w)
    <3>1. PICK u \in Users, t \in Tasks :
             /\ Visible(u, deals[tasks[t].deal])
             /\ tx' = [tx EXCEPT ![w].phase = "task", ![w].user = u,
                                 ![w].deal = tasks[t].deal, ![w].row = deals[tasks[t].deal],
                                 ![w].task = t, ![w].taskRow = tasks[t]]
      BY <2>4 DEF LoadTask
    <3>2. /\ tx'[w].deal = tasks[t].deal /\ tx'[w].row = deals[tasks[t].deal]
          /\ deals' = deals /\ tx'[w].phase = "task"
      BY <2>4, <3>1 DEF LoadTask, tables, Session
    <3> QED
      BY <3>1, <3>2 DEF Visible, FreshRow
  <2>5. CASE Claim(w) \/ \E p \in Patches : ChangeOwner(w, p)
    <3>1. tx[w].phase = "loaded"
      BY <2>5 DEF Claim, ChangeOwner
    <3> QED
      BY <2>5, <3>1, FreshKeptHere, TakenOver DEF Holding
  <2>6. CASE StartRescue(w)
    <3>1. tx[w].phase = "loaded"
      BY <2>6 DEF StartRescue, MayEdit
    <3>2. /\ tx'[w].deal = tx[w].deal /\ tx'[w].row = tx[w].row /\ deals' = deals
          /\ tx'[w].phase = "rescuing"
      BY <2>6 DEF StartRescue, tables, Session
    <3> QED
      BY <3>1, <3>2, FreshKeptHere DEF Holding
  <2>7. CASE StartCapture(w) \/ StartActivate(w) \/ StartRollover(w)
    <3>1. CASE StartCapture(w)
      <4>1. PICK c \in Cycles :
               tx' = [tx EXCEPT ![w].phase = "capturing", ![w].cycle = c]
        BY <3>1 DEF StartCapture
      <4>2. tx'[w].phase = "capturing"
        BY <4>1 DEF Session
      <4> QED
        BY <4>2 DEF Holding
    <3>2. CASE StartActivate(w)
      <4>1. PICK c \in Cycles :
               tx' = [tx EXCEPT ![w].phase = "activating", ![w].cycle = c,
                                ![w].cycleSet = {a \in Cycles : IsActive(a)}]
        BY <3>2 DEF StartActivate
      <4>2. tx'[w].phase = "activating"
        BY <4>1 DEF Session
      <4> QED
        BY <4>2 DEF Holding
    <3>3. CASE StartRollover(w)
      <4>1. PICK a, c \in Cycles :
               tx' = [tx EXCEPT ![w].phase = "rolling", ![w].cycle = a,
                                ![w].dealSet = OpenDealsOf(c)]
        BY <3>3 DEF StartRollover
      <4>2. tx'[w].phase = "rolling"
        BY <4>1 DEF Session
      <4> QED
        BY <4>2 DEF Holding
    <3> QED
      BY <2>7, <3>1, <3>2, <3>3
  <2>8. CASE LifecycleStep(w)
    BY <2>1, <2>7, <2>8
    DEF LifecycleStep, CreateDeal, FinishCapture, MoveStage, MarkWon, MarkLost,
        Reopen, DeleteDeal, Finish
  <2>9. CASE OwnershipStep(w)
    BY <2>1, <2>4, <2>5, <2>9
    DEF OwnershipStep, UpdateDeal, FinishTakeOver, CreateTask, UpdateTask, DeleteTask, Finish
  <2>10. CASE ContactStep(w)
    BY <2>1, <2>10
    DEF ContactStep, RegisterFirstContact, CorrectFirstContact, QuickLog, AddNote, Finish
  <2>11. CASE CyclesStep(w)
    BY <2>1, <2>6, <2>7, <2>11
    DEF CyclesStep, FinishActivate, FinishRollover, FinishRescue, Finish
  <2> QED
    BY <2>1, <2>2, <2>3, <2>8, <2>9, <2>10, <2>11 DEF Abort
<1> QED
  BY <1>1, <1>2

-----------------------------------------------------------------------------
(* What a step does to the outcome of one deal *)

Kept(d) == SameOutcome(deals'[d], deals[d])

LiveOpen(d) == deals[d].status = "open" /\ ~deals[d].deleted

Gated(d) == MeetsRequirements(deals'[d].enrollment, deals'[d].stage)

IsBorn(d) ==
    /\ ~Exists(d)
    /\ deals'[d].status = "open" /\ ~deals'[d].deleted
    /\ deals'[d].wonAt = 0 /\ deals'[d].lostAt = 0
    /\ deals'[d].stage \in Stages
    /\ deals'[d].stage = FirstStage \/ (deals'[d].stage # WonStage /\ Gated(d))

IsMove(d) ==
    /\ LiveOpen(d)
    /\ deals'[d].status = "open" /\ ~deals'[d].deleted
    /\ deals'[d].wonAt = deals[d].wonAt /\ deals'[d].lostAt = deals[d].lostAt
    /\ deals'[d].stage \in Stages \ {WonStage}
    /\ Gated(d)

IsWin(d) ==
    /\ LiveOpen(d)
    /\ deals'[d].status = "won" /\ ~deals'[d].deleted
    /\ deals'[d].wonAt # 0 /\ deals'[d].lostAt = deals[d].lostAt
    /\ deals'[d].stage = WonStage
    /\ Gated(d)

IsLoss(d) ==
    /\ LiveOpen(d)
    /\ deals'[d].status = "lost" /\ ~deals'[d].deleted
    /\ deals'[d].lostAt # 0 /\ deals'[d].wonAt = deals[d].wonAt
    /\ deals'[d].stage = deals[d].stage

IsReopening(d) ==
    /\ deals[d].status \in Closed /\ ~deals[d].deleted
    /\ deals'[d].status = "open" /\ ~deals'[d].deleted
    /\ deals'[d].wonAt = 0 /\ deals'[d].lostAt = 0
    /\ deals'[d].stage = deals[d].stage

IsDeletion(d) ==
    /\ Exists(d) /\ ~deals[d].deleted
    /\ deals'[d].status = deals[d].status /\ deals'[d].stage = deals[d].stage
    /\ deals'[d].wonAt = deals[d].wonAt /\ deals'[d].lostAt = deals[d].lostAt
    /\ deals'[d].deleted

Turn(d) ==
    /\ IsBorn(d) \/ IsMove(d) \/ IsWin(d) \/ IsLoss(d) \/ IsReopening(d) \/ IsDeletion(d)
    /\ \A e \in Deals \ {d} : Kept(e)

OutcomeStep == (\A d \in Deals : Kept(d)) \/ \E d \in Deals : Turn(d)

\* The loaded row being the row of the table, an UPDATE installs what the
\* handler assigned.
LEMMA FreshUpdate ==
    ASSUME Inv, Fresh, NEW w \in Workers, tx[w].phase \in Holding,
           NEW assigned, Assignable(assigned), NEW logs \in BOOLEAN,
           Update(w, assigned, logs)
    PROVE  LET d == tx[w].deal
           IN /\ d \in Deals /\ Exists(d) /\ deals[d] = tx[w].row /\ ~deals[d].deleted
              /\ SameOutcome(deals'[d], assigned)
              /\ deals'[d].enrollment = assigned.enrollment
              /\ \A e \in Deals \ {d} : Kept(e)
<1> DEFINE d == tx[w].deal
           new == Flush(deals[d], tx[w].row, assigned)
<1>1. /\ d \in Deals /\ deals[d] \in Row /\ new \in Row
      /\ deals'[d] \in {new, Touch(new, tx[w].start)}
      /\ Touch(new, tx[w].start) = [new EXCEPT !.lastActivity = Later(new.lastActivity, tx[w].start)]
      /\ \A v \in Deals \ {d} : deals'[v] = deals[v]
  BY UpdateOne DEF Assignable
<1>2. deals[d] = tx[w].row /\ ~deals[d].deleted
  BY DEF Fresh, FreshRow
<1>3. Exists(d)
  BY DEF Inv, SessionOK
<1>4. SameOutcome(new, assigned) /\ new.enrollment = assigned.enrollment
  BY <1>1, <1>2 DEF Flush, Column, SameOutcome
<1> HIDE DEF d, new
<1>5. SameOutcome(deals'[d], new) /\ deals'[d].enrollment = new.enrollment
  BY <1>1 DEF Row, SameOutcome
<1>6. SameOutcome(deals'[d], assigned) /\ deals'[d].enrollment = assigned.enrollment
  BY <1>4, <1>5 DEF SameOutcome
<1>7. \A e \in Deals \ {d} : Kept(e)
  BY <1>1 DEF Kept, SameOutcome
<1> QED
  BY <1>1, <1>2, <1>3, <1>6, <1>7 DEF d

\* A write that leaves the outcome of the loaded row alone.
LEMMA QuietUpdate ==
    ASSUME Inv, Fresh, NEW w \in Workers, tx[w].phase \in Holding,
           NEW assigned, Assignable(assigned), SameOutcome(assigned, tx[w].row),
           NEW logs \in BOOLEAN, Update(w, assigned, logs)
    PROVE  OutcomeStep
<1>1. /\ tx[w].deal \in Deals /\ SameOutcome(deals'[tx[w].deal], deals[tx[w].deal])
      /\ \A e \in Deals \ {tx[w].deal} : Kept(e)
  BY FreshUpdate DEF SameOutcome
<1> QED
  BY <1>1 DEF OutcomeStep, Kept

LEMMA InsertTurn ==
    ASSUME Inv, NEW w \in Workers, NEW d \in Deals, NEW s \in Stages,
           NEW o \in Users \cup {None}, NEW c \in Cycles \cup {None}, NEW e \in SUBSET Keys,
           Insert(w, d, NewDeal(s, o, c, e)),
           s = FirstStage \/ (s # WonStage /\ MeetsRequirements(e, s))
    PROVE  OutcomeStep
<1> DEFINE row == NewDeal(s, o, c, e)
<1>1. /\ row \in Row /\ row.status = "open" /\ row.stage = s /\ ~row.deleted
      /\ row.wonAt = 0 /\ row.lostAt = 0 /\ row.enrollment = e
  BY DEF NewDeal, NoDeal, Row
<1> HIDE DEF row
<1>2. /\ ~Exists(d) /\ deals'[d] = [row EXCEPT !.lastActivity = tx[w].start]
      /\ \A v \in Deals \ {d} : deals'[v] = deals[v]
  BY DEF Insert, row, Inv, TypeOK
<1>3. IsBorn(d)
  BY <1>1, <1>2 DEF IsBorn, Gated, Row
<1>4. \A v \in Deals \ {d} : Kept(v)
  BY <1>2 DEF Kept, SameOutcome
<1> QED
  BY <1>3, <1>4 DEF OutcomeStep, Turn

LEMMA AssignedOutcome ==
    ASSUME NEW row \in Row, NEW t \in Nat
    PROVE  /\ SameOutcome(Contacted(row, t), row)
           /\ SameOutcome([row EXCEPT !.firstContact = t], row)
           /\ \A p \in Patches : SameOutcome(Patched(row, p), row)
BY DEF SameOutcome, Contacted, Patched, Row

LEMMA LifecycleTurn ==
    ASSUME Inv, Fresh, NEW w \in Workers, LifecycleStep(w)
    PROVE  OutcomeStep
<1> DEFINE r == tx[w].row
           t == tx[w].start
           d == tx[w].deal
<1> t \in Nat /\ r \in Row
  BY DEF Inv, TypeOK, Session
<1>1. CASE CreateDeal(w)
  BY <1>1, InsertTurn DEF CreateDeal
<1>2. CASE StartCapture(w)
  BY <1>2 DEF StartCapture, tables, OutcomeStep, Kept, SameOutcome
<1>3. CASE FinishCapture(w)
  <2>1. PICK e \in Deals, k \in {{}} \cup {{x} : x \in Keys} :
             Insert(w, e, NewDeal(FirstStage, None, tx[w].cycle, k))
    BY <1>3 DEF FinishCapture
  <2>2. tx[w].cycle \in Cycles \cup {None} /\ k \in SUBSET Keys /\ FirstStage \in Stages
    BY PipelineAssumption DEF Inv, TypeOK, Session
  <2> QED
    BY <2>1, <2>2, InsertTurn
<1>4. ASSUME NEW assigned, Assignable(assigned), NEW logs \in BOOLEAN,
             tx[w].phase \in Holding, Save(w, assigned, logs)
      PROVE  /\ d \in Deals /\ Exists(d) /\ deals[d] = r /\ ~deals[d].deleted
             /\ SameOutcome(deals'[d], assigned)
             /\ deals'[d].enrollment = assigned.enrollment
             /\ \A e \in Deals \ {d} : Kept(e)
  BY <1>4, FreshUpdate DEF Save
<1>5. CASE MoveStage(w)
  <2>1. tx[w].phase \in Holding /\ r.status = "open"
    BY <1>5 DEF MoveStage, MayTransition, MayEdit, Holding
  <2>2. PICK s \in Stages \ {WonStage, r.stage} :
          MeetsRequirements(r.enrollment, s) /\ Save(w, [r EXCEPT !.stage = s], TRUE)
    BY <1>5 DEF MoveStage
  <2>3. Assignable([r EXCEPT !.stage = s])
    BY <2>1, LoadedRow, AssignedRows
  <2>4. /\ [r EXCEPT !.stage = s].stage = s
        /\ [r EXCEPT !.stage = s].enrollment = r.enrollment
        /\ [r EXCEPT !.stage = s].status = r.status
        /\ [r EXCEPT !.stage = s].wonAt = r.wonAt
        /\ [r EXCEPT !.stage = s].lostAt = r.lostAt
        /\ [r EXCEPT !.stage = s].deleted = r.deleted
    BY DEF Row
  <2>5. Turn(d) /\ d \in Deals
    BY <1>4, <2>1, <2>2, <2>3, <2>4 DEF Turn, IsMove, LiveOpen, Gated, SameOutcome
  <2> QED
    BY <2>5 DEF OutcomeStep
<1>6. CASE MarkWon(w)
  <2>1. tx[w].phase \in Holding /\ r.status = "open"
        /\ MeetsRequirements(r.enrollment, WonStage) /\ Save(w, Won(r, t), TRUE)
    BY <1>6 DEF MarkWon, MayTransition, MayEdit, Holding
  <2>2. Assignable(Won(r, t)) /\ t # 0
    BY <2>1, LoadedRow, AssignedRows
  <2>3. /\ Won(r, t).status = "won" /\ Won(r, t).stage = WonStage /\ Won(r, t).wonAt = t
        /\ Won(r, t).lostAt = r.lostAt /\ Won(r, t).deleted = r.deleted
        /\ Won(r, t).enrollment = r.enrollment
    BY DEF Row, Won
  <2>4. Turn(d) /\ d \in Deals
    BY <1>4, <2>1, <2>2, <2>3 DEF Turn, IsWin, LiveOpen, Gated, SameOutcome
  <2> QED
    BY <2>4 DEF OutcomeStep
<1>7. CASE MarkLost(w)
  <2>1. tx[w].phase \in Holding /\ r.status = "open" /\ Save(w, Lost(r, t), TRUE)
    BY <1>7 DEF MarkLost, MayTransition, MayEdit, Holding
  <2>2. Assignable(Lost(r, t)) /\ t # 0
    BY <2>1, LoadedRow, AssignedRows
  <2>3. /\ Lost(r, t).status = "lost" /\ Lost(r, t).stage = r.stage /\ Lost(r, t).lostAt = t
        /\ Lost(r, t).wonAt = r.wonAt /\ Lost(r, t).deleted = r.deleted
    BY DEF Row, Lost
  <2>4. Turn(d) /\ d \in Deals
    BY <1>4, <2>1, <2>2, <2>3 DEF Turn, IsLoss, LiveOpen, SameOutcome
  <2> QED
    BY <2>4 DEF OutcomeStep
<1>8. CASE Reopen(w)
  <2>1. tx[w].phase \in Holding /\ r.status \in Closed /\ Save(w, Reopened(r), TRUE)
    BY <1>8 DEF Reopen, Holding
  <2>2. Assignable(Reopened(r))
    BY <2>1, LoadedRow, AssignedRows
  <2>3. /\ Reopened(r).status = "open" /\ Reopened(r).stage = r.stage
        /\ Reopened(r).wonAt = 0 /\ Reopened(r).lostAt = 0 /\ Reopened(r).deleted = r.deleted
    BY DEF Row, Reopened
  <2>4. Turn(d) /\ d \in Deals
    BY <1>4, <2>1, <2>2, <2>3 DEF Turn, IsReopening, SameOutcome
  <2> QED
    BY <2>4 DEF OutcomeStep
<1>9. CASE DeleteDeal(w)
  <2>1. tx[w].phase \in Holding /\ Save(w, [r EXCEPT !.deleted = TRUE], FALSE)
    BY <1>9 DEF DeleteDeal, Holding
  <2>2. Assignable([r EXCEPT !.deleted = TRUE])
    BY <2>1, LoadedRow, AssignedRows
  <2>3. /\ [r EXCEPT !.deleted = TRUE].status = r.status
        /\ [r EXCEPT !.deleted = TRUE].stage = r.stage
        /\ [r EXCEPT !.deleted = TRUE].wonAt = r.wonAt
        /\ [r EXCEPT !.deleted = TRUE].lostAt = r.lostAt
        /\ [r EXCEPT !.deleted = TRUE].deleted = TRUE
    BY DEF Row
  <2>4. Turn(d) /\ d \in Deals
    BY <1>4, <2>1, <2>2, <2>3 DEF Turn, IsDeletion, SameOutcome
  <2> QED
    BY <2>4 DEF OutcomeStep
<1> QED
  BY <1>1, <1>2, <1>3, <1>5, <1>6, <1>7, <1>8, <1>9 DEF LifecycleStep

LEMMA OwnershipTurn ==
    ASSUME Inv, Fresh, NEW w \in Workers, OwnershipStep(w)
    PROVE  OutcomeStep
<1> tx[w].start \in Nat /\ tx[w].row \in Row /\ SameOutcome(tx[w].row, tx[w].row)
  BY DEF Inv, TypeOK, Session, SameOutcome
<1>1. CASE deals' = deals
  BY <1>1 DEF OutcomeStep, Kept, SameOutcome
<1>2. ASSUME tx[w].phase \in Holding, Save(w, tx[w].row, TRUE)
      PROVE  OutcomeStep
  BY <1>2, LoadedRow, QuietUpdate DEF Save
<1>3. CASE \E p \in Patches : UpdateDeal(w, p)
  <2>1. PICK p \in Patches : UpdateDeal(w, p)
    BY <1>3
  <2>2. tx[w].phase \in Holding /\ Save(w, Patched(tx[w].row, p), FALSE)
    BY <2>1 DEF UpdateDeal, MayEdit, Holding
  <2>3. Assignable(Patched(tx[w].row, p)) /\ SameOutcome(Patched(tx[w].row, p), tx[w].row)
    BY <2>2, LoadedRow, AssignedRows, AssignedOutcome
  <2> QED
    BY <2>2, <2>3, QuietUpdate DEF Save
<1>4. CASE FinishTakeOver(w)
  <2>1. tx[w].phase = "owning" /\ tx[w].phase \in Holding /\ Save(w, tx[w].assigned, TRUE)
    BY <1>4 DEF FinishTakeOver, Holding
  <2>2. Assignable(tx[w].assigned)
    BY <2>1 DEF Inv, TypeOK, Session, SessionOK, Assignable
  <2>3. SameOutcome(tx[w].assigned, tx[w].row)
    BY <2>1 DEF Fresh
  <2> QED
    BY <2>1, <2>2, <2>3, QuietUpdate DEF Save
<1>5. CASE CreateTask(w)
  BY <1>2, <1>5 DEF CreateTask, MayEdit, Holding
<1>6. CASE UpdateTask(w)
  BY <1>1, <1>2, <1>6 DEF UpdateTask, Holding
<1>7. CASE Claim(w) \/ (\E p \in Patches : ChangeOwner(w, p)) \/ LoadTask(w) \/ DeleteTask(w)
  BY <1>1, <1>7 DEF Claim, ChangeOwner, TakeOver, LoadTask, DeleteTask, tables
<1> QED
  BY <1>3, <1>4, <1>5, <1>6, <1>7 DEF OwnershipStep

LEMMA ContactTurn ==
    ASSUME Inv, Fresh, NEW w \in Workers, ContactStep(w)
    PROVE  OutcomeStep
<1> DEFINE r == tx[w].row
           t == tx[w].start
<1> t \in Nat /\ r \in Row
  BY DEF Inv, TypeOK, Session
<1>1. tx[w].phase \in Holding
  BY DEF ContactStep, RegisterFirstContact, CorrectFirstContact, QuickLog, AddNote,
         MayTransition, MayEdit, Holding
<1>2. /\ Assignable(r) /\ SameOutcome(r, r)
      /\ Assignable(Contacted(r, t)) /\ SameOutcome(Contacted(r, t), r)
      /\ Assignable([r EXCEPT !.firstContact = t])
      /\ SameOutcome([r EXCEPT !.firstContact = t], r)
  BY <1>1, LoadedRow, AssignedRows, AssignedOutcome DEF SameOutcome
<1>3. \/ Update(w, r, TRUE)
      \/ Update(w, Contacted(r, t), TRUE)
      \/ Update(w, [r EXCEPT !.firstContact = t], TRUE)
  BY DEF ContactStep, RegisterFirstContact, CorrectFirstContact, QuickLog, AddNote, Save
<1> QED
  BY <1>1, <1>2, <1>3, QuietUpdate

LEMMA CyclesTurn ==
    ASSUME Inv, Fresh, NEW w \in Workers, CyclesStep(w)
    PROVE  OutcomeStep
<1>1. CASE StartActivate(w) \/ FinishActivate(w) \/ StartRollover(w) \/ StartRescue(w)
  BY <1>1 DEF StartActivate, FinishActivate, StartRollover, StartRescue, tables,
              OutcomeStep, Kept, SameOutcome
<1>2. CASE FinishRollover(w)
  <2> SUFFICES ASSUME NEW e \in Deals
               PROVE  Kept(e)
    BY DEF OutcomeStep
  <2>1. /\ deals[e] \in Row /\ tx[w].start \in Nat
        /\ deals'[e] = IF e \in tx[w].dealSet
                       THEN Touch([deals[e] EXCEPT !.cycle = tx[w].cycle], tx[w].start)
                       ELSE deals[e]
    BY <1>2 DEF FinishRollover, Inv, TypeOK, Session
  <2>2. SameOutcome(Touch([deals[e] EXCEPT !.cycle = tx[w].cycle], tx[w].start), deals[e])
    BY <2>1 DEF Touch, Row, SameOutcome
  <2> QED
    BY <2>1, <2>2 DEF Kept, SameOutcome
<1>3. CASE FinishRescue(w)
  <2> DEFINE old == tx[w].deal
             t == tx[w].start
             new == NewDeal(FirstStage, tx[w].user, tx[w].cycle,
                            tx[w].row.enrollment \cap CarriedKeys)
             born == [new EXCEPT !.lastActivity = t]
  <2>1. PICK d \in Deals :
           ~Exists(d) /\ deals' = [deals EXCEPT ![d] = born, ![old] = Touch(@, t)]
    BY <1>3 DEF FinishRescue
  <2>2. old \in Deals /\ Exists(old) /\ deals[old] \in Row /\ t \in Nat
    BY <1>3 DEF FinishRescue, Inv, TypeOK, SessionOK, Session, Holding
  <2>3. d # old
    BY <2>1, <2>2
  <2>4. /\ born.status = "open" /\ ~born.deleted /\ born.wonAt = 0 /\ born.lostAt = 0
        /\ born.stage = FirstStage
    BY DEF NewDeal, NoDeal
  <2> HIDE DEF old, t, born
  <2>5. /\ deals'[d] = born /\ deals'[old] = Touch(deals[old], t)
        /\ \A e \in Deals \ {d, old} : deals'[e] = deals[e]
    BY <2>1, <2>2, <2>3 DEF Inv, TypeOK
  <2>6. SameOutcome(Touch(deals[old], t), deals[old])
    BY <2>2 DEF Touch, Row, SameOutcome
  <2>7. IsBorn(d)
    BY <2>1, <2>4, <2>5, PipelineAssumption DEF IsBorn
  <2>8. \A e \in Deals \ {d} : Kept(e)
    BY <2>5, <2>6 DEF Kept, SameOutcome
  <2> QED
    BY <2>7, <2>8 DEF OutcomeStep, Turn
<1> QED
  BY <1>1, <1>2, <1>3 DEF CyclesStep

LEMMA EveryOutcome ==
    ASSUME Inv, Fresh, [Next]_vars
    PROVE  OutcomeStep
<1>1. CASE deals' = deals
  BY <1>1 DEF OutcomeStep, Kept, SameOutcome
<1>2. CASE UNCHANGED vars
  BY <1>1, <1>2 DEF vars, tables
<1>3. CASE Next
  <2>1. PICK w \in Workers :
          \/ Begin(w) \/ Load(w) \/ Abort(w)
          \/ LifecycleStep(w) \/ OwnershipStep(w) \/ ContactStep(w) \/ CyclesStep(w)
    BY <1>3 DEF Next
  <2>2. CASE Begin(w) \/ Load(w) \/ Abort(w)
    BY <1>1, <2>2 DEF Begin, Load, Abort, tables
  <2> QED
    BY <2>1, <2>2, LifecycleTurn, OwnershipTurn, ContactTurn, CyclesTurn
<1> QED
  BY <1>2, <1>3

-----------------------------------------------------------------------------
(* The theorems *)

\* A deal not inserted yet is not deleted either.
AbsentLive == \A d \in Deals : ~Exists(d) => ~deals[d].deleted

SerialInv == Inv /\ Fresh /\ OutcomeMatchesStatus /\ AbsentLive

LEMMA OutcomeKept ==
    ASSUME Inv, OutcomeMatchesStatus, OutcomeStep
    PROVE  OutcomeMatchesStatus'
<1> SUFFICES ASSUME NEW d \in Deals
             PROVE  /\ deals'[d].wonAt # 0 <=> deals'[d].status = "won"
                    /\ deals'[d].lostAt # 0 <=> deals'[d].status = "lost"
                    /\ deals'[d].status = "won" => deals'[d].stage = WonStage
  BY DEF OutcomeMatchesStatus
<1>1. /\ deals[d].wonAt # 0 <=> deals[d].status = "won"
      /\ deals[d].lostAt # 0 <=> deals[d].status = "lost"
      /\ deals[d].status = "won" => deals[d].stage = WonStage
  BY DEF OutcomeMatchesStatus
<1>2. CASE Kept(d)
  BY <1>1, <1>2 DEF Kept, SameOutcome
<1>3. CASE ~Kept(d)
  <2>1. IsBorn(d) \/ IsMove(d) \/ IsWin(d) \/ IsLoss(d) \/ IsReopening(d) \/ IsDeletion(d)
    BY <1>3 DEF OutcomeStep, Turn
  <2> QED
    BY <1>1, <2>1 DEF IsBorn, IsMove, IsWin, IsLoss, IsReopening, IsDeletion, LiveOpen
<1> QED
  BY <1>2, <1>3

LEMMA AbsentLiveKept ==
    ASSUME AbsentLive, OutcomeStep
    PROVE  AbsentLive'
<1> SUFFICES ASSUME NEW d \in Deals, deals'[d].status = "absent"
             PROVE  ~deals'[d].deleted
  BY DEF AbsentLive, Exists
<1>1. CASE Kept(d)
  BY <1>1 DEF Kept, SameOutcome, AbsentLive, Exists
<1>2. CASE ~Kept(d)
  BY <1>2 DEF OutcomeStep, Turn, IsBorn, IsMove, IsWin, IsLoss, IsReopening, IsDeletion,
              LiveOpen, Exists
<1> QED
  BY <1>1, <1>2

LEMMA SerialInvHolds ==
    ASSUME Serial
    PROVE  Spec => []SerialInv
<1>1. Init => Fresh /\ OutcomeMatchesStatus /\ AbsentLive
  BY DEF Init, Fresh, OutcomeMatchesStatus, AbsentLive, NoDeal, Idle, Holding
<1>2. Inv /\ Fresh /\ OutcomeMatchesStatus /\ AbsentLive /\ [Next]_vars
        => Fresh' /\ OutcomeMatchesStatus' /\ AbsentLive'
  BY FreshStep, EveryOutcome, OutcomeKept, AbsentLiveKept
<1> QED
  BY <1>1, <1>2, InvHolds, PTL DEF Spec, SerialInv

\* With requests served one after the other, won_at, lost_at and the won-stage
\* say what the status says (mark_won, mark_lost, reopen).
THEOREM SerialOutcome ==
    ASSUME Serial
    PROVE  Spec => []OutcomeMatchesStatus
<1>1. SerialInv => OutcomeMatchesStatus
  BY DEF SerialInv
<1> QED
  BY <1>1, SerialInvHolds, PTL

\* With requests served one after the other, a closed deal stays as it is until
\* it is reopened (_ensure_open in every transition).
THEOREM SerialLocked ==
    ASSUME Serial
    PROVE  Spec => LockedUntilReopen
<1>1. SerialInv /\ [Next]_vars =>
        [\A d \in Deals :
            deals[d].status \in Closed =>
               \/ deals'[d].status = "open" /\ deals'[d].stage = deals[d].stage
               \/ /\ deals'[d].status = deals[d].status
                  /\ deals'[d].stage = deals[d].stage
                  /\ deals'[d].wonAt = deals[d].wonAt
                  /\ deals'[d].lostAt = deals[d].lostAt]_vars
  <2> SUFFICES ASSUME OutcomeStep, NEW d \in Deals, deals[d].status \in Closed
               PROVE  \/ deals'[d].status = "open" /\ deals'[d].stage = deals[d].stage
                      \/ /\ deals'[d].status = deals[d].status
                         /\ deals'[d].stage = deals[d].stage
                         /\ deals'[d].wonAt = deals[d].wonAt
                         /\ deals'[d].lostAt = deals[d].lostAt
    BY EveryOutcome DEF SerialInv
  <2>1. CASE Kept(d)
    BY <2>1 DEF Kept, SameOutcome
  <2>2. CASE ~Kept(d)
    BY <2>2 DEF OutcomeStep, Turn, IsBorn, IsMove, IsWin, IsLoss, IsReopening, IsDeletion,
                LiveOpen, Exists, Closed
  <2> QED
    BY <2>1, <2>2
<1> QED
  BY <1>1, SerialInvHolds, PTL DEF Spec, LockedUntilReopen

\* With requests served one after the other, no deal enters a stage without the
\* fields it requires, in every path (ensure_stage_requirements).
THEOREM SerialGate ==
    ASSUME Serial
    PROVE  Spec => GateOnEntry
<1>1. SerialInv /\ [Next]_vars =>
        [\A d \in Deals :
            LET s == deals'[d].stage
            IN deals[d].stage # s /\ (Exists(d) \/ s # FirstStage)
                  => Required[s] \subseteq deals'[d].enrollment]_vars
  <2> SUFFICES ASSUME OutcomeStep, NEW d \in Deals, deals[d].stage # deals'[d].stage,
                      Exists(d) \/ deals'[d].stage # FirstStage
               PROVE  Required[deals'[d].stage] \subseteq deals'[d].enrollment
    BY EveryOutcome DEF SerialInv
  <2>1. ~Kept(d)
    BY DEF Kept, SameOutcome
  <2> QED
    BY <2>1 DEF OutcomeStep, Turn, IsBorn, IsMove, IsWin, IsLoss, IsReopening, IsDeletion,
                Gated, MeetsRequirements
<1> QED
  BY <1>1, SerialInvHolds, PTL DEF Spec, GateOnEntry

\* With requests served one after the other, the deals implement the promise
\* at the head of app/services/deals.py.
THEOREM SerialPromise ==
    ASSUME Serial
    PROVE  Spec => PromiseKept
<1> DEFINE status(d) == IF deals[d].deleted THEN "deleted" ELSE deals[d].status
           stage(d) == deals[d].stage
<1>1. Init => Promise!Init
  BY DEF Init, Promise!Init, NoDeal
<1>2. SerialInv /\ [Next]_vars =>
        [Promise!Next]_<<[d \in Deals |-> status(d)], [d \in Deals |-> stage(d)]>>
  <2> SUFFICES ASSUME Inv, OutcomeStep, AbsentLive
               PROVE  \/ Promise!Next
                      \/ /\ \A e \in Deals : status(e)' = status(e)
                         /\ \A e \in Deals : stage(e)' = stage(e)
    BY EveryOutcome DEF SerialInv
  <2>1. ASSUME NEW e \in Deals, Kept(e)
        PROVE  status(e)' = status(e) /\ stage(e)' = stage(e)
    BY <2>1 DEF Kept, SameOutcome
  <2>2. CASE \A e \in Deals : Kept(e)
    BY <2>1, <2>2
  <2>3. ASSUME NEW d \in Deals, Turn(d)
        PROVE  Promise!Next
    <3>1. /\ [e \in Deals |-> status(e)]'
                 = [[e \in Deals |-> status(e)] EXCEPT ![d] = status(d)']
          /\ [e \in Deals |-> stage(e)]' = [[e \in Deals |-> stage(e)] EXCEPT ![d] = stage(d)']
      <4>1. \A e \in Deals \ {d} : status(e)' = status(e) /\ stage(e)' = stage(e)
        BY <2>1, <2>3 DEF Turn
      <4> HIDE DEF status, stage
      <4> QED
        BY <4>1
    <3>2. CASE IsBorn(d)
      <4>1. /\ status(d) = "absent" /\ status(d)' = "open"
            /\ deals'[d].stage \in (Stages \ {WonStage}) \cup {FirstStage}
        BY <3>2 DEF IsBorn, AbsentLive, Exists
      <4> QED
        BY <3>1, <4>1 DEF Promise!Next, Promise!Born, Promise!Set
    <3>3. CASE IsMove(d)
      <4>1. /\ status(d) = "open" /\ status(d)' = "open"
            /\ deals'[d].stage \in Stages \ {WonStage}
        BY <3>3 DEF IsMove, LiveOpen
      <4> QED
        BY <3>1, <4>1 DEF Promise!Next, Promise!Moves, Promise!Set
    <3>4. CASE IsWin(d)
      <4>1. status(d) = "open" /\ status(d)' = "won" /\ stage(d)' = WonStage
        BY <3>4 DEF IsWin, LiveOpen
      <4> QED
        BY <3>1, <4>1 DEF Promise!Next, Promise!Wins, Promise!Set
    <3>5. CASE IsLoss(d)
      <4>1. status(d) = "open" /\ status(d)' = "lost" /\ stage(d)' = stage(d)
        BY <3>5 DEF IsLoss, LiveOpen
      <4> QED
        BY <3>1, <4>1 DEF Promise!Next, Promise!Loses, Promise!Set
    <3>6. CASE IsReopening(d)
      <4>1. status(d) \in {"won", "lost"} /\ status(d)' = "open" /\ stage(d)' = stage(d)
        BY <3>6 DEF IsReopening, Closed
      <4> QED
        BY <3>1, <4>1 DEF Promise!Next, Promise!Reopens, Promise!Set
    <3>7. CASE IsDeletion(d)
      <4>1. /\ status(d) \in {"open", "won", "lost"} /\ status(d)' = "deleted"
            /\ stage(d)' = stage(d)
        BY <3>7 DEF IsDeletion, Exists, Inv, TypeOK, Row, Closed
      <4> QED
        BY <3>1, <4>1 DEF Promise!Next, Promise!Goes, Promise!Set
    <3> QED
      BY <2>3, <3>2, <3>3, <3>4, <3>5, <3>6, <3>7 DEF Turn
  <2> QED
    BY <2>2, <2>3 DEF OutcomeStep
<1> QED
  BY <1>1, <1>2, SerialInvHolds, PTL DEF Spec, PromiseKept, Promise!Spec

-----------------------------------------------------------------------------
(* Win-back: one receipt per deal *)

\* A rescue under way has seen that there is no receipt, and there is none yet.
OneReceipt ==
    /\ \A d \in Deals : rescues[d] = {} \/ \E e \in Deals : rescues[d] = {e}
    /\ \A w \in Workers : tx[w].phase = "rescuing" =>
          tx[w].deal \in Deals /\ rescues[tx[w].deal] = {}

\* Only StartRescue brings a session to where it is about to write a receipt.
LEMMA OnlyStartRescues ==
    ASSUME Serial, Inv, Next
    PROVE  \/ UNCHANGED rescues /\ \A v \in Workers : tx'[v].phase # "rescuing"
           \/ \E w \in Workers : StartRescue(w)
           \/ \E w \in Workers : FinishRescue(w)
<1> DEFINE Quiet == UNCHANGED rescues /\ \A v \in Workers : tx'[v].phase # "rescuing"
<1> PICK w \in Workers :
        \/ Begin(w) \/ Load(w) \/ Abort(w)
        \/ LifecycleStep(w) \/ OwnershipStep(w) \/ ContactStep(w) \/ CyclesStep(w)
  BY DEF Next
<1> SUFFICES ASSUME ~StartRescue(w), ~FinishRescue(w)
             PROVE  UNCHANGED rescues /\ tx'[w].phase # "rescuing"
  BY DEF Serial
<1> tx \in [Workers -> Session] /\ tx[w] \in Session
  BY DEF Inv, TypeOK
<1>1. ASSUME tx' = [tx EXCEPT ![w] = Idle] PROVE tx'[w].phase # "rescuing"
  BY <1>1 DEF Idle
<1>2. CASE Begin(w)
  <2>1. /\ tx'[w] = [Idle EXCEPT !.phase = "begun", !.start = clock + 1]
        /\ rescues' = rescues
    BY <1>2 DEF Begin, tables
  <2>2. tx'[w].phase = "begun"
    BY <2>1 DEF Idle
  <2> QED
    BY <2>1, <2>2
<1>3. CASE Load(w)
  <2>1. PICK u \in Users, d \in Deals :
           tx' = [tx EXCEPT ![w].phase = "loaded", ![w].user = u,
                            ![w].deal = d, ![w].row = deals[d]]
    BY <1>3 DEF Load
  <2>2. tx'[w].phase = "loaded"
    BY <2>1 DEF Session
  <2> QED
    BY <1>3, <2>2 DEF Load, tables
<1>4. CASE LoadTask(w)
  BY <1>4 DEF LoadTask, tables, Session
<1>5. ASSUME NEW a, TakeOver(w, a) PROVE UNCHANGED rescues /\ tx'[w].phase # "rescuing"
  BY <1>5 DEF TakeOver, tables, Session
<1>6. CASE Claim(w) \/ \E p \in Patches : ChangeOwner(w, p)
  BY <1>5, <1>6 DEF Claim, ChangeOwner
<1>7. CASE StartCapture(w)
  BY <1>7 DEF StartCapture, tables, Session
<1>8. CASE StartActivate(w)
  BY <1>8 DEF StartActivate, tables, Session
<1>9. CASE StartRollover(w)
  BY <1>9 DEF StartRollover, tables, Session
<1>10. CASE LifecycleStep(w)
  BY <1>1, <1>7, <1>10
  DEF LifecycleStep, CreateDeal, FinishCapture, MoveStage, MarkWon, MarkLost, Reopen, DeleteDeal,
      Finish
<1>11. CASE OwnershipStep(w)
  BY <1>1, <1>4, <1>6, <1>11
  DEF OwnershipStep, UpdateDeal, FinishTakeOver, CreateTask, UpdateTask, DeleteTask, Finish
<1>12. CASE ContactStep(w)
  BY <1>1, <1>12
  DEF ContactStep, RegisterFirstContact, CorrectFirstContact, QuickLog, AddNote, Finish
<1>13. CASE CyclesStep(w)
  BY <1>1, <1>8, <1>9, <1>13
  DEF CyclesStep, FinishActivate, FinishRollover, Finish
<1>14. CASE Abort(w)
  BY <1>1, <1>14 DEF Abort, tables
<1> QED
  BY <1>2, <1>3, <1>10, <1>11, <1>12, <1>13, <1>14

\* With requests served one after the other, a lost deal is won back once (the
\* receipt check of reopen_in_cycle); two overlapping calls do it twice.
THEOREM SerialRescuedOnce ==
    ASSUME Serial
    PROVE  Spec => []RescuedOnce
<1>1. Init => OneReceipt
  BY DEF Init, OneReceipt, Idle
<1>2. Inv /\ OneReceipt /\ [Next]_vars => OneReceipt'
  <2> SUFFICES ASSUME Inv, OneReceipt, [Next]_vars PROVE OneReceipt'
    OBVIOUS
  <2> rescues \in [Deals -> SUBSET Deals] /\ tx \in [Workers -> Session]
    BY DEF Inv, TypeOK
  <2>1. CASE UNCHANGED vars
    BY <2>1 DEF vars, tables, OneReceipt
  <2>2. CASE UNCHANGED rescues /\ \A v \in Workers : tx'[v].phase # "rescuing"
    BY <2>2 DEF OneReceipt
  <2>3. ASSUME NEW w \in Workers, StartRescue(w) PROVE OneReceipt'
    <3>1. /\ rescues' = rescues /\ rescues[tx[w].deal] = {} /\ tx[w].phase = "loaded"
          /\ tx'[w].deal = tx[w].deal /\ tx[w].deal \in Deals
      BY <2>3 DEF StartRescue, MayEdit, tables, Session, Inv, SessionsOK, SessionOK, Holding
    <3> QED
      BY <3>1 DEF OneReceipt, Serial
  <2>4. ASSUME NEW w \in Workers, FinishRescue(w) PROVE OneReceipt'
    <3>1. PICK d \in Deals : rescues' = [rescues EXCEPT ![tx[w].deal] = @ \cup {d}]
      BY <2>4 DEF FinishRescue
    <3>2. /\ tx[w].phase = "rescuing" /\ tx'[w].phase # "rescuing"
      BY <2>4 DEF FinishRescue, Finish, Idle
    <3> QED
      BY <3>1, <3>2 DEF OneReceipt, Serial
  <2> QED
    BY <2>1, <2>2, <2>3, <2>4, OnlyStartRescues
<1>3. OneReceipt => RescuedOnce
  <2> SUFFICES ASSUME OneReceipt, NEW d \in Deals PROVE Cardinality(rescues[d]) <= 1
    BY DEF RescuedOnce
  <2>1. CASE rescues[d] = {}
    BY <2>1, FS_EmptySet
  <2>2. ASSUME NEW e \in Deals, rescues[d] = {e} PROVE Cardinality(rescues[d]) <= 1
    <3>1. Cardinality({e}) = 1
      BY FS_Singleton, Zenon
    <3> QED
      BY <2>2, <3>1
  <2> QED
    BY <2>1, <2>2 DEF OneReceipt
<1> QED
  BY <1>1, <1>2, <1>3, InvHolds, PTL DEF Spec

-----------------------------------------------------------------------------
(* Queue, rollover and partial updates *)

\* What a session keeps between the two steps of a claim, a change of owner or
\* a rollover is still what the tables hold.
KeptForLater(w) ==
    /\ tx[w].phase = "loaded" => tx[w].user \in Users
    /\ tx[w].phase = "owning" =>
          /\ tx[w].assigned.owner \in Users /\ tx[w].assigned.cycle = tx[w].row.cycle
          /\ tx[w].taskSet = OpenUnassigned(tx[w].deal)
    /\ tx[w].phase = "rolling" => \A d \in tx[w].dealSet : LiveOpen(d)

NothingStale == \A w \in Workers : KeptForLater(w)

\* The steps that bring a session to one of those phases.
LEMMA OnlyTheseKeep ==
    ASSUME Inv, NEW w \in Workers,
           \/ Begin(w) \/ Load(w) \/ Abort(w)
           \/ LifecycleStep(w) \/ OwnershipStep(w) \/ ContactStep(w) \/ CyclesStep(w)
    PROVE  \/ tx'[w].phase \notin {"loaded", "owning", "rolling"}
           \/ Load(w)
           \/ \E a : /\ TakeOver(w, a) /\ tx[w].phase = "loaded"
                     /\ (tx[w].user \in Users => a.owner \in Users) /\ a.cycle = tx[w].row.cycle
           \/ StartRollover(w)
<1> DEFINE Quiet == tx'[w].phase \notin {"loaded", "owning", "rolling"}
           Takes(a) == /\ TakeOver(w, a) /\ tx[w].phase = "loaded"
                       /\ (tx[w].user \in Users => a.owner \in Users)
                       /\ a.cycle = tx[w].row.cycle
<1> SUFFICES ASSUME ~Load(w), ~StartRollover(w)
             PROVE  Quiet \/ \E a : Takes(a)
  OBVIOUS
<1> tx \in [Workers -> Session] /\ tx[w] \in Session /\ tx[w].row \in Row
  BY DEF Inv, TypeOK, Session
<1>1. ASSUME tx' = [tx EXCEPT ![w] = Idle] PROVE Quiet
  BY <1>1 DEF Idle
<1>2. ASSUME Begin(w) PROVE Quiet
  <2>1. tx'[w] = [Idle EXCEPT !.phase = "begun", !.start = clock + 1]
    BY <1>2 DEF Begin
  <2>2. tx'[w].phase = "begun"
    BY <2>1 DEF Idle
  <2> QED
    BY <2>2
<1>3. ASSUME LoadTask(w) PROVE Quiet
  BY <1>3 DEF LoadTask, Session
<1>4. ASSUME Claim(w) PROVE \E a : Takes(a)
  <2> DEFINE a == [tx[w].row EXCEPT !.owner = tx[w].user]
  <2>1. a.owner = tx[w].user /\ a.cycle = tx[w].row.cycle
    BY DEF Row
  <2>2. Takes(a)
    BY <1>4, <2>1 DEF Claim
  <2> QED
    BY <2>2
<1>5. ASSUME NEW p \in Patches, ChangeOwner(w, p) PROVE \E a : Takes(a)
  <2>1. PICK u \in Users : TakeOver(w, [Patched(tx[w].row, p) EXCEPT !.owner = u])
    BY <1>5 DEF ChangeOwner
  <2> DEFINE a == [Patched(tx[w].row, p) EXCEPT !.owner = u]
  <2>2. a.owner = u /\ a.cycle = tx[w].row.cycle
    BY DEF Row, Patched
  <2>3. Takes(a)
    BY <1>5, <2>1, <2>2 DEF ChangeOwner
  <2> QED
    BY <2>3
<1>6. ASSUME StartCapture(w) PROVE Quiet
  BY <1>6 DEF StartCapture, Session
<1>7. ASSUME StartActivate(w) PROVE Quiet
  BY <1>7 DEF StartActivate, Session
<1>8. ASSUME StartRescue(w) PROVE Quiet
  BY <1>8 DEF StartRescue, Session
<1> HIDE DEF Quiet, Takes
<1>9. CASE LifecycleStep(w)
  BY <1>1, <1>6, <1>9
  DEF LifecycleStep, CreateDeal, FinishCapture, MoveStage, MarkWon, MarkLost, Reopen, DeleteDeal,
      Finish
<1>10. CASE OwnershipStep(w)
  BY <1>1, <1>3, <1>4, <1>5, <1>10
  DEF OwnershipStep, UpdateDeal, FinishTakeOver, CreateTask, UpdateTask, DeleteTask, Finish
<1>11. CASE ContactStep(w)
  BY <1>1, <1>11
  DEF ContactStep, RegisterFirstContact, CorrectFirstContact, QuickLog, AddNote, Finish
<1>12. CASE CyclesStep(w)
  BY <1>1, <1>7, <1>8, <1>12
  DEF CyclesStep, FinishActivate, FinishRollover, FinishRescue, Finish
<1> QED
  BY <1>1, <1>2, <1>9, <1>10, <1>11, <1>12 DEF Abort

LEMMA NothingStaleKept ==
    ASSUME Serial, Inv, NothingStale, [Next]_vars
    PROVE  NothingStale'
<1>1. CASE UNCHANGED vars
  BY <1>1 DEF vars, tables, NothingStale, KeptForLater, OpenUnassigned, LiveOpen
<1>2. CASE Next
  <2> PICK w \in Workers :
        \/ Begin(w) \/ Load(w) \/ Abort(w)
        \/ LifecycleStep(w) \/ OwnershipStep(w) \/ ContactStep(w) \/ CyclesStep(w)
    BY <1>2 DEF Next
  <2> SUFFICES KeptForLater(w)'
    BY DEF NothingStale, Serial
  <2> tx \in [Workers -> Session] /\ tx[w] \in Session /\ KeptForLater(w)
    BY DEF Inv, TypeOK, NothingStale
  <2>1. CASE tx'[w].phase \notin {"loaded", "owning", "rolling"}
    BY <2>1 DEF KeptForLater
  <2>2. CASE Load(w)
    <3>1. PICK u \in Users, d \in Deals :
             tx' = [tx EXCEPT ![w].phase = "loaded", ![w].user = u,
                              ![w].deal = d, ![w].row = deals[d]]
      BY <2>2 DEF Load
    <3>2. tx'[w].phase = "loaded" /\ tx'[w].user \in Users
      BY <3>1 DEF Session
    <3> QED
      BY <3>2 DEF KeptForLater
  <2>3. ASSUME NEW a, TakeOver(w, a), tx[w].phase = "loaded",
               tx[w].user \in Users => a.owner \in Users, a.cycle = tx[w].row.cycle
        PROVE  KeptForLater(w)'
    <3>1. /\ tx'[w].phase = "owning" /\ tx'[w].assigned = a /\ tx'[w].row = tx[w].row
          /\ tx'[w].deal = tx[w].deal /\ tx'[w].taskSet = OpenUnassigned(tx[w].deal)
          /\ tasks' = tasks
      BY <2>3 DEF TakeOver, tables, Session
    <3>2. OpenUnassigned(tx[w].deal)' = OpenUnassigned(tx[w].deal)
      BY <3>1 DEF OpenUnassigned
    <3>3. a.owner \in Users
      BY <2>3 DEF KeptForLater
    <3> QED
      BY <2>3, <3>1, <3>2, <3>3 DEF KeptForLater
  <2>4. CASE StartRollover(w)
    <3>1. PICK c \in Cycles : tx'[w].phase = "rolling" /\ tx'[w].dealSet = OpenDealsOf(c)
      BY <2>4 DEF StartRollover, Session
    <3>2. deals' = deals
      BY <2>4 DEF StartRollover, tables
    <3> QED
      BY <3>1, <3>2 DEF KeptForLater, OpenDealsOf, LiveOpen
  <2> QED
    BY <2>1, <2>2, <2>3, <2>4, OnlyTheseKeep
<1> QED
  BY <1>1, <1>2

LEMMA NothingStaleHolds ==
    ASSUME Serial
    PROVE  Spec => []NothingStale
<1>1. Init => NothingStale
  BY DEF Init, NothingStale, KeptForLater, Idle
<1> QED
  BY <1>1, NothingStaleKept, InvHolds, PTL DEF Spec

\* With requests served one after the other, a claim succeeds only on a deal of
\* the queue and gives every open task of it to somebody (claim_deal,
\* _assign_open_unassigned_tasks).
THEOREM SerialClaim ==
    ASSUME Serial
    PROVE  Spec => ClaimTakesFromQueue
<1>1. SerialInv /\ NothingStale /\ [Next]_vars =>
        [\A w \in Workers :
            FinishTakeOver(w) /\ tx[w].row.owner = None =>
               LET d == tx[w].deal
               IN /\ deals[d].owner = None
                  /\ \A t \in Tasks : tasks'[t].deal = d /\ tasks'[t].state = "todo"
                                        => tasks'[t].assignee # None]_vars
  <2> SUFFICES ASSUME SerialInv, NothingStale, NEW w \in Workers,
                      FinishTakeOver(w), tx[w].row.owner = None
               PROVE  /\ deals[tx[w].deal].owner = None
                      /\ \A t \in Tasks : tasks'[t].deal = tx[w].deal /\ tasks'[t].state = "todo"
                                            => tasks'[t].assignee # None
    OBVIOUS
  <2>1. tx[w].phase = "owning" /\ tasks' = Assigned(tx[w].taskSet, tx[w].assigned.owner)
    BY DEF FinishTakeOver
  <2>2. deals[tx[w].deal].owner = None
    BY <2>1 DEF SerialInv, Fresh, FreshRow, Holding
  <2>3. /\ tx[w].assigned.owner \in Users /\ tx[w].taskSet = OpenUnassigned(tx[w].deal)
        /\ None \notin Users /\ tasks \in [Tasks -> TaskRow]
    BY <2>1, PeopleAssumption DEF NothingStale, KeptForLater, SerialInv, Inv, TypeOK
  <2>4. ASSUME NEW t \in Tasks, tasks'[t].deal = tx[w].deal, tasks'[t].state = "todo"
        PROVE  tasks'[t].assignee # None
    <3>1. CASE t \in tx[w].taskSet
      BY <2>1, <2>3, <3>1 DEF Assigned, TaskRow
    <3>2. CASE t \notin tx[w].taskSet
      <4>1. tasks'[t] = tasks[t] /\ tasks[t] \in TaskRow
        BY <2>1, <2>3, <3>2 DEF Assigned
      <4>2. tasks[t] # [state |-> "todo", deal |-> tx[w].deal, assignee |-> None]
        BY <2>3, <3>2 DEF OpenUnassigned
      <4> QED
        BY <2>4, <4>1, <4>2 DEF TaskRow
    <3> QED
      BY <3>1, <3>2
  <2> QED
    BY <2>2, <2>4
<1> QED
  BY <1>1, SerialInvHolds, NothingStaleHolds, PTL DEF Spec, ClaimTakesFromQueue

\* With requests served one after the other, a merging PATCH leaves the
\* enrollment keys absent from its body alone (EnrollmentData.merge_into).
THEOREM SerialMerge ==
    ASSUME Serial
    PROVE  Spec => AbsentKeysPreserved
<1>1. SerialInv /\ [Next]_vars =>
        [\A w \in Workers :
            LET d == tx[w].deal
            IN tx[w].phase = "loaded" /\ deals'[d].enrollment # deals[d].enrollment =>
                  \A p \in Patches : p.mode = "merge" /\ UpdateDeal(w, p) =>
                     LET sent == p.set \cup p.cleared
                     IN deals'[d].enrollment \ sent = deals[d].enrollment \ sent]_vars
  <2> SUFFICES ASSUME SerialInv, NEW w \in Workers, NEW p \in Patches, p.mode = "merge",
                      UpdateDeal(w, p)
               PROVE  deals'[tx[w].deal].enrollment \ (p.set \cup p.cleared)
                        = deals[tx[w].deal].enrollment \ (p.set \cup p.cleared)
    OBVIOUS
  <2>1. Inv /\ Fresh /\ tx[w].row \in Row
    BY DEF SerialInv, Inv, TypeOK, Session
  <2>2. tx[w].phase \in Holding /\ Update(w, Patched(tx[w].row, p), FALSE)
    BY DEF UpdateDeal, MayEdit, Holding, Save
  <2>3. Assignable(Patched(tx[w].row, p))
    BY <2>1, <2>2, LoadedRow, AssignedRows
  <2>4. /\ deals[tx[w].deal] = tx[w].row
        /\ deals'[tx[w].deal].enrollment = Patched(tx[w].row, p).enrollment
    BY <2>1, <2>2, <2>3, FreshUpdate
  <2>5. Patched(tx[w].row, p).enrollment = (tx[w].row.enrollment \cup p.set) \ p.cleared
    BY <2>1 DEF Patched, Merged, Row
  <2> QED
    BY <2>4, <2>5
<1> QED
  BY <1>1, SerialInvHolds, PTL DEF Spec, AbsentKeysPreserved

\* No request but a rollover writes the cycle of a deal that exists.
CycleKept == \A d \in Deals : Exists(d) => deals'[d].cycle = deals[d].cycle

LEMMA UpdateKeepsCycle ==
    ASSUME Inv, NEW w \in Workers, tx[w].phase \in Holding,
           NEW assigned, Assignable(assigned), assigned.cycle = tx[w].row.cycle,
           NEW logs \in BOOLEAN, Update(w, assigned, logs)
    PROVE  CycleKept
<1> DEFINE d == tx[w].deal
           new == Flush(deals[d], tx[w].row, assigned)
<1>1. /\ d \in Deals /\ deals[d] \in Row /\ new \in Row
      /\ deals'[d] \in {new, Touch(new, tx[w].start)}
      /\ Touch(new, tx[w].start) = [new EXCEPT !.lastActivity = Later(new.lastActivity, tx[w].start)]
      /\ \A v \in Deals \ {d} : deals'[v] = deals[v]
  BY UpdateOne DEF Assignable
<1>2. new.cycle = deals[d].cycle
  BY DEF Flush, Column
<1> HIDE DEF d, new
<1>3. deals'[d].cycle = new.cycle
  BY <1>1 DEF Row
<1> QED
  BY <1>1, <1>2, <1>3 DEF CycleKept

LEMMA InsertKeepsCycle ==
    ASSUME Inv, NEW w \in Workers, NEW d \in Deals, NEW row, Insert(w, d, row)
    PROVE  CycleKept
BY DEF Insert, Inv, TypeOK, CycleKept

LEMMA AssignedCycle ==
    ASSUME NEW row \in Row, NEW t \in Nat
    PROVE  /\ Won(row, t).cycle = row.cycle /\ Lost(row, t).cycle = row.cycle
           /\ Reopened(row).cycle = row.cycle /\ Contacted(row, t).cycle = row.cycle
           /\ [row EXCEPT !.firstContact = t].cycle = row.cycle
           /\ [row EXCEPT !.deleted = TRUE].cycle = row.cycle
           /\ \A s \in Stages : [row EXCEPT !.stage = s].cycle = row.cycle
           /\ \A p \in Patches : Patched(row, p).cycle = row.cycle
BY DEF Won, Lost, Reopened, Contacted, Patched, Row

LEMMA OnlyRolloverMoves ==
    ASSUME Inv, NothingStale, [Next]_vars
    PROVE  CycleKept \/ \E w \in Workers : FinishRollover(w)
<1>1. CASE deals' = deals
  BY <1>1 DEF CycleKept
<1>2. CASE UNCHANGED vars
  BY <1>1, <1>2 DEF vars, tables
<1>3. CASE Next
  <2> PICK w \in Workers :
        \/ Begin(w) \/ Load(w) \/ Abort(w)
        \/ LifecycleStep(w) \/ OwnershipStep(w) \/ ContactStep(w) \/ CyclesStep(w)
    BY <1>3 DEF Next
  <2> DEFINE r == tx[w].row
             t == tx[w].start
  <2>1. r \in Row /\ t \in Nat
    BY DEF Inv, TypeOK, Session
  <2>2. ASSUME NEW a, Assignable(a), a.cycle = r.cycle, tx[w].phase \in Holding,
               NEW logs \in BOOLEAN, Update(w, a, logs)
        PROVE  CycleKept
    BY <2>2, UpdateKeepsCycle
  <2>3. ASSUME tx[w].phase \in Holding
        PROVE  /\ Assignable(r) /\ Assignable(Won(r, t)) /\ Assignable(Lost(r, t))
               /\ Assignable(Reopened(r)) /\ Assignable(Contacted(r, t))
               /\ Assignable([r EXCEPT !.firstContact = t])
               /\ Assignable([r EXCEPT !.deleted = TRUE])
               /\ \A s \in Stages : Assignable([r EXCEPT !.stage = s])
               /\ \A p \in Patches : Assignable(Patched(r, p))
    BY <2>1, <2>3, LoadedRow, AssignedRows
  <2>4. CASE LifecycleStep(w)
    <3>1. CASE CreateDeal(w) \/ FinishCapture(w)
      BY <3>1, InsertKeepsCycle DEF CreateDeal, FinishCapture
    <3>2. CASE MoveStage(w)
      <4>1. tx[w].phase \in Holding
        BY <3>2 DEF MoveStage, MayTransition, MayEdit, Holding
      <4>2. PICK s \in Stages : Update(w, [r EXCEPT !.stage = s], TRUE)
        BY <3>2 DEF MoveStage, Save
      <4> QED
        BY <2>1, <2>2, <2>3, <4>1, <4>2, AssignedCycle
    <3>3. CASE MarkWon(w) \/ MarkLost(w) \/ Reopen(w) \/ DeleteDeal(w)
      <4>1. tx[w].phase \in Holding
        BY <3>3 DEF MarkWon, MarkLost, Reopen, DeleteDeal, MayTransition, MayEdit, Holding
      <4>2. \/ Update(w, Won(r, t), TRUE) \/ Update(w, Lost(r, t), TRUE)
            \/ Update(w, Reopened(r), TRUE) \/ Update(w, [r EXCEPT !.deleted = TRUE], FALSE)
        BY <3>3 DEF MarkWon, MarkLost, Reopen, DeleteDeal, Save
      <4> QED
        BY <2>1, <2>2, <2>3, <4>1, <4>2, AssignedCycle
    <3> QED
      BY <1>1, <2>4, <3>1, <3>2, <3>3 DEF LifecycleStep, StartCapture, tables
  <2>5. CASE OwnershipStep(w)
    <3>1. CASE FinishTakeOver(w)
      <4>1. tx[w].phase = "owning" /\ tx[w].phase \in Holding /\ Update(w, tx[w].assigned, TRUE)
        BY <3>1 DEF FinishTakeOver, Holding, Save
      <4>2. Assignable(tx[w].assigned)
        BY <4>1 DEF Inv, TypeOK, Session, SessionOK, Assignable
      <4>3. tx[w].assigned.cycle = r.cycle
        BY <4>1 DEF NothingStale, KeptForLater
      <4> QED
        BY <2>2, <4>1, <4>2, <4>3
    <3>2. CASE \E p \in Patches : UpdateDeal(w, p)
      <4>1. PICK p \in Patches : UpdateDeal(w, p)
        BY <3>2
      <4>2. tx[w].phase \in Holding /\ Update(w, Patched(r, p), FALSE)
        BY <4>1 DEF UpdateDeal, MayEdit, Holding, Save
      <4> QED
        BY <2>1, <2>2, <2>3, <4>2, AssignedCycle
    <3>3. CASE CreateTask(w) \/ UpdateTask(w)
      <4>1. tx[w].phase \in Holding /\ (deals' = deals \/ Update(w, r, TRUE))
        BY <3>3 DEF CreateTask, UpdateTask, MayEdit, Holding, Save
      <4> QED
        BY <1>1, <2>2, <2>3, <4>1
    <3> QED
      BY <1>1, <2>5, <3>1, <3>2, <3>3
      DEF OwnershipStep, Claim, ChangeOwner, TakeOver, LoadTask, DeleteTask, tables
  <2>6. CASE ContactStep(w)
    <3>1. tx[w].phase \in Holding
      BY <2>6 DEF ContactStep, RegisterFirstContact, CorrectFirstContact, QuickLog, AddNote,
                  MayTransition, MayEdit, Holding
    <3>2. \/ Update(w, r, TRUE) \/ Update(w, Contacted(r, t), TRUE)
          \/ Update(w, [r EXCEPT !.firstContact = t], TRUE)
      BY <2>6 DEF ContactStep, RegisterFirstContact, CorrectFirstContact, QuickLog, AddNote, Save
    <3> QED
      BY <2>1, <2>2, <2>3, <3>1, <3>2, AssignedCycle
  <2>7. CASE FinishRescue(w)
    <3>1. \E d \in Deals : /\ ~Exists(d)
                          /\ \E b : deals' = [deals EXCEPT ![d] = b, ![tx[w].deal] = Touch(@, t)]
      BY <2>7 DEF FinishRescue
    <3>2. tx[w].deal \in Deals /\ Exists(tx[w].deal) /\ deals[tx[w].deal] \in Row
      BY <2>7 DEF FinishRescue, Inv, TypeOK, SessionOK, Session, Holding
    <3>3. Touch(deals[tx[w].deal], t).cycle = deals[tx[w].deal].cycle
      BY <3>2 DEF Touch, Row
    <3> HIDE DEF t
    <3> QED
      BY <3>1, <3>2, <3>3 DEF CycleKept, Inv, TypeOK
  <2> QED
    BY <1>1, <2>4, <2>5, <2>6, <2>7
    DEF Begin, Load, Abort, CyclesStep, StartActivate, FinishActivate, StartRollover, StartRescue,
        tables
<1> QED
  BY <1>2, <1>3

\* With requests served one after the other, only open deals that are not
\* deleted change their cycle (rollover: won and lost deals stay put).
THEOREM SerialRollover ==
    ASSUME Serial
    PROVE  Spec => RolloverMovesOpenDeals
<1>1. SerialInv /\ NothingStale /\ [Next]_vars =>
        [\A d \in Deals : Exists(d) /\ deals'[d].cycle # deals[d].cycle =>
            deals[d].status = "open" /\ ~deals[d].deleted]_vars
  <2> SUFFICES ASSUME Inv, NothingStale, [Next]_vars, NEW d \in Deals, Exists(d),
                      deals'[d].cycle # deals[d].cycle
               PROVE  LiveOpen(d)
    BY DEF SerialInv, LiveOpen
  <2>1. PICK w \in Workers : FinishRollover(w)
    BY OnlyRolloverMoves DEF CycleKept
  <2>2. tx[w].phase = "rolling" /\ d \in tx[w].dealSet
    BY <2>1 DEF FinishRollover
  <2> QED
    BY <2>2 DEF NothingStale, KeptForLater
<1> QED
  BY <1>1, SerialInvHolds, NothingStaleHolds, PTL DEF Spec, RolloverMovesOpenDeals
=============================================================================
