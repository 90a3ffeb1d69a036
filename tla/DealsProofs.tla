----------------------------- MODULE DealsProofs -----------------------------
(***************************************************************************)
(* Theorems about Deals for any number of workers, deals, users and        *)
(* transactions.                                                           *)
(***************************************************************************)
EXTENDS Deals, SequenceTheorems, TLAPS

(* What the UPDATE and INSERT helpers of DealStore return *)

LEMMA FlushRow ==
    ASSUME NEW now \in Row, NEW loaded \in Row, NEW assigned \in Row
    PROVE  LET new == Flush(now, loaded, assigned)
           IN /\ new \in Row
              /\ new.lastActivity = now.lastActivity
              /\ new.status \in {now.status, assigned.status}
              /\ new.stage \in {now.stage, assigned.stage}
              /\ assigned.stage = loaded.stage => new.stage = now.stage
BY DEF Flush, Column, Row, Closed

LEMMA TouchRow ==
    ASSUME NEW row \in Row, NEW t \in Nat
    PROVE  /\ Touch(row, t) \in Row
           /\ Touch(row, t) = [row EXCEPT !.lastActivity = Later(row.lastActivity, t)]
           /\ Touch(row, t).lastActivity >= row.lastActivity
           /\ Touch(row, t).lastActivity >= t
BY DEF Touch, Row, Later, Closed

LEMMA LeaveOpenRowsSeq ==
    ASSUME NEW h \in Seq(HistoryRow), NEW t \in Nat
    PROVE  LET closed == LeaveOpenRows(h, t)
           IN /\ closed \in Seq(HistoryRow)
              /\ Len(closed) = Len(h)
              /\ \A i \in DOMAIN h :
                    /\ closed[i].stage = h[i].stage
                    /\ closed[i].entered = h[i].entered
                    /\ closed[i].left = IF h[i].left = 0 THEN t ELSE h[i].left
<1> DEFINE closed == LeaveOpenRows(h, t)
<1>1. /\ DOMAIN h = 1 .. Len(h) /\ Len(h) \in Nat
      /\ \A i \in 1 .. Len(h) : h[i] \in HistoryRow
  OBVIOUS
<1>2. closed = [i \in 1 .. Len(h) |->
                  IF h[i].left = 0 THEN [h[i] EXCEPT !.left = t] ELSE h[i]]
  BY <1>1 DEF LeaveOpenRows
<1>3. \A i \in 1 .. Len(h) :
         /\ closed[i] \in HistoryRow
         /\ closed[i].stage = h[i].stage
         /\ closed[i].entered = h[i].entered
         /\ closed[i].left = IF h[i].left = 0 THEN t ELSE h[i].left
  BY <1>1, <1>2 DEF HistoryRow
<1>4. closed \in [1 .. Len(h) -> HistoryRow] /\ DOMAIN closed = 1 .. Len(h)
  BY <1>2, <1>3
<1> HIDE DEF closed
<1>5. closed \in Seq(HistoryRow)
  BY <1>1, <1>4, SeqDef, Zenon
<1>6. Len(closed) = Len(h)
  BY <1>1, <1>4, <1>5
<1> QED
  BY <1>1, <1>3, <1>5, <1>6 DEF closed

LEMMA RecordEntrySeq ==
    ASSUME NEW h \in Seq(HistoryRow), NEW s \in Stages, NEW t \in Nat
    PROVE  LET new == RecordEntry(h, s, t)
           IN /\ new \in Seq(HistoryRow)
              /\ Len(new) = Len(h) + 1
              /\ new[Len(h) + 1] = [stage |-> s, entered |-> t, left |-> 0]
              /\ \A i \in DOMAIN h :
                    /\ new[i].stage = h[i].stage
                    /\ new[i].entered = h[i].entered
                    /\ new[i].left = IF h[i].left = 0 THEN t ELSE h[i].left
<1> DEFINE e == [stage |-> s, entered |-> t, left |-> 0]
           closed == LeaveOpenRows(h, t)
<1>1. e \in HistoryRow
  BY DEF HistoryRow
<1>2. /\ closed \in Seq(HistoryRow)
      /\ Len(closed) = Len(h)
      /\ \A i \in DOMAIN h :
            /\ closed[i].stage = h[i].stage
            /\ closed[i].entered = h[i].entered
            /\ closed[i].left = IF h[i].left = 0 THEN t ELSE h[i].left
  BY LeaveOpenRowsSeq
<1>3. RecordEntry(h, s, t) = Append(closed, e)
  BY DEF RecordEntry
<1> HIDE DEF e, closed
<1>4. /\ Append(closed, e) \in Seq(HistoryRow)
      /\ Len(Append(closed, e)) = Len(h) + 1
      /\ Append(closed, e)[Len(h) + 1] = e
      /\ \A i \in DOMAIN h : Append(closed, e)[i] = closed[i]
  BY <1>1, <1>2
<1> QED
  BY <1>2, <1>3, <1>4 DEF e
-----------------------------------------------------------------------------
(* The inductive invariant *)

\* Phases in which the session holds a deal it has read.
Holding == {"loaded", "task", "owning", "rescuing"}

\* Phases in which it holds a cycle it has read.
Steering == {"capturing", "rescuing", "rolling", "activating"}

\* What a session keeps while other requests commit: its start time is over,
\* and the deal it read, however stale the row, is still there.
SessionOK(w) ==
    /\ tx[w].phase # "idle" => tx[w].start \in 1 .. clock
    /\ tx[w].phase \in Holding =>
          /\ tx[w].deal \in Deals /\ Exists(tx[w].deal)
          /\ tx[w].row.status # "absent" /\ tx[w].row.stage \in Stages
    /\ tx[w].phase = "owning" =>
          /\ tx[w].assigned.status = tx[w].row.status
          /\ tx[w].assigned.stage = tx[w].row.stage
          /\ tx[w].assigned.firstContact = tx[w].row.firstContact
    /\ tx[w].phase \in Steering => tx[w].cycle \in Cycles
    /\ tx[w].phase = "task" => tx[w].task \in Tasks /\ tasks[tx[w].task].state # "absent"
    /\ tx[w].phase = "rolling" => \A d \in tx[w].dealSet : Exists(d)

TablesOK ==
    /\ \A d \in Deals : Exists(d) => deals[d].stage \in Stages
    /\ \A t \in Tasks : tasks[t].state # "absent" =>
                           tasks[t].deal \in Deals /\ Exists(tasks[t].deal)

Inv == TypeOK /\ TablesOK /\ \A w \in Workers : SessionOK(w)

-----------------------------------------------------------------------------
(* What one step does to one deal and its history *)

Same(d) == deals'[d] = deals[d] /\ history'[d] = history[d]

Born(d, t) ==
    /\ ~Exists(d)
    /\ deals'[d].status = "open" /\ deals'[d].stage \in Stages
    /\ deals'[d].lastActivity = t
    /\ history'[d] = RecordEntry(<<>>, deals'[d].stage, t)

Written(d, t) ==
    /\ Exists(d)
    /\ deals'[d].status # "absent" /\ deals'[d].stage \in Stages
    /\ \/ /\ deals'[d].stage = deals[d].stage
          /\ history'[d] = history[d]
          /\ deals'[d].lastActivity \in
                {deals[d].lastActivity, Later(deals[d].lastActivity, t)}
       \/ /\ deals'[d].stage # deals[d].stage
          /\ history'[d] = RecordEntry(history[d], deals'[d].stage, t)
          /\ HistoryChecks(history'[d])
          /\ deals'[d].lastActivity = Later(deals[d].lastActivity, t)

\* At most the history of d changes, and every row read or written is typed.
DealStep(d, t) ==
    /\ deals' \in [Deals -> Row]
    /\ history' \in [Deals -> Seq(HistoryRow)]
    /\ \A e \in Deals : Same(e) \/ Born(e, t) \/ Written(e, t)
    /\ \A e \in Deals \ {d} : history'[e] = history[e]

-----------------------------------------------------------------------------
(* UPDATE, INSERT and the bulk writes are deal steps *)

LEMMA UpdateStep ==
    ASSUME Inv, NEW w \in Workers, tx[w].phase \in Holding,
           NEW assigned \in Row, NEW logs \in BOOLEAN,
           assigned.status # "absent", assigned.stage \in Stages,
           assigned.stage # tx[w].row.stage => logs,
           Update(w, assigned, logs)
    PROVE  DealStep(tx[w].deal, tx[w].start)
<1> DEFINE d == tx[w].deal
           t == tx[w].start
           new == Flush(deals[d], tx[w].row, assigned)
           h == HistoryAfter(d, deals[d], new, t)
<1>1. /\ d \in Deals /\ Exists(d) /\ deals[d] \in Row /\ deals[d].stage \in Stages
      /\ t \in Nat /\ tx[w].row \in Row /\ history[d] \in Seq(HistoryRow)
  BY DEF Inv, TypeOK, TablesOK, SessionOK, Session, Holding
<1>2. /\ new \in Row
      /\ new.lastActivity = deals[d].lastActivity
      /\ new.status \in {deals[d].status, assigned.status}
      /\ new.stage \in {deals[d].stage, assigned.stage}
      /\ assigned.stage = tx[w].row.stage => new.stage = deals[d].stage
  BY <1>1, FlushRow
<1>3. /\ deals' = [deals EXCEPT ![d] = IF logs THEN Touch(new, t) ELSE new]
      /\ history' = [history EXCEPT ![d] = h]
      /\ HistoryChecks(h)
  BY DEF Update
<1>4. h = IF new.stage = deals[d].stage THEN history[d]
          ELSE RecordEntry(history[d], new.stage, t)
  BY DEF HistoryAfter
<1> HIDE DEF d, t, new, h
<1>5. /\ Touch(new, t) \in Row
      /\ Touch(new, t) = [new EXCEPT !.lastActivity = Later(new.lastActivity, t)]
  BY <1>1, <1>2, TouchRow
<1>6. /\ Touch(new, t).status = new.status /\ Touch(new, t).stage = new.stage
      /\ Touch(new, t).lastActivity = Later(new.lastActivity, t)
  BY <1>2, <1>5 DEF Row
<1>7. new.status # "absent" /\ new.stage \in Stages
  BY <1>1, <1>2 DEF Exists
<1>8. h \in Seq(HistoryRow)
  BY <1>1, <1>4, <1>7, RecordEntrySeq
<1>9. deals' \in [Deals -> Row] /\ history' \in [Deals -> Seq(HistoryRow)]
  BY <1>2, <1>3, <1>5, <1>8 DEF Inv, TypeOK
<1>10. \A e \in Deals \ {d} : deals'[e] = deals[e] /\ history'[e] = history[e]
  BY <1>3 DEF Inv, TypeOK
<1>11. /\ deals'[d] = IF logs THEN Touch(new, t) ELSE new
       /\ history'[d] = h
  BY <1>1, <1>3 DEF Inv, TypeOK
<1>12. Written(d, t)
  <2>1. CASE new.stage = deals[d].stage
    BY <1>1, <1>2, <1>4, <1>6, <1>7, <1>11, <2>1 DEF Written
  <2>2. CASE new.stage # deals[d].stage
    <3>1. logs
      BY <1>2, <2>2
    <3> QED
      BY <1>1, <1>2, <1>3, <1>4, <1>6, <1>7, <1>11, <2>2, <3>1 DEF Written
  <2> QED
    BY <2>1, <2>2
<1> QED
  BY <1>9, <1>10, <1>12 DEF DealStep, Same, d, t

LEMMA InsertStep ==
    ASSUME Inv, NEW w \in Workers, tx[w].phase # "idle",
           NEW d \in Deals, NEW row \in Row,
           row.status = "open", row.stage \in Stages, Insert(w, d, row)
    PROVE  DealStep(d, tx[w].start)
<1> DEFINE t == tx[w].start
<1>1. t \in Nat
  BY DEF Inv, TypeOK, Session
<1>2. RecordEntry(<<>>, row.stage, t) \in Seq(HistoryRow)
  <2>1. <<>> \in Seq(HistoryRow)
    BY EmptySeq
  <2> QED
    BY <1>1, <2>1, RecordEntrySeq
<1>3. [row EXCEPT !.lastActivity = t] \in Row
  BY <1>1 DEF Row
<1>4. /\ ~Exists(d)
      /\ deals' = [deals EXCEPT ![d] = [row EXCEPT !.lastActivity = t]]
      /\ history' = [history EXCEPT ![d] = RecordEntry(<<>>, row.stage, t)]
  BY DEF Insert
<1> HIDE DEF t
<1>5. deals' \in [Deals -> Row] /\ history' \in [Deals -> Seq(HistoryRow)]
  BY <1>2, <1>3, <1>4 DEF Inv, TypeOK
<1>6. \A e \in Deals \ {d} : deals'[e] = deals[e] /\ history'[e] = history[e]
  BY <1>4 DEF Inv, TypeOK
<1>7. /\ deals'[d] = [row EXCEPT !.lastActivity = t]
      /\ history'[d] = RecordEntry(<<>>, row.stage, t)
  BY <1>4 DEF Inv, TypeOK
<1>8. /\ deals'[d].status = "open" /\ deals'[d].stage = row.stage
      /\ deals'[d].lastActivity = t
  BY <1>7 DEF Row
<1>9. Born(d, t)
  BY <1>4, <1>7, <1>8 DEF Born
<1> QED
  BY <1>5, <1>6, <1>9 DEF DealStep, Same, t

LEMMA RolloverStep ==
    ASSUME Inv, NEW w \in Workers, FinishRollover(w), NEW d \in Deals
    PROVE  DealStep(d, tx[w].start)
<1> DEFINE t == tx[w].start
           a == tx[w].cycle
           moved(e) == Touch([deals[e] EXCEPT !.cycle = a], t)
<1>1. t \in Nat /\ a \in Cycles
  BY DEF Inv, TypeOK, Session, SessionOK, FinishRollover, Steering
<1>2. deals' = [e \in Deals |-> IF e \in tx[w].dealSet THEN moved(e) ELSE deals[e]]
  BY DEF FinishRollover
<1>3. history' = history
  BY DEF FinishRollover
<1> HIDE DEF t, a
<1>4. ASSUME NEW e \in Deals
      PROVE  /\ moved(e) \in Row
             /\ moved(e).status = deals[e].status /\ moved(e).stage = deals[e].stage
             /\ moved(e).lastActivity = Later(deals[e].lastActivity, t)
  <2>1. /\ deals[e] \in Row /\ [deals[e] EXCEPT !.cycle = a] \in Row
        /\ [deals[e] EXCEPT !.cycle = a].lastActivity = deals[e].lastActivity
        /\ [deals[e] EXCEPT !.cycle = a].status = deals[e].status
        /\ [deals[e] EXCEPT !.cycle = a].stage = deals[e].stage
    BY <1>1 DEF Inv, TypeOK, Row
  <2> DEFINE r == [deals[e] EXCEPT !.cycle = a]
  <2> HIDE DEF r
  <2>2. /\ Touch(r, t) \in Row
        /\ Touch(r, t) = [r EXCEPT !.lastActivity = Later(r.lastActivity, t)]
    BY <1>1, <2>1, TouchRow DEF r
  <2>3. /\ Touch(r, t).status = r.status /\ Touch(r, t).stage = r.stage
        /\ Touch(r, t).lastActivity = Later(r.lastActivity, t)
    BY <2>1, <2>2 DEF Row, r
  <2> QED
    BY <2>1, <2>2, <2>3 DEF r
<1> HIDE DEF moved
<1>5. deals' \in [Deals -> Row] /\ history' \in [Deals -> Seq(HistoryRow)]
  BY <1>2, <1>3, <1>4 DEF Inv, TypeOK
<1>6. \A e \in Deals : Same(e) \/ Written(e, t)
  <2> SUFFICES ASSUME NEW e \in Deals, e \in tx[w].dealSet
               PROVE  Written(e, t)
    BY <1>2, <1>3 DEF Same
  <2>1. Exists(e) /\ deals[e].stage \in Stages
    BY DEF Inv, TablesOK, SessionOK, FinishRollover
  <2> QED
    BY <1>2, <1>3, <1>4, <2>1 DEF Written, Exists
<1> QED
  BY <1>3, <1>5, <1>6 DEF DealStep, t

LEMMA NewDealRow ==
    ASSUME NEW s \in Stages, NEW o \in Users \cup {None},
           NEW c \in Cycles \cup {None}, NEW e \in SUBSET Keys
    PROVE  /\ NewDeal(s, o, c, e) \in Row
           /\ NewDeal(s, o, c, e).status = "open" /\ NewDeal(s, o, c, e).stage = s
BY DEF NewDeal, NoDeal, Row

LEMMA RescueStep ==
    ASSUME Inv, NEW w \in Workers, FinishRescue(w)
    PROVE  \E d \in Deals : DealStep(d, tx[w].start)
<1> DEFINE old == tx[w].deal
           t == tx[w].start
           new == NewDeal(FirstStage, tx[w].user, tx[w].cycle,
                          tx[w].row.enrollment \cap CarriedKeys)
           born == [new EXCEPT !.lastActivity = t]
           h == RecordEntry(<<>>, FirstStage, t)
<1>1. /\ t \in Nat /\ old \in Deals /\ Exists(old) /\ deals[old] \in Row
      /\ deals[old].stage \in Stages /\ FirstStage \in Stages
  BY PipelineAssumption
  DEF Inv, TypeOK, TablesOK, Session, SessionOK, FinishRescue, Holding
<1>2. PICK d \in Deals :
         /\ ~Exists(d)
         /\ deals' = [deals EXCEPT ![d] = born, ![old] = Touch(@, t)]
         /\ history' = [history EXCEPT ![d] = h]
  BY DEF FinishRescue
<1>3. new \in Row /\ new.status = "open" /\ new.stage = FirstStage
  <2>1. /\ tx[w].user \in Users \cup {None} /\ tx[w].cycle \in Cycles \cup {None}
        /\ tx[w].row.enrollment \cap CarriedKeys \in SUBSET Keys
    BY DEF Inv, TypeOK, Session, Row
  <2> QED
    BY <1>1, <2>1, NewDealRow
<1>4. h \in Seq(HistoryRow)
  <2>1. <<>> \in Seq(HistoryRow)
    BY EmptySeq
  <2> QED
    BY <1>1, <2>1, RecordEntrySeq
<1> HIDE DEF old, t, new, h
<1>5. /\ born \in Row /\ born.status = "open" /\ born.stage = FirstStage
      /\ born.lastActivity = t
  BY <1>1, <1>3 DEF Row
<1> HIDE DEF born
<1>6. /\ Touch(deals[old], t) \in Row
      /\ Touch(deals[old], t) = [deals[old] EXCEPT !.lastActivity = Later(deals[old].lastActivity, t)]
  BY <1>1, TouchRow
<1>7. /\ Touch(deals[old], t).status = deals[old].status
      /\ Touch(deals[old], t).stage = deals[old].stage
      /\ Touch(deals[old], t).lastActivity = Later(deals[old].lastActivity, t)
  BY <1>1, <1>6 DEF Row
<1>8. d # old
  BY <1>1, <1>2
<1>9. /\ deals' \in [Deals -> Row]
      /\ deals'[d] = born /\ deals'[old] = Touch(deals[old], t)
      /\ \A e \in Deals \ {d, old} : deals'[e] = deals[e]
  BY <1>1, <1>2, <1>5, <1>6, <1>8 DEF Inv, TypeOK
<1>10. /\ history' \in [Deals -> Seq(HistoryRow)]
       /\ history'[d] = h
       /\ \A e \in Deals \ {d} : history'[e] = history[e]
  BY <1>2, <1>4 DEF Inv, TypeOK
<1>11. Born(d, t)
  BY <1>1, <1>2, <1>5, <1>9, <1>10 DEF Born, h
<1>12. Written(old, t)
  BY <1>1, <1>7, <1>8, <1>9, <1>10 DEF Written, Exists
<1> QED
  BY <1>9, <1>10, <1>11, <1>12 DEF DealStep, Same, t

-----------------------------------------------------------------------------
(* Every step of the specification is a deal step, or leaves deals alone *)

DealsKept == deals' = deals /\ history' = history

DealStepTaken ==
    DealsKept \/ \E d \in Deals, t \in 1 .. clock : DealStep(d, t)

\* What the handlers may assign to a loaded row.
Assignable(row) == row \in Row /\ row.status # "absent" /\ row.stage \in Stages

LEMMA HandlerStep ==
    ASSUME Inv, NEW w \in Workers, tx[w].phase \in Holding,
           NEW assigned, Assignable(assigned), NEW logs \in BOOLEAN,
           assigned.stage # tx[w].row.stage => logs,
           Update(w, assigned, logs)
    PROVE  DealStepTaken
<1>1. tx[w].deal \in Deals /\ tx[w].start \in 1 .. clock
  BY DEF Inv, SessionOK, Holding
<1>2. DealStep(tx[w].deal, tx[w].start)
  BY UpdateStep DEF Assignable
<1> QED
  BY <1>1, <1>2 DEF DealStepTaken

LEMMA LoadedRow ==
    ASSUME Inv, NEW w \in Workers, tx[w].phase \in Holding
    PROVE  /\ Assignable(tx[w].row)
           /\ tx[w].start \in Nat \ {0}
BY DEF Inv, TypeOK, SessionOK, Session, Holding, Assignable

LEMMA AssignedRows ==
    ASSUME NEW row, Assignable(row), NEW t \in Nat
    PROVE  /\ Assignable(Won(row, t))
           /\ Assignable(Lost(row, t)) /\ Lost(row, t).stage = row.stage
           /\ Assignable(Reopened(row)) /\ Reopened(row).stage = row.stage
           /\ Assignable(Contacted(row, t)) /\ Contacted(row, t).stage = row.stage
           /\ Assignable([row EXCEPT !.firstContact = t])
           /\ [row EXCEPT !.firstContact = t].stage = row.stage
           /\ Assignable([row EXCEPT !.deleted = TRUE])
           /\ [row EXCEPT !.deleted = TRUE].stage = row.stage
           /\ \A s \in Stages : Assignable([row EXCEPT !.stage = s])
           /\ \A u \in Users : /\ Assignable([row EXCEPT !.owner = u])
                               /\ [row EXCEPT !.owner = u].stage = row.stage
                               /\ [row EXCEPT !.owner = u].status = row.status
                               /\ [row EXCEPT !.owner = u].firstContact = row.firstContact
           /\ \A p \in Patches : /\ Assignable(Patched(row, p))
                                 /\ Patched(row, p).stage = row.stage
                                 /\ Patched(row, p).status = row.status
                                 /\ Patched(row, p).firstContact = row.firstContact
<1>1. Assignable(Won(row, t))
  BY PipelineAssumption DEF Assignable, Won, Row, Closed
<1>2. Assignable(Lost(row, t)) /\ Lost(row, t).stage = row.stage
  BY DEF Assignable, Lost, Row, Closed
<1>3. Assignable(Reopened(row)) /\ Reopened(row).stage = row.stage
  BY DEF Assignable, Reopened, Row, Closed
<1>4. Assignable(Contacted(row, t)) /\ Contacted(row, t).stage = row.stage
  BY DEF Assignable, Contacted, Row
<1>5. /\ Assignable([row EXCEPT !.firstContact = t])
      /\ [row EXCEPT !.firstContact = t].stage = row.stage
      /\ Assignable([row EXCEPT !.deleted = TRUE])
      /\ [row EXCEPT !.deleted = TRUE].stage = row.stage
      /\ \A s \in Stages : Assignable([row EXCEPT !.stage = s])
  BY DEF Assignable, Row
<1>6. \A u \in Users : /\ Assignable([row EXCEPT !.owner = u])
                      /\ [row EXCEPT !.owner = u].stage = row.stage
                      /\ [row EXCEPT !.owner = u].status = row.status
                      /\ [row EXCEPT !.owner = u].firstContact = row.firstContact
  BY DEF Assignable, Row
<1>7. \A p \in Patches : /\ Assignable(Patched(row, p))
                        /\ Patched(row, p).stage = row.stage
                        /\ Patched(row, p).status = row.status
                        /\ Patched(row, p).firstContact = row.firstContact
  <2> SUFFICES ASSUME NEW p \in Patches
               PROVE  /\ Assignable(Patched(row, p))
                      /\ Patched(row, p).stage = row.stage
                      /\ Patched(row, p).status = row.status
                      /\ Patched(row, p).firstContact = row.firstContact
    OBVIOUS
  <2> DEFINE e == IF p.mode = "merge" THEN Merged(row.enrollment, p.set, p.cleared) ELSE p.set
  <2>1. e \in SUBSET Keys
    BY DEF Patches, Merged, Assignable, Row
  <2>2. Patched(row, p) = [row EXCEPT !.enrollment = e]
    BY DEF Patched
  <2> HIDE DEF e
  <2> QED
    BY <2>1, <2>2 DEF Assignable, Row
<1> QED
  BY <1>1, <1>2, <1>3, <1>4, <1>5, <1>6, <1>7

LEMMA LifecycleDeals ==
    ASSUME Inv, NEW w \in Workers, LifecycleStep(w)
    PROVE  DealStepTaken
<1> USE DEF Save
<1>1. CASE CreateDeal(w)
  <2>1. PICK u \in Users, d \in Deals, c \in Cycles, e \in SUBSET Keys, s \in Stages,
             o \in Users \cup {None} : Insert(w, d, NewDeal(s, o, c, e))
    BY <1>1 DEF CreateDeal
  <2>2. /\ NewDeal(s, o, c, e) \in Row /\ NewDeal(s, o, c, e).status = "open"
        /\ NewDeal(s, o, c, e).stage = s
    BY NewDealRow
  <2>3. tx[w].phase # "idle" /\ tx[w].start \in 1 .. clock
    BY <1>1 DEF CreateDeal, Inv, SessionOK
  <2>4. DealStep(d, tx[w].start)
    BY <2>1, <2>2, <2>3, InsertStep
  <2> QED
    BY <2>3, <2>4 DEF DealStepTaken
<1>2. CASE StartCapture(w)
  BY <1>2 DEF StartCapture, DealStepTaken, DealsKept, tables
<1>3. CASE FinishCapture(w)
  <2>1. PICK d \in Deals, e \in {{}} \cup {{k} : k \in Keys} :
             Insert(w, d, NewDeal(FirstStage, None, tx[w].cycle, e))
    BY <1>3 DEF FinishCapture
  <2>2. tx[w].cycle \in Cycles \cup {None} /\ e \in SUBSET Keys /\ FirstStage \in Stages
    BY PipelineAssumption DEF Inv, TypeOK, Session
  <2> DEFINE new == NewDeal(FirstStage, None, tx[w].cycle, e)
  <2>3. new \in Row /\ new.status = "open" /\ new.stage = FirstStage
    BY <2>2, NewDealRow
  <2>4. tx[w].phase # "idle" /\ tx[w].start \in 1 .. clock
    BY <1>3 DEF FinishCapture, Inv, SessionOK
  <2>5. DealStep(d, tx[w].start)
    BY <2>1, <2>2, <2>3, <2>4, InsertStep
  <2> QED
    BY <2>4, <2>5 DEF DealStepTaken
<1>4. CASE MoveStage(w)
  <2>1. PICK s \in Stages : Save(w, [tx[w].row EXCEPT !.stage = s], TRUE)
    BY <1>4 DEF MoveStage
  <2>2. tx[w].phase \in Holding
    BY <1>4 DEF MoveStage, MayTransition, MayEdit, Holding
  <2>3. Assignable([tx[w].row EXCEPT !.stage = s])
    BY <2>2, LoadedRow, AssignedRows
  <2> QED
    BY <2>1, <2>2, <2>3, HandlerStep
<1>5. CASE MarkWon(w)
  <2>1. tx[w].phase \in Holding
    BY <1>5 DEF MarkWon, MayTransition, MayEdit, Holding
  <2>2. Assignable(Won(tx[w].row, tx[w].start))
    BY <2>1, LoadedRow, AssignedRows
  <2> QED
    BY <1>5, <2>1, <2>2, HandlerStep DEF MarkWon
<1>6. CASE MarkLost(w)
  <2>1. tx[w].phase \in Holding
    BY <1>6 DEF MarkLost, MayTransition, MayEdit, Holding
  <2>2. Assignable(Lost(tx[w].row, tx[w].start))
    BY <2>1, LoadedRow, AssignedRows
  <2> QED
    BY <1>6, <2>1, <2>2, HandlerStep DEF MarkLost
<1>7. CASE Reopen(w)
  <2>1. tx[w].phase \in Holding
    BY <1>7 DEF Reopen, Holding
  <2>2. Assignable(Reopened(tx[w].row))
    BY <2>1, LoadedRow, AssignedRows
  <2> QED
    BY <1>7, <2>1, <2>2, HandlerStep DEF Reopen
<1>8. CASE DeleteDeal(w)
  <2>1. tx[w].phase \in Holding
    BY <1>8 DEF DeleteDeal, Holding
  <2>2. /\ Assignable([tx[w].row EXCEPT !.deleted = TRUE])
        /\ [tx[w].row EXCEPT !.deleted = TRUE].stage = tx[w].row.stage
    BY <2>1, LoadedRow, AssignedRows
  <2> QED
    BY <1>8, <2>1, <2>2, HandlerStep DEF DeleteDeal
<1> QED
  BY <1>1, <1>2, <1>3, <1>4, <1>5, <1>6, <1>7, <1>8 DEF LifecycleStep

LEMMA OwnershipDeals ==
    ASSUME Inv, NEW w \in Workers, OwnershipStep(w)
    PROVE  DealStepTaken
<1> USE DEF Save
<1>1. CASE Claim(w)
  BY <1>1 DEF Claim, TakeOver, DealStepTaken, DealsKept, tables
<1>2. CASE \E p \in Patches : UpdateDeal(w, p)
  <2>1. PICK p \in Patches : Save(w, Patched(tx[w].row, p), FALSE)
    BY <1>2 DEF UpdateDeal
  <2>2. tx[w].phase \in Holding
    BY <1>2 DEF UpdateDeal, MayEdit, Holding
  <2>3. /\ Assignable(Patched(tx[w].row, p))
        /\ Patched(tx[w].row, p).stage = tx[w].row.stage
    BY <2>2, LoadedRow, AssignedRows
  <2> QED
    BY <2>1, <2>2, <2>3, HandlerStep
<1>3. CASE \E p \in Patches : ChangeOwner(w, p)
  BY <1>3 DEF ChangeOwner, TakeOver, DealStepTaken, DealsKept, tables
<1>4. CASE FinishTakeOver(w)
  <2>1. tx[w].phase \in Holding
    BY <1>4 DEF FinishTakeOver, Holding
  <2>2. Assignable(tx[w].assigned) /\ tx[w].assigned.stage = tx[w].row.stage
    BY <1>4, <2>1 DEF FinishTakeOver, Inv, TypeOK, Session, SessionOK, Assignable
  <2> QED
    BY <1>4, <2>1, <2>2, HandlerStep DEF FinishTakeOver
<1>5. CASE CreateTask(w)
  <2>1. tx[w].phase \in Holding
    BY <1>5 DEF CreateTask, MayEdit, Holding
  <2> QED
    BY <1>5, <2>1, LoadedRow, HandlerStep DEF CreateTask
<1>6. CASE LoadTask(w)
  BY <1>6 DEF LoadTask, DealStepTaken, DealsKept, tables
<1>7. CASE UpdateTask(w)
  <2>1. CASE Save(w, tx[w].row, TRUE)
    <3>1. tx[w].phase \in Holding
      BY <1>7 DEF UpdateTask, Holding
    <3> QED
      BY <2>1, <3>1, LoadedRow, HandlerStep
  <2>2. CASE UNCHANGED <<deals, history>>
    BY <2>2 DEF DealStepTaken, DealsKept
  <2> QED
    BY <1>7, <2>1, <2>2 DEF UpdateTask
<1>8. CASE DeleteTask(w)
  BY <1>8 DEF DeleteTask, DealStepTaken, DealsKept
<1> QED
  BY <1>1, <1>2, <1>3, <1>4, <1>5, <1>6, <1>7, <1>8 DEF OwnershipStep

LEMMA ContactDeals ==
    ASSUME Inv, NEW w \in Workers, ContactStep(w)
    PROVE  DealStepTaken
<1> USE DEF Save
<1>1. tx[w].phase \in Holding
  BY DEF ContactStep, RegisterFirstContact, CorrectFirstContact, QuickLog, AddNote,
         MayTransition, MayEdit, Holding
<1>2. /\ Assignable(tx[w].row)
      /\ Assignable([tx[w].row EXCEPT !.firstContact = tx[w].start])
      /\ [tx[w].row EXCEPT !.firstContact = tx[w].start].stage = tx[w].row.stage
      /\ Assignable(Contacted(tx[w].row, tx[w].start))
      /\ Contacted(tx[w].row, tx[w].start).stage = tx[w].row.stage
  BY <1>1, LoadedRow, AssignedRows
<1>3. CASE RegisterFirstContact(w)
  BY <1>1, <1>2, <1>3, HandlerStep DEF RegisterFirstContact
<1>4. CASE CorrectFirstContact(w)
  BY <1>1, <1>2, <1>4, HandlerStep DEF CorrectFirstContact
<1>5. CASE QuickLog(w)
  BY <1>1, <1>2, <1>5, HandlerStep DEF QuickLog
<1>6. CASE AddNote(w)
  BY <1>1, <1>2, <1>6, HandlerStep DEF AddNote
<1> QED
  BY <1>3, <1>4, <1>5, <1>6 DEF ContactStep

LEMMA CyclesDeals ==
    ASSUME Inv, NEW w \in Workers, CyclesStep(w)
    PROVE  DealStepTaken
<1>1. CASE StartActivate(w) \/ StartRollover(w) \/ StartRescue(w)
  BY <1>1 DEF StartActivate, StartRollover, StartRescue, DealStepTaken, DealsKept, tables
<1>2. CASE FinishActivate(w)
  BY <1>2 DEF FinishActivate, DealStepTaken, DealsKept
<1>3. CASE FinishRollover(w)
  <2>1. tx[w].start \in 1 .. clock
    BY <1>3 DEF FinishRollover, Inv, SessionOK
  <2>2. CASE Deals = {}
    <3>1. deals' = deals /\ history' = history
      BY <1>3, <2>2 DEF FinishRollover, Inv, TypeOK
    <3> QED
      BY <3>1 DEF DealStepTaken, DealsKept
  <2>3. CASE Deals # {}
    BY <1>3, <2>1, <2>3, RolloverStep DEF DealStepTaken
  <2> QED
    BY <2>2, <2>3
<1>4. CASE FinishRescue(w)
  <2>1. tx[w].start \in 1 .. clock
    BY <1>4 DEF FinishRescue, Inv, SessionOK
  <2> QED
    BY <1>4, <2>1, RescueStep DEF DealStepTaken
<1> QED
  BY <1>1, <1>2, <1>3, <1>4 DEF CyclesStep

LEMMA EveryStep ==
    ASSUME Inv, [Next]_vars
    PROVE  DealStepTaken
<1>1. CASE UNCHANGED vars
  BY <1>1 DEF vars, tables, DealStepTaken, DealsKept
<1>2. CASE Next
  <2> PICK w \in Workers :
        \/ Begin(w) \/ Load(w) \/ Abort(w)
        \/ LifecycleStep(w) \/ OwnershipStep(w) \/ ContactStep(w) \/ CyclesStep(w)
    BY <1>2 DEF Next
  <2>1. CASE Begin(w) \/ Load(w) \/ Abort(w)
    BY <2>1 DEF Begin, Load, Abort, tables, DealStepTaken, DealsKept
  <2> QED
    BY <2>1, LifecycleDeals, OwnershipDeals, ContactDeals, CyclesDeals
<1> QED
  BY <1>1, <1>2

-----------------------------------------------------------------------------
(* Tasks stay consistent with the deals *)

\* A deal, once inserted, is never without a row again.
LEMMA RowsStay ==
    ASSUME Inv, DealStepTaken, NEW d \in Deals, Exists(d)
    PROVE  Exists(d)' /\ (deals'[d].stage \in Stages)
<1>1. CASE DealsKept
  BY <1>1 DEF DealsKept, Exists, Inv, TablesOK
<1>2. CASE \E e \in Deals, t \in 1 .. clock : DealStep(e, t)
  <2>1. PICK t \in 1 .. clock : Same(d) \/ Born(d, t) \/ Written(d, t)
    BY <1>2 DEF DealStep
  <2> QED
    BY <2>1 DEF Same, Born, Written, Exists, Inv, TablesOK
<1> QED
  BY <1>1, <1>2 DEF DealStepTaken

TasksOK ==
    /\ tasks \in [Tasks -> TaskRow]
    /\ \A t \in Tasks : tasks[t].state # "absent" =>
                           tasks[t].deal \in Deals /\ Exists(tasks[t].deal)

TasksStay == \A t \in Tasks : tasks[t].state # "absent" => tasks'[t].state # "absent"

TasksStep == TasksOK' /\ TasksStay

LEMMA TasksKept ==
    ASSUME Inv, DealStepTaken, UNCHANGED tasks
    PROVE  TasksStep
<1>1. \A d \in Deals : Exists(d) => Exists(d)'
  BY RowsStay
<1> QED
  BY <1>1 DEF TasksStep, TasksStay, TasksOK, Inv, TypeOK, TablesOK

\* One task is written; its deal is there.
LEMMA TaskWritten ==
    ASSUME Inv, DealStepTaken, NEW t \in Tasks, NEW row \in TaskRow,
           row.state # "absent", row.deal \in Deals /\ Exists(row.deal)',
           tasks' = [tasks EXCEPT ![t] = row]
    PROVE  TasksStep
<1>1. \A d \in Deals : Exists(d) => Exists(d)'
  BY RowsStay
<1>2. tasks' \in [Tasks -> TaskRow] /\ tasks'[t] = row
  BY DEF Inv, TypeOK
<1>3. ASSUME NEW v \in Tasks, tasks'[v].state # "absent"
      PROVE  tasks'[v].deal \in Deals /\ Exists(tasks[v].deal)'
  <2>1. CASE v = t
    BY <1>2, <1>3, <2>1 DEF Exists
  <2>2. CASE v # t
    <3>1. tasks'[v] = tasks[v]
      BY <2>2 DEF Inv, TypeOK
    <3>2. tasks[v].deal \in Deals /\ Exists(tasks[v].deal)
      BY <1>3, <3>1 DEF Inv, TablesOK
    <3> QED
      BY <1>1, <3>1, <3>2 DEF Exists
  <2> QED
    BY <2>1, <2>2
<1>4. TasksStay
  BY <1>2 DEF TasksStay, Inv, TypeOK
<1> QED
  BY <1>2, <1>3, <1>4 DEF TasksStep, TasksOK, Exists

LEMMA TodoAdded ==
    ASSUME Inv, DealStepTaken, NEW d \in Deals, Exists(d)',
           NEW t \in Tasks, NEW a \in Users \cup {None},
           tasks' = [tasks EXCEPT ![t] = [state |-> "todo", deal |-> d, assignee |-> a]]
    PROVE  TasksStep
<1> DEFINE row == [state |-> "todo", deal |-> d, assignee |-> a]
<1>1. row \in TaskRow /\ row.deal = d /\ row.state = "todo"
  BY DEF TaskRow
<1> HIDE DEF row
<1>2. tasks' = [tasks EXCEPT ![t] = row]
  BY DEF row
<1> QED
  BY <1>1, <1>2, TaskWritten, Zenon

Followed(t) == /\ tasks'[t].deal = tasks[t].deal
               /\ (tasks[t].state = "absent") <=> (tasks'[t].state = "absent")

\* Only assignees, or the state of existing tasks, change.
LEMMA TasksRewritten ==
    ASSUME Inv, DealStepTaken, tasks' \in [Tasks -> TaskRow],
           \A t \in Tasks : Followed(t)
    PROVE  TasksStep
<1>1. \A d \in Deals : Exists(d) => Exists(d)'
  BY RowsStay
<1>2. ASSUME NEW t \in Tasks, tasks'[t].state # "absent"
      PROVE  tasks'[t].deal \in Deals /\ deals'[tasks'[t].deal].status # "absent"
  <2>1. tasks[t].deal \in Deals /\ Exists(tasks[t].deal)
    BY <1>2 DEF Inv, TablesOK, Followed
  <2> QED
    BY <1>1, <2>1 DEF Exists, Followed
<1> QED
  BY <1>2 DEF TasksStep, TasksStay, Followed, TasksOK, Exists

LEMMA EveryTask ==
    ASSUME Inv, [Next]_vars, DealStepTaken
    PROVE  TasksStep
<1>1. CASE UNCHANGED tasks
  BY <1>1, TasksKept
<1>2. CASE Next
  <2> PICK w \in Workers :
        \/ Begin(w) \/ Load(w) \/ Abort(w)
        \/ LifecycleStep(w) \/ OwnershipStep(w) \/ ContactStep(w) \/ CyclesStep(w)
    BY <1>2 DEF Next
  <2>1. \A d \in Deals : Exists(d) => Exists(d)'
    BY RowsStay
  <2>2. CASE Begin(w) \/ Load(w) \/ Abort(w) \/ CyclesStep(w)
    BY <1>1, <2>2 DEF Begin, Load, Abort, tables, CyclesStep, StartActivate, FinishActivate,
                      StartRollover, FinishRollover, StartRescue, FinishRescue
  <2>3. CASE FinishCapture(w)
    <3>1. PICK d \in Deals, e \in {{}} \cup {{k} : k \in Keys} :
             /\ Insert(w, d, NewDeal(FirstStage, None, tx[w].cycle, e))
             /\ \/ UNCHANGED tasks
                \/ \E t \in Tasks :
                      /\ tasks[t] = NoTask
                      /\ tasks' = [tasks EXCEPT ![t] =
                                     [state |-> "todo", deal |-> d, assignee |-> None]]
      BY <2>3 DEF FinishCapture
    <3> DEFINE new == NewDeal(FirstStage, None, tx[w].cycle, e)
    <3>2. new \in Row /\ new.status = "open"
      <4>1. tx[w].cycle \in Cycles \cup {None} /\ e \in SUBSET Keys /\ FirstStage \in Stages
        BY PipelineAssumption DEF Inv, TypeOK, Session
      <4> QED
        BY <4>1, NewDealRow
    <3>3. Insert(w, d, new)
      BY <3>1
    <3> HIDE DEF new
    <3>4. Exists(d)'
      BY <3>2, <3>3 DEF Insert, Exists, Inv, TypeOK, Row
    <3> QED
      BY <1>1, <3>1, <3>4, TodoAdded
  <2>4. CASE FinishTakeOver(w)
    <3>1. tasks' = Assigned(tx[w].taskSet, tx[w].assigned.owner)
      BY <2>4 DEF FinishTakeOver
    <3>2. tx[w].assigned.owner \in Users \cup {None}
      BY DEF Inv, TypeOK, Session, Row
    <3>3. tasks' \in [Tasks -> TaskRow]
      BY <3>1, <3>2 DEF Assigned, Inv, TypeOK, TaskRow
    <3>4. \A t \in Tasks : Followed(t)
      BY <3>1 DEF Assigned, Followed, Inv, TypeOK, TaskRow
    <3> QED
      BY <3>3, <3>4, TasksRewritten
  <2>5. CASE CreateTask(w) \/ QuickLog(w)
    <3>1. tx[w].phase \in Holding /\ tx[w].user \in Users \cup {None}
          /\ tx[w].row.owner \in Users \cup {None}
      BY <2>5 DEF CreateTask, QuickLog, MayTransition, MayEdit, Holding, Inv, TypeOK,
                  Session, Row
    <3>2. tx[w].deal \in Deals /\ Exists(tx[w].deal)
      BY <3>1 DEF Inv, SessionOK
    <3>3. tx[w].deal \in Deals /\ (\A d \in Deals : d = tx[w].deal => Exists(d)')
      BY <2>1, <3>2
    <3>4. \/ UNCHANGED tasks
          \/ \E t \in Tasks, a \in Users \cup {None}, d \in Deals :
                /\ d = tx[w].deal
                /\ tasks' = [tasks EXCEPT ![t] =
                               [state |-> "todo", deal |-> d, assignee |-> a]]
      <4>1. CASE CreateTask(w)
        BY <3>2, <4>1 DEF CreateTask
      <4>2. CASE QuickLog(w)
        <5>1. \/ UNCHANGED tasks
              \/ \E t \in Tasks :
                    tasks' = [tasks EXCEPT ![t] =
                                [state |-> "todo", deal |-> tx[w].deal,
                                 assignee |-> IF tx[w].row.owner = None THEN tx[w].user
                                              ELSE tx[w].row.owner]]
          BY <4>2 DEF QuickLog
        <5>2. (IF tx[w].row.owner = None THEN tx[w].user ELSE tx[w].row.owner)
                 \in Users \cup {None}
          BY <3>1
        <5> QED
          BY <3>2, <5>1, <5>2
      <4> QED
        BY <2>5, <4>1, <4>2
    <3> QED
      BY <1>1, <3>3, <3>4, TodoAdded
  <2>6. CASE UpdateTask(w)
    <3> DEFINE t == tx[w].task
               loaded == tx[w].taskRow
    <3>1. PICK s \in {"todo", "done"}, a \in Users \cup {loaded.assignee} :
             tasks' = [tasks EXCEPT ![t] = FlushTask(tasks[t], loaded, s, a)]
      BY <2>6 DEF UpdateTask
    <3> DEFINE row == FlushTask(tasks[t], loaded, s, a)
    <3>2. a \in Users \cup {None} /\ tx[w].phase = "task"
      BY <2>6 DEF UpdateTask, Inv, TypeOK, Session, TaskRow
    <3>3. t \in Tasks /\ tasks[t].state # "absent" /\ tasks[t] \in TaskRow
      BY <3>2 DEF Inv, TypeOK, SessionOK
    <3>4. row \in TaskRow /\ row.deal = tasks[t].deal /\ row.state # "absent"
      BY <3>2, <3>3 DEF TaskRow, FlushTask, Column
    <3>5. tasks' = [tasks EXCEPT ![t] = row]
      BY <3>1
    <3> HIDE DEF row, t
    <3>6. tasks' \in [Tasks -> TaskRow] /\ \A v \in Tasks : Followed(v)
      BY <3>3, <3>4, <3>5 DEF Followed, Inv, TypeOK
    <3> QED
      BY <3>6, TasksRewritten
  <2>7. CASE DeleteTask(w)
    <3>1. tasks' = [tasks EXCEPT ![tx[w].task].state = "deleted"]
      BY <2>7 DEF DeleteTask
    <3>2. tx[w].task \in Tasks /\ tasks[tx[w].task].state # "absent"
      BY <2>7 DEF DeleteTask, Inv, SessionOK
    <3>3. tasks' \in [Tasks -> TaskRow]
      BY <3>1, <3>2 DEF Inv, TypeOK, TaskRow
    <3>4. \A v \in Tasks : Followed(v)
      BY <3>1, <3>2 DEF Followed, Inv, TypeOK, TaskRow
    <3> QED
      BY <3>3, <3>4, TasksRewritten
  <2>8. CASE LifecycleStep(w)
    BY <1>1, <2>3, <2>8
    DEF LifecycleStep, CreateDeal, StartCapture, MoveStage, MarkWon, MarkLost, Reopen,
        DeleteDeal, tables
  <2>9. CASE OwnershipStep(w)
    BY <1>1, <2>4, <2>5, <2>6, <2>7, <2>9
    DEF OwnershipStep, Claim, ChangeOwner, TakeOver, UpdateDeal, LoadTask, tables
  <2>10. CASE ContactStep(w)
    BY <1>1, <2>5, <2>10
    DEF ContactStep, RegisterFirstContact, CorrectFirstContact, AddNote
  <2> QED
    BY <2>2, <2>8, <2>9, <2>10
<1> QED
  BY <1>1, <1>2 DEF vars, tables

-----------------------------------------------------------------------------
(* Sessions stay consistent with the tables *)

SessionsOK == tx \in [Workers -> Session] /\ clock \in Nat /\ \A w \in Workers : SessionOK(w)

LEMMA OtherSessionKept ==
    ASSUME Inv, DealStepTaken, TasksStay, clock' \in Nat, clock' >= clock,
           NEW v \in Workers, tx'[v] = tx[v]
    PROVE  SessionOK(v)'
<1>1. \A d \in Deals : Exists(d) => Exists(d)'
  BY RowsStay
<1>2. SessionOK(v) /\ tx[v].dealSet \subseteq Deals /\ tx[v].start \in Nat /\ clock \in Nat
  BY DEF Inv, TypeOK, Session
<1>3. /\ tx'[v].phase # "idle" => tx'[v].start \in 1 .. clock'
      /\ tx'[v].phase \in Steering => tx'[v].cycle \in Cycles
  BY <1>2 DEF SessionOK
<1>4. tx'[v].phase \in Holding =>
          /\ tx'[v].deal \in Deals /\ Exists(tx[v].deal)'
          /\ tx'[v].row.status # "absent" /\ tx'[v].row.stage \in Stages
  BY <1>1, <1>2 DEF SessionOK
<1>5. tx'[v].phase = "task" =>
          tx'[v].task \in Tasks /\ tasks'[tx'[v].task].state # "absent"
  BY <1>2 DEF SessionOK, TasksStay
<1>6. tx'[v].phase = "rolling" => \A d \in tx'[v].dealSet : Exists(d)'
  BY <1>1, <1>2 DEF SessionOK
<1> QED
  BY <1>2, <1>3, <1>4, <1>5, <1>6 DEF SessionOK, Exists

LEMMA IdleSession == Idle \in Session
BY DEF Idle, Session, NoDeal, Row, NoTask, TaskRow

LEMMA SessionEnds ==
    ASSUME Inv, DealStepTaken, TasksStay, NEW w \in Workers, tx' = [tx EXCEPT ![w] = Idle],
           clock' = clock
    PROVE  SessionsOK'
<1>1. Idle \in Session
  BY IdleSession
<1>2. tx' \in [Workers -> Session] /\ clock' \in Nat
  BY <1>1 DEF Inv, TypeOK
<1>3. ASSUME NEW v \in Workers PROVE SessionOK(v)'
  <2>1. CASE v = w
    BY <2>1 DEF SessionOK, Idle, Holding, Steering, Inv, TypeOK
  <2>2. CASE v # w
    BY <2>2, OtherSessionKept DEF Inv, TypeOK
  <2> QED
    BY <2>1, <2>2
<1> QED
  BY <1>2, <1>3 DEF SessionsOK

LEMMA SessionMoves ==
    ASSUME Inv, DealStepTaken, TasksStay, NEW w \in Workers, NEW s \in Session,
           tx' = [tx EXCEPT ![w] = s], clock' \in Nat, clock' >= clock,
           SessionOK(w)'
    PROVE  SessionsOK'
<1>1. tx' \in [Workers -> Session]
  BY DEF Inv, TypeOK
<1>2. ASSUME NEW v \in Workers PROVE SessionOK(v)'
  <2>1. CASE v # w
    BY <2>1, OtherSessionKept DEF Inv, TypeOK
  <2> QED
    BY <2>1
<1> QED
  BY <1>1, <1>2 DEF SessionsOK

LEMMA BeginSession ==
    ASSUME Inv, DealStepTaken, TasksStay, NEW w \in Workers, Begin(w)
    PROVE  SessionsOK'
<1> DEFINE s == [Idle EXCEPT !.phase = "begun", !.start = clock + 1]
<1>1. /\ tx' = [tx EXCEPT ![w] = s] /\ clock' = clock + 1
      /\ clock \in Nat /\ tx'[w] = s
  BY DEF Begin, Inv, TypeOK
<1>2. s \in Session /\ s.phase = "begun" /\ s.start = clock + 1
  <2>1. clock + 1 \in Nat
    BY <1>1
  <2> QED
    BY <2>1, IdleSession DEF Session
<1> HIDE DEF s
<1>3. SessionOK(w)'
  BY <1>1, <1>2 DEF SessionOK, Holding, Steering
<1>4. clock' \in Nat /\ clock' >= clock
  BY <1>1
<1> QED
  BY <1>1, <1>2, <1>3, <1>4, SessionMoves, Zenon

LEMMA LoadSession ==
    ASSUME Inv, DealStepTaken, TasksStay, NEW w \in Workers, Load(w)
    PROVE  SessionsOK'
<1>1. PICK u \in Users, d \in Deals :
         /\ Visible(u, deals[d])
         /\ tx' = [tx EXCEPT ![w].phase = "loaded", ![w].user = u,
                             ![w].deal = d, ![w].row = deals[d]]
  BY DEF Load
<1> DEFINE s == [tx[w] EXCEPT !.phase = "loaded", !.user = u, !.deal = d, !.row = deals[d]]
<1>2. /\ tx[w] \in Session /\ deals[d] \in Row /\ clock' = clock /\ clock \in Nat
      /\ deals' = deals /\ tx[w].phase = "begun" /\ tx[w].start \in 1 .. clock
  BY DEF Load, Inv, TypeOK, SessionOK, tables
<1>3. tx' = [tx EXCEPT ![w] = s] /\ tx'[w] = s
  BY <1>1 DEF Inv, TypeOK
<1>4. /\ s \in Session /\ s.phase = "loaded" /\ s.start = tx[w].start /\ s.deal = d
      /\ s.row = deals[d]
  BY <1>2 DEF Session
<1>5. Exists(d) /\ deals[d].status # "absent" /\ deals[d].stage \in Stages
  BY <1>1 DEF Visible, Exists, Inv, TablesOK
<1> HIDE DEF s
<1>6. SessionOK(w)'
  BY <1>2, <1>3, <1>4, <1>5 DEF SessionOK, Holding, Steering, Exists
<1>7. clock' \in Nat /\ clock' >= clock
  BY <1>2
<1> QED
  BY <1>3, <1>4, <1>6, <1>7, SessionMoves, Zenon

LEMMA CaptureSession ==
    ASSUME Inv, DealStepTaken, TasksStay, NEW w \in Workers, StartCapture(w)
    PROVE  SessionsOK'
<1>1. PICK c \in Cycles :
         /\ IsActive(c)
         /\ tx' = [tx EXCEPT ![w].phase = "capturing",
                             ![w].cycle = c]
  BY DEF StartCapture
<1> DEFINE s == [tx[w] EXCEPT !.phase = "capturing",
                            !.cycle = c]
<1>2. /\ tx[w] \in Session /\ clock' = clock /\ clock \in Nat /\ deals' = deals
      /\ tx[w].start \in 1 .. clock
  BY DEF StartCapture, Inv, TypeOK, SessionOK, tables
<1>3. tx' = [tx EXCEPT ![w] = s] /\ tx'[w] = s
  BY <1>1, <1>2 DEF Inv, TypeOK
<1>4. /\ s \in Session /\ s.start = tx[w].start
      /\ s.phase = "capturing"
      /\ s.cycle = c
  BY <1>1, <1>2 DEF Session
<1> HIDE DEF s
<1>5. SessionOK(w)'
  BY <1>2, <1>3, <1>4 DEF SessionOK, Holding, Steering
<1>6. clock' \in Nat /\ clock' >= clock
  BY <1>2
<1> QED
  BY <1>3, <1>4, <1>5, <1>6, SessionMoves, Zenon

LEMMA ActivateSession ==
    ASSUME Inv, DealStepTaken, TasksStay, NEW w \in Workers, StartActivate(w)
    PROVE  SessionsOK'
<1>1. PICK c \in Cycles :
         /\ ~IsActive(c)
         /\ tx' = [tx EXCEPT ![w].phase = "activating",
                             ![w].cycle = c,
                             ![w].cycleSet = {a \in Cycles : IsActive(a)}]
  BY DEF StartActivate
<1> DEFINE s == [tx[w] EXCEPT !.phase = "activating",
                            !.cycle = c,
                            !.cycleSet = {a \in Cycles : IsActive(a)}]
<1>2. /\ tx[w] \in Session /\ clock' = clock /\ clock \in Nat /\ deals' = deals
      /\ tx[w].start \in 1 .. clock
  BY DEF StartActivate, Inv, TypeOK, SessionOK, tables
<1>3. tx' = [tx EXCEPT ![w] = s] /\ tx'[w] = s
  BY <1>1, <1>2 DEF Inv, TypeOK
<1>4. /\ s \in Session /\ s.start = tx[w].start
      /\ s.phase = "activating"
      /\ s.cycle = c
      /\ s.cycleSet = {a \in Cycles : IsActive(a)}
  BY <1>1, <1>2 DEF Session
<1> HIDE DEF s
<1>5. SessionOK(w)'
  BY <1>2, <1>3, <1>4 DEF SessionOK, Holding, Steering
<1>6. clock' \in Nat /\ clock' >= clock
  BY <1>2
<1> QED
  BY <1>3, <1>4, <1>5, <1>6, SessionMoves, Zenon

LEMMA RolloverSession ==
    ASSUME Inv, DealStepTaken, TasksStay, NEW w \in Workers, StartRollover(w)
    PROVE  SessionsOK'
<1>1. PICK a \in Cycles, c \in Cycles :
         /\ IsActive(a)
         /\ tx' = [tx EXCEPT ![w].phase = "rolling",
                             ![w].cycle = a,
                             ![w].dealSet = OpenDealsOf(c)]
  BY DEF StartRollover
<1> DEFINE s == [tx[w] EXCEPT !.phase = "rolling",
                            !.cycle = a,
                            !.dealSet = OpenDealsOf(c)]
<1>2. /\ tx[w] \in Session /\ clock' = clock /\ clock \in Nat /\ deals' = deals
      /\ tx[w].start \in 1 .. clock
      /\ OpenDealsOf(c) \subseteq Deals /\ \A d \in OpenDealsOf(c) : Exists(d)
  BY DEF StartRollover, Inv, TypeOK, SessionOK, tables, OpenDealsOf, Exists
<1>3. tx' = [tx EXCEPT ![w] = s] /\ tx'[w] = s
  BY <1>1, <1>2 DEF Inv, TypeOK
<1>4. /\ s \in Session /\ s.start = tx[w].start
      /\ s.phase = "rolling"
      /\ s.cycle = a
      /\ s.dealSet = OpenDealsOf(c)
  BY <1>1, <1>2 DEF Session
<1> HIDE DEF s
<1>5. SessionOK(w)'
  BY <1>2, <1>3, <1>4 DEF SessionOK, Holding, Steering, Exists
<1>6. clock' \in Nat /\ clock' >= clock
  BY <1>2
<1> QED
  BY <1>3, <1>4, <1>5, <1>6, SessionMoves, Zenon

LEMMA RescueSession ==
    ASSUME Inv, DealStepTaken, TasksStay, NEW w \in Workers, StartRescue(w)
    PROVE  SessionsOK'
<1>1. PICK a \in Cycles :
         /\ IsActive(a)
         /\ tx' = [tx EXCEPT ![w].phase = "rescuing",
                             ![w].cycle = a]
  BY DEF StartRescue
<1> DEFINE s == [tx[w] EXCEPT !.phase = "rescuing",
                            !.cycle = a]
<1>2. /\ tx[w] \in Session /\ clock' = clock /\ clock \in Nat /\ deals' = deals
      /\ tx[w].start \in 1 .. clock
      /\ tx[w].deal \in Deals /\ Exists(tx[w].deal)
      /\ tx[w].row.status # "absent" /\ tx[w].row.stage \in Stages
  BY DEF StartRescue, MayEdit, Inv, TypeOK, SessionOK, tables, Holding
<1>3. tx' = [tx EXCEPT ![w] = s] /\ tx'[w] = s
  BY <1>1, <1>2 DEF Inv, TypeOK
<1>4. /\ s \in Session /\ s.start = tx[w].start
      /\ s.phase = "rescuing"
      /\ s.cycle = a
      /\ s.deal = tx[w].deal /\ s.row = tx[w].row
  BY <1>1, <1>2 DEF Session
<1> HIDE DEF s
<1>5. SessionOK(w)'
  BY <1>2, <1>3, <1>4 DEF SessionOK, Holding, Steering, Exists
<1>6. clock' \in Nat /\ clock' >= clock
  BY <1>2
<1> QED
  BY <1>3, <1>4, <1>5, <1>6, SessionMoves, Zenon

LEMMA TaskSession ==
    ASSUME Inv, DealStepTaken, TasksStay, NEW w \in Workers, LoadTask(w)
    PROVE  SessionsOK'
<1>1. PICK u \in Users, t \in Tasks :
         /\ tasks[t].state # "absent"
         /\ Visible(u, deals[tasks[t].deal])
         /\ tx' = [tx EXCEPT ![w].phase = "task",
                             ![w].user = u,
                             ![w].deal = tasks[t].deal,
                             ![w].row = deals[tasks[t].deal],
                             ![w].task = t,
                             ![w].taskRow = tasks[t]]
  BY DEF LoadTask
<1> DEFINE s == [tx[w] EXCEPT !.phase = "task",
                            !.user = u,
                            !.deal = tasks[t].deal,
                            !.row = deals[tasks[t].deal],
                            !.task = t,
                            !.taskRow = tasks[t]]
<1>2. /\ tx[w] \in Session /\ clock' = clock /\ clock \in Nat /\ deals' = deals /\ tasks' = tasks
      /\ tx[w].start \in 1 .. clock
      /\ tasks[t] \in TaskRow /\ tasks[t].deal \in Deals
      /\ Exists(tasks[t].deal) /\ deals[tasks[t].deal] \in Row
      /\ deals[tasks[t].deal].stage \in Stages
  BY <1>1 DEF LoadTask, Inv, TypeOK, TablesOK, SessionOK, tables
<1>3. tx' = [tx EXCEPT ![w] = s] /\ tx'[w] = s
  BY <1>1, <1>2 DEF Inv, TypeOK
<1>4. /\ s \in Session /\ s.start = tx[w].start
      /\ s.phase = "task"
      /\ s.user = u
      /\ s.deal = tasks[t].deal
      /\ s.row = deals[tasks[t].deal]
      /\ s.task = t
      /\ s.taskRow = tasks[t]
  BY <1>1, <1>2 DEF Session
<1> HIDE DEF s
<1>5. SessionOK(w)'
  BY <1>1, <1>2, <1>3, <1>4 DEF SessionOK, Holding, Steering, Exists
<1>6. clock' \in Nat /\ clock' >= clock
  BY <1>2
<1> QED
  BY <1>3, <1>4, <1>5, <1>6, SessionMoves, Zenon

LEMMA TakeOverSession ==
    ASSUME Inv, DealStepTaken, TasksStay, NEW w \in Workers, 
           tx[w].phase = "loaded", NEW assigned, Assignable(assigned),
           assigned.status = tx[w].row.status, assigned.stage = tx[w].row.stage,
           assigned.firstContact = tx[w].row.firstContact, TakeOver(w, assigned)
    PROVE  SessionsOK'
<1>1. /\ tx' = [tx EXCEPT ![w].phase = "owning",
                             ![w].assigned = assigned,
                             ![w].taskSet = OpenUnassigned(tx[w].deal)]
  BY DEF TakeOver
<1> DEFINE s == [tx[w] EXCEPT !.phase = "owning",
                            !.assigned = assigned,
                            !.taskSet = OpenUnassigned(tx[w].deal)]
<1>2. /\ tx[w] \in Session /\ clock' = clock /\ clock \in Nat /\ deals' = deals
      /\ tx[w].start \in 1 .. clock
      /\ tx[w].deal \in Deals /\ Exists(tx[w].deal)
      /\ tx[w].row.status # "absent" /\ tx[w].row.stage \in Stages
      /\ assigned \in Row /\ OpenUnassigned(tx[w].deal) \subseteq Tasks
  BY DEF TakeOver, Inv, TypeOK, SessionOK, tables, Holding, Assignable, OpenUnassigned
<1>3. tx' = [tx EXCEPT ![w] = s] /\ tx'[w] = s
  BY <1>1, <1>2 DEF Inv, TypeOK
<1>4. /\ s \in Session /\ s.start = tx[w].start
      /\ s.phase = "owning"
      /\ s.assigned = assigned
      /\ s.taskSet = OpenUnassigned(tx[w].deal)
      /\ s.deal = tx[w].deal /\ s.row = tx[w].row
  BY <1>1, <1>2 DEF Session
<1> HIDE DEF s
<1>5. SessionOK(w)'
  BY <1>2, <1>3, <1>4 DEF SessionOK, Holding, Steering, Exists
<1>6. clock' \in Nat /\ clock' >= clock
  BY <1>2
<1> QED
  BY <1>3, <1>4, <1>5, <1>6, SessionMoves, Zenon

LEMMA HandlerEnds ==
    ASSUME NEW w \in Workers, Finish(w)
    PROVE  tx' = [tx EXCEPT ![w] = Idle] /\ clock' = clock
BY DEF Finish

LEMMA EverySession ==
    ASSUME Inv, [Next]_vars, DealStepTaken, TasksStay
    PROVE  SessionsOK'
<1>1. CASE UNCHANGED vars
  <2>1. tx' = tx /\ clock' = clock /\ clock \in Nat
    BY <1>1 DEF vars, Inv, TypeOK
  <2>2. ASSUME NEW v \in Workers PROVE SessionOK(v)'
    BY <2>1, OtherSessionKept
  <2> QED
    BY <2>1, <2>2 DEF SessionsOK, Inv, TypeOK
<1>2. CASE Next
  <2> PICK w \in Workers :
        \/ Begin(w) \/ Load(w) \/ Abort(w)
        \/ LifecycleStep(w) \/ OwnershipStep(w) \/ ContactStep(w) \/ CyclesStep(w)
    BY <1>2 DEF Next
  <2>1. CASE Begin(w)
    BY <2>1, BeginSession
  <2>2. CASE Load(w)
    BY <2>2, LoadSession
  <2>3. CASE Abort(w)
    BY <2>3, SessionEnds DEF Abort
  <2>4. CASE LifecycleStep(w)
    <3>1. CASE StartCapture(w)
      BY <3>1, CaptureSession
    <3>2. CASE Finish(w)
      BY <3>2, HandlerEnds, SessionEnds
    <3> QED
      BY <2>4, <3>1, <3>2
      DEF LifecycleStep, CreateDeal, FinishCapture, MoveStage, MarkWon, MarkLost, Reopen,
          DeleteDeal
  <2>5. CASE OwnershipStep(w)
    <3>1. CASE Claim(w)
      <4>1. tx[w].phase = "loaded" /\ tx[w].user \in Users \cup {None}
        BY <3>1 DEF Claim, Inv, TypeOK, Session
      <4>2. Assignable(tx[w].row)
        BY <4>1, LoadedRow DEF Holding
      <4>3. /\ Assignable([tx[w].row EXCEPT !.owner = tx[w].user])
            /\ [tx[w].row EXCEPT !.owner = tx[w].user].status = tx[w].row.status
            /\ [tx[w].row EXCEPT !.owner = tx[w].user].stage = tx[w].row.stage
            /\ [tx[w].row EXCEPT !.owner = tx[w].user].firstContact = tx[w].row.firstContact
        BY <4>1, <4>2 DEF Assignable, Row
      <4> QED
        BY <3>1, <4>1, <4>3, TakeOverSession DEF Claim
    <3>2. CASE \E p \in Patches : ChangeOwner(w, p)
      <4>1. PICK p \in Patches, u \in Users :
               TakeOver(w, [Patched(tx[w].row, p) EXCEPT !.owner = u])
        BY <3>2 DEF ChangeOwner
      <4>2. tx[w].phase = "loaded"
        BY <3>2 DEF ChangeOwner
      <4>3. Assignable(tx[w].row) /\ tx[w].start \in Nat
        BY <4>2, LoadedRow DEF Holding
      <4>4. /\ Assignable(Patched(tx[w].row, p))
            /\ Patched(tx[w].row, p).stage = tx[w].row.stage
            /\ Patched(tx[w].row, p).status = tx[w].row.status
            /\ Patched(tx[w].row, p).firstContact = tx[w].row.firstContact
        BY <4>3, AssignedRows
      <4> DEFINE a == [Patched(tx[w].row, p) EXCEPT !.owner = u]
      <4>5. /\ Assignable(a) /\ a.stage = tx[w].row.stage /\ a.status = tx[w].row.status
            /\ a.firstContact = tx[w].row.firstContact
        BY <4>3, <4>4, AssignedRows
      <4> QED
        BY <4>1, <4>2, <4>5, TakeOverSession
    <3>3. CASE LoadTask(w)
      BY <3>3, TaskSession
    <3>4. CASE Finish(w)
      BY <3>4, HandlerEnds, SessionEnds
    <3> QED
      BY <2>5, <3>1, <3>2, <3>3, <3>4
      DEF OwnershipStep, UpdateDeal, FinishTakeOver, CreateTask, UpdateTask, DeleteTask
  <2>6. CASE ContactStep(w)
    <3>1. Finish(w)
      BY <2>6 DEF ContactStep, RegisterFirstContact, CorrectFirstContact, QuickLog, AddNote
    <3> QED
      BY <3>1, HandlerEnds, SessionEnds
  <2>7. CASE CyclesStep(w)
    <3>1. CASE Finish(w)
      BY <3>1, HandlerEnds, SessionEnds
    <3> QED
      BY <2>7, <3>1, ActivateSession, RolloverSession, RescueSession
      DEF CyclesStep, FinishActivate, FinishRollover, FinishRescue
  <2> QED
    BY <2>1, <2>2, <2>3, <2>4, <2>5, <2>6, <2>7
<1> QED
  BY <1>1, <1>2

-----------------------------------------------------------------------------
(* The type invariant *)

LEMMA EveryTable ==
    ASSUME Inv, [Next]_vars, DealStepTaken
    PROVE  /\ deals' \in [Deals -> Row] /\ history' \in [Deals -> Seq(HistoryRow)]
           /\ \A d \in Deals : Exists(d)' => deals'[d].stage \in Stages
<1>1. CASE DealsKept
  BY <1>1 DEF DealsKept, Inv, TypeOK, TablesOK, Exists
<1>2. CASE \E d \in Deals, t \in 1 .. clock : DealStep(d, t)
  BY <1>2 DEF DealStep, Same, Born, Written, Inv, TablesOK, Exists
<1> QED
  BY <1>1, <1>2 DEF DealStepTaken

LEMMA EveryCycle ==
    ASSUME Inv, [Next]_vars
    PROVE  /\ cycles' \in [Cycles -> {"inactive", "active"}]
           /\ OneActiveCycle => OneActiveCycle'
           /\ rescues' \in [Deals -> SUBSET Deals]
<1>1. CASE UNCHANGED <<cycles, rescues>>
  BY <1>1 DEF Inv, TypeOK, OneActiveCycle, IsActive
<1>2. CASE \E w \in Workers : FinishActivate(w)
  <2> PICK w \in Workers : FinishActivate(w)
    BY <1>2
  <2>1. /\ tx[w].cycle \in Cycles /\ SingleActive(cycles') /\ rescues' = rescues
        /\ cycles' = [c \in Cycles |-> IF c = tx[w].cycle THEN "active"
                                       ELSE IF c \in tx[w].cycleSet THEN "inactive"
                                       ELSE cycles[c]]
    BY DEF FinishActivate, Inv, SessionOK, Steering
  <2>2. cycles' \in [Cycles -> {"inactive", "active"}] /\ cycles'[tx[w].cycle] = "active"
    BY <2>1 DEF Inv, TypeOK
  <2> QED
    BY <2>1, <2>2 DEF OneActiveCycle, IsActive, SingleActive, Inv, TypeOK
<1>3. CASE \E w \in Workers : FinishRescue(w)
  <2>1. PICK w \in Workers, d \in Deals :
           /\ rescues' = [rescues EXCEPT ![tx[w].deal] = @ \cup {d}]
           /\ cycles' = cycles
    BY <1>3 DEF FinishRescue
  <2>2. rescues' \in [Deals -> SUBSET Deals]
    BY <2>1 DEF Inv, TypeOK
  <2> QED
    BY <2>1, <2>2 DEF Inv, TypeOK, OneActiveCycle, IsActive
<1>4. CASE Next
  <2> PICK w \in Workers :
        \/ Begin(w) \/ Load(w) \/ Abort(w)
        \/ LifecycleStep(w) \/ OwnershipStep(w) \/ ContactStep(w) \/ CyclesStep(w)
    BY <1>4 DEF Next
  <2>1. CASE Begin(w) \/ Load(w) \/ Abort(w)
    BY <1>1, <2>1 DEF Begin, Load, Abort, tables
  <2>2. CASE LifecycleStep(w)
    BY <1>1, <2>2
    DEF LifecycleStep, CreateDeal, StartCapture, FinishCapture, MoveStage, MarkWon, MarkLost,
        Reopen, DeleteDeal, tables
  <2>3. CASE OwnershipStep(w)
    BY <1>1, <2>3
    DEF OwnershipStep, Claim, ChangeOwner, TakeOver, UpdateDeal, FinishTakeOver, CreateTask,
        LoadTask, UpdateTask, DeleteTask, tables
  <2>4. CASE ContactStep(w)
    BY <1>1, <2>4
    DEF ContactStep, RegisterFirstContact, CorrectFirstContact, QuickLog, AddNote
  <2>5. CASE CyclesStep(w)
    BY <1>1, <1>2, <1>3, <2>5
    DEF CyclesStep, StartActivate, StartRollover, FinishRollover, StartRescue, tables
  <2> QED
    BY <2>1, <2>2, <2>3, <2>4, <2>5
<1> QED
  BY <1>1, <1>4 DEF vars, tables

LEMMA InvInit == Init => Inv
<1> SUFFICES ASSUME Init PROVE Inv
  OBVIOUS
<1>1. NoDeal \in Row /\ NoTask \in TaskRow /\ Idle \in Session
  BY IdleSession DEF NoDeal, Row, NoTask, TaskRow
<1>2. <<>> \in Seq(HistoryRow)
  BY EmptySeq
<1>3. TypeOK
  BY <1>1, <1>2 DEF Init, TypeOK
<1>4. TablesOK
  BY DEF Init, TablesOK, Exists, NoDeal, NoTask
<1>5. \A w \in Workers : SessionOK(w)
  BY DEF Init, SessionOK, Idle, Holding, Steering
<1> QED
  BY <1>3, <1>4, <1>5 DEF Inv

LEMMA InvStep == Inv /\ [Next]_vars => Inv'
<1> SUFFICES ASSUME Inv, [Next]_vars PROVE Inv'
  OBVIOUS
<1>1. DealStepTaken
  BY EveryStep
<1>2. TasksStep
  BY <1>1, EveryTask
<1>3. SessionsOK'
  BY <1>1, <1>2, EverySession DEF TasksStep
<1> QED
  BY <1>1, <1>2, <1>3, EveryTable, EveryCycle
  DEF Inv, TypeOK, TablesOK, TasksStep, TasksOK, SessionsOK

\* In every reachable state the sessions, however stale what they read, refer
\* to deals, tasks and cycles that are still in the tables.
THEOREM InvHolds == Spec => []Inv
  BY InvInit, InvStep, PTL DEF Spec

\* The tables and the sessions stay within their types.
THEOREM TypeCorrect == Spec => []TypeOK
<1>1. Inv => TypeOK
  BY DEF Inv
<1> QED
  BY <1>1, InvHolds, PTL

\* Exactly one sales cycle is active (activate in app/services/cycles.py and
\* the partial unique index), however many activations overlap.
THEOREM ActiveCycle == Spec => []OneActiveCycle
<1>1. Init => OneActiveCycle
  BY DEF Init, OneActiveCycle, IsActive
<1>2. Inv /\ OneActiveCycle /\ [Next]_vars => OneActiveCycle'
  BY EveryCycle
<1> QED
  BY <1>1, <1>2, InvHolds, PTL DEF Spec
=============================================================================
