---------------------------- MODULE HistoryProofs ----------------------------
(***************************************************************************)
(* Theorems about deal_stage_history and last_activity_at, for any number  *)
(* of overlapping requests.  Every step is, for each deal, one of the      *)
(* three kinds of DealStep; each theorem looks at these three only.        *)
(***************************************************************************)
EXTENDS DealsProofs

\* The three history invariants of Deals, for one deal row and one history.
WellKept(row, h) ==
    /\ (h = <<>>) <=> (row.status = "absent")
    /\ row.status # "absent" => h[Len(h)].stage = row.stage
    /\ \A i \in DOMAIN h : h[i].left = 0 <=> i = Len(h)
    /\ \A i \in 1 .. Len(h) - 1 :
          h[i].left = h[i + 1].entered /\ h[i].entered <= h[i].left
    /\ \A i \in DOMAIN h : h[i].entered <= row.lastActivity

AllWellKept == \A d \in Deals : WellKept(deals[d], history[d])

LEMMA WellKeptHistory ==
    ASSUME TypeOK
    PROVE  AllWellKept <=> HistoryMatchesStage /\ HistoryContiguous /\ ActivityCoversHistory
BY DEF AllWellKept, WellKept, HistoryMatchesStage, HistoryContiguous, ActivityCoversHistory,
       Exists

\* An entry that passes the CHECK on left_at extends a well-kept history.
LEMMA EntryWellKept ==
    ASSUME NEW h \in Seq(HistoryRow), NEW row \in Row, NEW new \in Row, NEW t \in Nat \ {0},
           WellKept(row, h), new.status # "absent", new.stage \in Stages,
           HistoryChecks(RecordEntry(h, new.stage, t)),
           t <= new.lastActivity,
           h # <<>> => row.lastActivity <= new.lastActivity
    PROVE  WellKept(new, RecordEntry(h, new.stage, t))
<1> DEFINE g == RecordEntry(h, new.stage, t)
           n == Len(h)
<1>1. /\ g \in Seq(HistoryRow) /\ Len(g) = n + 1
      /\ g[n + 1] = [stage |-> new.stage, entered |-> t, left |-> 0]
      /\ \A i \in DOMAIN h :
            /\ g[i].stage = h[i].stage /\ g[i].entered = h[i].entered
            /\ g[i].left = IF h[i].left = 0 THEN t ELSE h[i].left
  BY RecordEntrySeq
<1>2. /\ n \in Nat /\ DOMAIN h = 1 .. n /\ DOMAIN g = 1 .. n + 1
      /\ \A i \in 1 .. n : h[i].entered \in Nat /\ h[i].left \in Nat
      /\ new.lastActivity \in Nat /\ row.lastActivity \in Nat
  <2>1. n \in Nat /\ DOMAIN h = 1 .. n /\ DOMAIN g = 1 .. n + 1
    BY <1>1
  <2>2. \A i \in 1 .. n : h[i] \in HistoryRow
    OBVIOUS
  <2>3. \A i \in 1 .. n : h[i].entered \in Nat /\ h[i].left \in Nat
    BY <2>2 DEF HistoryRow
  <2> QED
    BY <2>1, <2>3 DEF Row
<1>3. /\ \A i \in DOMAIN h : h[i].left = 0 <=> i = n
      /\ \A i \in 1 .. n - 1 : h[i].left = h[i + 1].entered /\ h[i].entered <= h[i].left
      /\ \A i \in DOMAIN h : h[i].entered <= row.lastActivity
  BY DEF WellKept
<1>4. \A i \in DOMAIN g : g[i].left # 0 => g[i].left >= g[i].entered
  BY DEF HistoryChecks
<1> HIDE DEF g, n
<1>5. g # <<>> /\ g[Len(g)].stage = new.stage
  BY <1>1, <1>2
<1>6. \A i \in DOMAIN g : g[i].left = 0 <=> i = Len(g)
  BY <1>1, <1>2, <1>3
<1>7. \A i \in 1 .. Len(g) - 1 : g[i].left = g[i + 1].entered /\ g[i].entered <= g[i].left
  <2> SUFFICES ASSUME NEW i \in 1 .. n
               PROVE  g[i].left = g[i + 1].entered /\ g[i].entered <= g[i].left
    BY <1>1, <1>2
  <2>1. CASE i = n
    <3>1. g[i].left = t /\ g[i + 1].entered = t
      BY <1>1, <1>2, <1>3, <2>1
    <3>2. g[i].entered <= g[i].left
      BY <1>2, <1>4, <3>1
    <3> QED
      BY <3>1, <3>2
  <2>2. CASE i # n
    <3>1. g[i].left = h[i].left /\ g[i].entered = h[i].entered /\ i + 1 \in 1 .. n
      BY <1>1, <1>2, <1>3, <2>2
    <3>2. g[i + 1].entered = h[i + 1].entered
      BY <1>1, <1>2, <3>1
    <3> QED
      BY <1>2, <1>3, <2>2, <3>1, <3>2
  <2> QED
    BY <2>1, <2>2
<1>8. \A i \in DOMAIN g : g[i].entered <= new.lastActivity
  <2>1. \A i \in 1 .. n : g[i].entered <= new.lastActivity
    <3>1. CASE h = <<>>
      BY <1>2, <3>1
    <3>2. ASSUME h # <<>>, NEW i \in 1 .. n
          PROVE  g[i].entered <= new.lastActivity
      <4>1. g[i].entered = h[i].entered /\ h[i].entered <= row.lastActivity
        BY <1>1, <1>2, <1>3
      <4>2. row.lastActivity <= new.lastActivity /\ h[i].entered \in Nat
        BY <1>2, <3>2
      <4> QED
        BY <1>2, <4>1, <4>2
    <3> QED
      BY <3>1, <3>2
  <2>2. g[n + 1].entered <= new.lastActivity
    BY <1>1
  <2> QED
    BY <1>2, <2>1, <2>2
<1> QED
  BY <1>5, <1>6, <1>7, <1>8 DEF WellKept, g

LEMMA WellKeptStep ==
    ASSUME Inv, AllWellKept, DealStepTaken
    PROVE  AllWellKept'
<1>1. CASE DealsKept
  BY <1>1 DEF DealsKept, AllWellKept
<1>2. ASSUME NEW d \in Deals, NEW t \in 1 .. clock, DealStep(d, t), NEW e \in Deals
      PROVE  WellKept(deals'[e], history'[e])
  <2>1. /\ deals[e] \in Row /\ deals'[e] \in Row /\ t \in Nat \ {0}
        /\ history[e] \in Seq(HistoryRow) /\ WellKept(deals[e], history[e])
        /\ deals[e].lastActivity \in Nat
    <3>1. /\ deals[e] \in Row /\ deals'[e] \in Row /\ history[e] \in Seq(HistoryRow)
          /\ clock \in Nat
      BY <1>2 DEF Inv, TypeOK, DealStep
    <3>2. deals[e].lastActivity \in Nat
      BY <3>1 DEF Row
    <3> QED
      BY <3>1, <3>2 DEF AllWellKept
  <2>2. CASE Same(e)
    BY <2>1, <2>2 DEF Same
  <2>3. CASE Born(e, t)
    <3> DEFINE new == deals'[e]
    <3>1. history[e] = <<>>
      BY <2>1, <2>3 DEF Born, WellKept, Exists
    <3>2. HistoryChecks(RecordEntry(<<>>, new.stage, t))
      <4>1. new.stage \in Stages
        BY <2>3 DEF Born
      <4>2. <<>> \in Seq(HistoryRow) /\ Len(<<>>) = 0
        BY EmptySeq
      <4> DEFINE g == RecordEntry(<<>>, new.stage, t)
      <4> HIDE DEF new
      <4>3. /\ g \in Seq(HistoryRow) /\ Len(g) = 1
            /\ g[1] = [stage |-> new.stage, entered |-> t, left |-> 0]
        <5>1. t \in Nat
          BY <2>1
        <5>2. /\ g \in Seq(HistoryRow) /\ Len(g) = Len(<<>>) + 1
              /\ g[Len(<<>>) + 1] = [stage |-> new.stage, entered |-> t, left |-> 0]
          BY <4>1, <4>2, <5>1, RecordEntrySeq
        <5> QED
          BY <4>2, <5>2
      <4> HIDE DEF g
      <4>4. DOMAIN g = {1} /\ g[1].left = 0
        BY <4>3
      <4>5. HistoryChecks(g)
        BY <4>4 DEF HistoryChecks
      <4> QED
        BY <4>5 DEF g
    <3>3. /\ new.status # "absent" /\ new.stage \in Stages /\ new.lastActivity = t
          /\ history'[e] = RecordEntry(history[e], new.stage, t)
      BY <2>3, <3>1 DEF Born
    <3>4. HistoryChecks(RecordEntry(history[e], new.stage, t)) /\ t <= new.lastActivity
      BY <2>1, <3>1, <3>2, <3>3
    <3> HIDE DEF new
    <3>5. WellKept(new, RecordEntry(history[e], new.stage, t))
      BY <2>1, <3>1, <3>3, <3>4, EntryWellKept DEF new
    <3> QED
      BY <3>3, <3>5 DEF new
  <2>4. CASE Written(e, t)
    <3>1. CASE deals'[e].stage = deals[e].stage
      <4>1. /\ history'[e] = history[e] /\ deals'[e].stage = deals[e].stage
            /\ deals'[e].status # "absent" /\ deals[e].status # "absent"
            /\ deals'[e].lastActivity >= deals[e].lastActivity
            /\ deals'[e].lastActivity \in Nat
        BY <2>1, <2>4, <3>1 DEF Written, Later, Exists, Row
      <4>2. \A i \in DOMAIN history[e] : history[e][i].entered \in Nat
        <5>1. \A i \in DOMAIN history[e] : history[e][i] \in HistoryRow
          BY <2>1
        <5> QED
          BY <5>1 DEF HistoryRow
      <4> QED
        BY <2>1, <4>1, <4>2 DEF WellKept
    <3>2. CASE deals'[e].stage # deals[e].stage
      <4>1. /\ history'[e] = RecordEntry(history[e], deals'[e].stage, t)
            /\ HistoryChecks(history'[e])
            /\ deals'[e].status # "absent" /\ deals'[e].stage \in Stages
            /\ deals'[e].lastActivity = Later(deals[e].lastActivity, t)
        BY <2>4, <3>2 DEF Written
      <4>2. t <= deals'[e].lastActivity /\ deals[e].lastActivity <= deals'[e].lastActivity
        BY <2>1, <4>1 DEF Later
      <4> QED
        BY <2>1, <4>1, <4>2, EntryWellKept
    <3> QED
      BY <3>1, <3>2
  <2> QED
    BY <1>2, <2>2, <2>3, <2>4 DEF DealStep
<1> QED
  BY <1>1, <1>2 DEF DealStepTaken, AllWellKept

LEMMA WellKeptInit == Init => AllWellKept
BY DEF Init, AllWellKept, WellKept, NoDeal

\* What the triggers keep of every deal, as the properties of the runs.
LEMMA HistoryKept ==
    Spec => [](HistoryMatchesStage /\ HistoryContiguous /\ ActivityCoversHistory)
<1>1. Init => AllWellKept
  BY WellKeptInit
<1>2. Inv /\ AllWellKept /\ [Next]_vars => AllWellKept'
  BY EveryStep, WellKeptStep
<1>3. Inv /\ AllWellKept => HistoryMatchesStage /\ HistoryContiguous /\ ActivityCoversHistory
  BY WellKeptHistory DEF Inv
<1> QED
  BY <1>1, <1>2, <1>3, InvHolds, PTL DEF Spec

\* Of the stays of a deal only the last is open, and it names the deal's stage,
\* whichever of two overlapping moves commits last; a deleted deal keeps the
\* trail of the stage it was deleted in, for deletion is only a mark on the row
\* (record_deal_stage_history).
THEOREM HistoryFollowsStage == Spec => []HistoryMatchesStage
BY HistoryKept, PTL

\* Each stay begins at the time the one before it ended and none ends before it
\* begins, although the trigger writes the times at which the transactions
\* started and these commit in any order (deal_stage_history's CHECK).
THEOREM HistoryJoins == Spec => []HistoryContiguous
BY HistoryKept, PTL

\* No stage was entered after the deal's last activity (touch_deal_last_activity).
THEOREM ActivityCovers == Spec => []ActivityCoversHistory
BY HistoryKept, PTL

\* last_activity_at never goes back, even when an older transaction commits
\* after a younger one.
THEOREM ActivityMonotone == Spec => LastActivityMonotone
<1>1. ASSUME Inv, [Next]_vars, NEW d \in Deals, Exists(d)
      PROVE  deals'[d].lastActivity >= deals[d].lastActivity
  <2>1. DealStepTaken
    BY <1>1, EveryStep
  <2>2. deals[d] \in Row /\ deals[d].lastActivity \in Nat /\ clock \in Nat
    BY <1>1 DEF Inv, TypeOK, Row
  <2>3. CASE DealsKept
    BY <2>2, <2>3 DEF DealsKept
  <2>4. ASSUME NEW e \in Deals, NEW t \in 1 .. clock, DealStep(e, t)
        PROVE  deals'[d].lastActivity >= deals[d].lastActivity
    <3>1. Same(d) \/ Written(d, t)
      BY <1>1, <2>4 DEF DealStep, Born
    <3> QED
      BY <2>2, <3>1 DEF Same, Written, Later
  <2> QED
    BY <2>1, <2>3, <2>4 DEF DealStepTaken
<1>2. Inv /\ [Next]_vars =>
        [\A d \in Deals : Exists(d) => deals'[d].lastActivity >= deals[d].lastActivity]_vars
  BY <1>1
<1> QED
  BY <1>2, InvHolds, PTL DEF Spec, LastActivityMonotone

-----------------------------------------------------------------------------
(* The history implements StageTrail *)

Visit == [stage : Stages, entered : Nat]

LEMMA VisitsSeq ==
    ASSUME NEW h \in Seq(HistoryRow)
    PROVE  /\ VisitsOf(h) \in Seq(Visit) /\ Len(VisitsOf(h)) = Len(h)
           /\ \A i \in 1 .. Len(h) : VisitsOf(h)[i] = [stage |-> h[i].stage,
                                                      entered |-> h[i].entered]
<1> DEFINE v == VisitsOf(h)
<1>1. DOMAIN h = 1 .. Len(h) /\ Len(h) \in Nat /\ \A i \in 1 .. Len(h) : h[i] \in HistoryRow
  OBVIOUS
<1>2. v = [i \in 1 .. Len(h) |-> [stage |-> h[i].stage, entered |-> h[i].entered]]
  BY <1>1 DEF VisitsOf
<1>3. \A i \in 1 .. Len(h) : /\ v[i] \in Visit
                             /\ v[i] = [stage |-> h[i].stage, entered |-> h[i].entered]
  BY <1>1, <1>2 DEF HistoryRow, Visit
<1>4. v \in [1 .. Len(h) -> Visit] /\ DOMAIN v = 1 .. Len(h)
  BY <1>2, <1>3
<1> HIDE DEF v
<1>5. v \in Seq(Visit)
  BY <1>1, <1>4, SeqDef, Zenon
<1>6. Len(v) = Len(h)
  BY <1>1, <1>4, <1>5
<1> QED
  BY <1>3, <1>5, <1>6 DEF v

LEMMA VisitsAppend ==
    ASSUME NEW h \in Seq(HistoryRow), NEW s \in Stages, NEW t \in Nat
    PROVE  VisitsOf(RecordEntry(h, s, t)) = Append(VisitsOf(h), [stage |-> s, entered |-> t])
<1> DEFINE g == RecordEntry(h, s, t)
           e == [stage |-> s, entered |-> t]
           a == VisitsOf(g)
           b == Append(VisitsOf(h), e)
<1>1. /\ g \in Seq(HistoryRow) /\ Len(g) = Len(h) + 1
      /\ g[Len(h) + 1] = [stage |-> s, entered |-> t, left |-> 0]
      /\ \A i \in DOMAIN h : g[i].stage = h[i].stage /\ g[i].entered = h[i].entered
  BY RecordEntrySeq
<1>2. e \in Visit /\ Len(h) \in Nat /\ DOMAIN h = 1 .. Len(h)
  BY DEF Visit
<1> HIDE DEF g, e
<1>3. /\ a \in Seq(Visit) /\ Len(a) = Len(h) + 1
      /\ \A i \in 1 .. Len(h) + 1 : a[i] = [stage |-> g[i].stage, entered |-> g[i].entered]
  BY <1>1, VisitsSeq
<1>4. /\ VisitsOf(h) \in Seq(Visit) /\ Len(VisitsOf(h)) = Len(h)
      /\ \A i \in 1 .. Len(h) : VisitsOf(h)[i] = [stage |-> h[i].stage,
                                                 entered |-> h[i].entered]
  BY VisitsSeq
<1>5. /\ b \in Seq(Visit) /\ Len(b) = Len(h) + 1 /\ b[Len(h) + 1] = e
      /\ \A i \in 1 .. Len(h) : b[i] = VisitsOf(h)[i]
  BY <1>2, <1>4
<1> HIDE DEF a, b
<1>6. \A i \in 1 .. Len(a) : a[i] = b[i]
  <2> SUFFICES ASSUME NEW i \in 1 .. Len(h) + 1 PROVE a[i] = b[i]
    BY <1>3
  <2>1. CASE i = Len(h) + 1
    BY <1>1, <1>2, <1>3, <1>5, <2>1 DEF e
  <2>2. CASE i # Len(h) + 1
    <3>1. i \in 1 .. Len(h)
      BY <1>2, <2>2
    <3> QED
      BY <1>1, <1>2, <1>3, <1>4, <1>5, <3>1
  <2> QED
    BY <2>1, <2>2
<1>7. a = b
  BY <1>3, <1>5, <1>6, SeqEqual
<1> QED
  BY <1>7 DEF a, b, g, e

LEMMA EveryClock ==
    ASSUME Inv, clock <= MaxTx, [Next]_vars
    PROVE  clock' <= MaxTx
<1>1. CASE clock' = clock
  BY <1>1
<1>2. CASE \E w \in Workers : Begin(w)
  BY <1>2, BoundAssumption DEF Begin, Inv, TypeOK
<1>3. CASE UNCHANGED vars
  BY <1>1, <1>3 DEF vars
<1>4. CASE Next
  <2> PICK w \in Workers :
        \/ Begin(w) \/ Load(w) \/ Abort(w)
        \/ LifecycleStep(w) \/ OwnershipStep(w) \/ ContactStep(w) \/ CyclesStep(w)
    BY <1>4 DEF Next
  <2>1. CASE Load(w) \/ Abort(w)
    BY <1>1, <2>1 DEF Load, Abort
  <2>2. CASE LifecycleStep(w)
    BY <1>1, <2>2
    DEF LifecycleStep, CreateDeal, StartCapture, FinishCapture, MoveStage, MarkWon, MarkLost,
        Reopen, DeleteDeal, Finish
  <2>3. CASE OwnershipStep(w)
    BY <1>1, <2>3
    DEF OwnershipStep, Claim, ChangeOwner, TakeOver, UpdateDeal, FinishTakeOver, CreateTask,
        LoadTask, UpdateTask, DeleteTask, Finish
  <2>4. CASE ContactStep(w)
    BY <1>1, <2>4
    DEF ContactStep, RegisterFirstContact, CorrectFirstContact, QuickLog, AddNote, Finish
  <2>5. CASE CyclesStep(w)
    BY <1>1, <2>5
    DEF CyclesStep, StartActivate, FinishActivate, StartRollover, FinishRollover, StartRescue,
        FinishRescue, Finish
  <2> QED
    BY <1>2, <2>1, <2>2, <2>3, <2>4, <2>5
<1> QED
  BY <1>3, <1>4

\* A new entry goes to another stage than the last one, at a time not before
\* the last entry.
LEMMA EntryFollows ==
    ASSUME NEW h \in Seq(HistoryRow), NEW row, NEW s \in Stages, NEW t \in 1 .. MaxTx,
           WellKept(row, h), h # <<>>, row.status # "absent", s # row.stage,
           HistoryChecks(RecordEntry(h, s, t))
    PROVE  Trail!Follows(VisitsOf(h), s, t)
<1> DEFINE n == Len(h)
           g == RecordEntry(h, s, t)
<1>1. n \in Nat /\ n # 0 /\ DOMAIN h = 1 .. n /\ t \in Nat /\ t # 0
  BY BoundAssumption
<1>2. /\ g \in Seq(HistoryRow) /\ Len(g) = n + 1
      /\ \A i \in DOMAIN h :
            /\ g[i].entered = h[i].entered
            /\ g[i].left = IF h[i].left = 0 THEN t ELSE h[i].left
  BY <1>1, RecordEntrySeq
<1>3. h[n].stage = row.stage /\ h[n].left = 0
  BY <1>1 DEF WellKept
<1>4. g[n].left = t /\ g[n].entered = h[n].entered /\ n \in DOMAIN g
  BY <1>1, <1>2, <1>3
<1>5. h[n].entered <= t
  <2>1. g[n].left >= g[n].entered
    BY <1>1, <1>4 DEF HistoryChecks
  <2>2. h[n].entered \in Nat
    <3>1. h[n] \in HistoryRow
      BY <1>1
    <3> QED
      BY <3>1 DEF HistoryRow
  <2> QED
    BY <1>1, <1>4, <2>1, <2>2
<1>6. /\ Len(VisitsOf(h)) = n
      /\ VisitsOf(h)[n].stage = h[n].stage /\ VisitsOf(h)[n].entered = h[n].entered
  <2>1. n \in 1 .. Len(h)
    BY <1>1
  <2> HIDE DEF n
  <2>2. /\ Len(VisitsOf(h)) = Len(h)
        /\ VisitsOf(h)[n] = [stage |-> h[n].stage, entered |-> h[n].entered]
    BY <2>1, VisitsSeq
  <2> QED
    BY <2>2 DEF n
<1> QED
  BY <1>3, <1>5, <1>6 DEF Trail!Follows

LEMMA VisitsInit == Init => Trail!Init
<1> SUFFICES ASSUME Init PROVE Trail!Init
  OBVIOUS
<1>1. \A d \in Deals : history[d] = <<>>
  BY DEF Init
<1>2. VisitsOf(<<>>) = <<>>
  BY DEF VisitsOf
<1> QED
  BY <1>1, <1>2 DEF Trail!Init, Visits

LEMMA VisitsStep ==
    ASSUME Inv, AllWellKept, clock <= MaxTx, [Next]_vars
    PROVE  UNCHANGED Visits \/ \E d \in Deals, s \in Stages, t \in 1 .. MaxTx :
              /\ Trail!Follows(Visits[d], s, t)
              /\ Visits' = [Visits EXCEPT ![d] = Append(@, [stage |-> s, entered |-> t])]
<1>1. CASE DealsKept
  BY <1>1 DEF DealsKept, Visits
<1>2. ASSUME NEW d \in Deals, NEW t \in 1 .. clock, DealStep(d, t),
             history'[d] # history[d]
      PROVE  LET s == deals'[d].stage
             IN /\ s \in Stages /\ t \in 1 .. MaxTx
                /\ Trail!Follows(Visits[d], s, t)
                /\ Visits' = [Visits EXCEPT ![d] = Append(@, [stage |-> s, entered |-> t])]
  <2> DEFINE s == deals'[d].stage
             h == history[d]
  <2>1. /\ t \in 1 .. MaxTx /\ t \in Nat /\ h \in Seq(HistoryRow)
        /\ WellKept(deals[d], h) /\ deals[d] \in Row
    BY <1>2, BoundAssumption DEF Inv, TypeOK, AllWellKept
  <2>2. s \in Stages /\ history'[d] = RecordEntry(h, s, t)
    <3>1. CASE Born(d, t)
      <4>1. h = <<>>
        BY <2>1, <3>1 DEF Born, WellKept, Exists
      <4> QED
        BY <3>1, <4>1 DEF Born
    <3>2. CASE Written(d, t)
      BY <1>2, <3>2 DEF Written
    <3> QED
      BY <1>2, <3>1, <3>2 DEF DealStep, Same
  <2>3. Trail!Follows(VisitsOf(h), s, t)
    <3>1. CASE Born(d, t)
      <4>1. h = <<>>
        BY <2>1, <3>1 DEF Born, WellKept, Exists
      <4> QED
        BY <4>1 DEF Trail!Follows, VisitsOf
    <3>2. CASE Written(d, t)
      <4>1. /\ h # <<>> /\ deals[d].status # "absent" /\ s # deals[d].stage
            /\ HistoryChecks(RecordEntry(h, s, t))
        BY <1>2, <2>1, <2>2, <3>2 DEF Written, WellKept, Exists
      <4> HIDE DEF s, h
      <4> QED
        BY <2>1, <2>2, <4>1, EntryFollows
    <3> QED
      BY <1>2, <3>1, <3>2 DEF DealStep, Same
  <2>4. VisitsOf(history'[d]) = Append(VisitsOf(h), [stage |-> s, entered |-> t])
    BY <2>1, <2>2, VisitsAppend
  <2>5. \A e \in Deals \ {d} : history'[e] = history[e]
    BY <1>2 DEF DealStep
  <2>6. Visits' = [Visits EXCEPT ![d] = Append(@, [stage |-> s, entered |-> t])]
    <3> HIDE DEF s
    <3> QED
      BY <2>4, <2>5 DEF Visits
  <2> QED
    BY <2>1, <2>2, <2>3, <2>6 DEF Visits
<1>3. ASSUME NEW d \in Deals, NEW t \in 1 .. clock, DealStep(d, t),
             history'[d] = history[d]
      PROVE  UNCHANGED Visits
  BY <1>3 DEF DealStep, Visits
<1> QED
  BY <1>1, <1>2, <1>3, EveryStep DEF DealStepTaken

\* deal_stage_history implements the append-only, time-ordered trail of
\* StageTrail: triggers, CHECKs and out-of-order commits included.
THEOREM HistoryIsTrail == Spec => StageTrailKept
<1>1. Init => Trail!Init
  BY VisitsInit
<1>2. Inv /\ AllWellKept /\ clock <= MaxTx /\ [Next]_vars => [Trail!Next]_Visits
  BY VisitsStep DEF Trail!Next, Trail!Enters
<1>3. Inv /\ AllWellKept /\ [Next]_vars => AllWellKept'
  BY EveryStep, WellKeptStep
<1>4. Inv /\ clock <= MaxTx /\ [Next]_vars => (clock <= MaxTx)'
  BY EveryClock
<1>5. Init => AllWellKept /\ clock <= MaxTx
  BY WellKeptInit, BoundAssumption DEF Init
<1> QED
  BY <1>1, <1>2, <1>3, <1>4, <1>5, InvHolds, PTL DEF Spec, StageTrailKept, Trail!Spec
=============================================================================
