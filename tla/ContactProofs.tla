---------------------------- MODULE ContactProofs ----------------------------
(***************************************************************************)
(* The first contact is write-once under any overlap of requests: every    *)
(* step of Deals is one of the kinds of writes listed in DealsWritten, and *)
(* only the admin's correction passes protect_first_whatsapp_contact.      *)
(***************************************************************************)
EXTENDS DealsProofs

(* First contact *)

ContactKept(d) ==
    deals[d].firstContact # 0 => deals'[d].firstContact = deals[d].firstContact

\* A row not inserted yet has no first contact to lose.
AbsentBlank == \A d \in Deals : ~Exists(d) => deals[d].firstContact = 0

LEMMA UpdateOne ==
    ASSUME Inv, NEW w \in Workers, tx[w].phase \in Holding,
           NEW assigned \in Row, NEW logs \in BOOLEAN, Update(w, assigned, logs)
    PROVE  LET d == tx[w].deal
               new == Flush(deals[d], tx[w].row, assigned)
           IN /\ d \in Deals /\ deals[d] \in Row /\ tx[w].row \in Row /\ new \in Row
              /\ deals'[d] \in {new, Touch(new, tx[w].start)}
              /\ Touch(new, tx[w].start) = [new EXCEPT !.lastActivity = Later(new.lastActivity, tx[w].start)]
              /\ \A e \in Deals \ {d} : deals'[e] = deals[e]
<1> DEFINE d == tx[w].deal
           t == tx[w].start
           new == Flush(deals[d], tx[w].row, assigned)
<1>1. d \in Deals /\ deals[d] \in Row /\ t \in Nat /\ tx[w].row \in Row
  BY DEF Inv, TypeOK, SessionOK, Session, Holding
<1>2. new \in Row
  BY <1>1, FlushRow
<1>3. deals' = [deals EXCEPT ![d] = IF logs THEN Touch(new, t) ELSE new]
  BY DEF Update
<1> HIDE DEF d, t, new
<1>4. Touch(new, t) = [new EXCEPT !.lastActivity = Later(new.lastActivity, t)]
  BY <1>1, <1>2, TouchRow
<1>5. /\ deals'[d] = IF logs THEN Touch(new, t) ELSE new
      /\ \A e \in Deals \ {d} : deals'[e] = deals[e]
  BY <1>1, <1>3 DEF Inv, TypeOK
<1>6. deals'[d] \in {new, Touch(new, t)}
  BY <1>5
<1> QED
  BY <1>1, <1>2, <1>4, <1>5, <1>6 DEF d, t, new

LEMMA SaveKeepsContact ==
    ASSUME Inv, NEW w \in Workers, tx[w].phase \in Holding,
           NEW assigned, Assignable(assigned), NEW logs \in BOOLEAN,
           Save(w, assigned, logs), NEW e \in Deals
    PROVE  ContactKept(e)
<1> DEFINE d == tx[w].deal
           new == Flush(deals[d], tx[w].row, assigned)
<1>1. /\ new \in Row /\ d \in Deals /\ deals'[d] \in {new, Touch(new, tx[w].start)}
      /\ Touch(new, tx[w].start) = [new EXCEPT !.lastActivity = Later(new.lastActivity, tx[w].start)]
      /\ \A v \in Deals \ {d} : deals'[v] = deals[v]
  BY UpdateOne DEF Save, Assignable
<1>2. FirstContactKept(deals[d], new)
  BY DEF Save
<1> HIDE DEF d, new
<1>3. deals'[d].firstContact = new.firstContact
  BY <1>1 DEF Row
<1>4. CASE e = d
  BY <1>2, <1>3, <1>4 DEF ContactKept, FirstContactKept
<1>5. CASE e # d
  BY <1>1, <1>5 DEF ContactKept
<1> QED
  BY <1>4, <1>5

LEMMA InsertKeepsContact ==
    ASSUME Inv, AbsentBlank, NEW w \in Workers, NEW d \in Deals, NEW row,
           Insert(w, d, row), NEW e \in Deals
    PROVE  ContactKept(e)
<1>1. ~Exists(d) /\ deals' = [deals EXCEPT ![d] = [row EXCEPT !.lastActivity = tx[w].start]]
  BY DEF Insert
<1>2. CASE e = d
  BY <1>1, <1>2 DEF ContactKept, AbsentBlank
<1>3. CASE e # d
  BY <1>1, <1>3 DEF ContactKept, Inv, TypeOK
<1> QED
  BY <1>2, <1>3

LEMMA RolloverKeepsContact ==
    ASSUME Inv, NEW w \in Workers, FinishRollover(w), NEW e \in Deals
    PROVE  ContactKept(e)
<1>1. /\ deals[e] \in Row /\ tx[w].start \in Nat /\ tx[w].cycle \in Cycles \cup {None}
      /\ deals'[e] = IF e \in tx[w].dealSet
                     THEN Touch([deals[e] EXCEPT !.cycle = tx[w].cycle], tx[w].start)
                     ELSE deals[e]
  BY DEF FinishRollover, Inv, TypeOK, Session
<1>2. Touch([deals[e] EXCEPT !.cycle = tx[w].cycle], tx[w].start).firstContact
        = deals[e].firstContact
  BY <1>1 DEF Touch, Row
<1> QED
  BY <1>1, <1>2 DEF ContactKept

LEMMA RescueKeepsContact ==
    ASSUME Inv, AbsentBlank, NEW w \in Workers, FinishRescue(w), NEW e \in Deals
    PROVE  ContactKept(e)
<1> DEFINE old == tx[w].deal
           t == tx[w].start
<1> DEFINE born == [NewDeal(FirstStage, tx[w].user, tx[w].cycle,
                            tx[w].row.enrollment \cap CarriedKeys)
                      EXCEPT !.lastActivity = t]
<1>1. PICK d \in Deals :
         ~Exists(d) /\ deals' = [deals EXCEPT ![d] = born, ![old] = Touch(@, t)]
  BY DEF FinishRescue
<1>2. old \in Deals /\ Exists(old) /\ deals[old] \in Row /\ t \in Nat
  BY DEF FinishRescue, Inv, TypeOK, SessionOK, Session, Holding
<1>3. d # old
  BY <1>1, <1>2
<1> HIDE DEF old, t, born
<1>4. CASE e = d
  BY <1>1, <1>4 DEF ContactKept, AbsentBlank
<1>5. CASE e = old
  <2>1. deals'[old] = Touch(deals[old], t)
    BY <1>1, <1>2, <1>3 DEF Inv, TypeOK
  <2>2. Touch(deals[old], t).firstContact = deals[old].firstContact
    BY <1>2 DEF Touch, Row
  <2> QED
    BY <1>5, <2>1, <2>2 DEF ContactKept
<1>6. CASE e # d /\ e # old
  BY <1>1, <1>2, <1>6 DEF ContactKept, Inv, TypeOK
<1> QED
  BY <1>4, <1>5, <1>6

\* The kinds of writes to the deals table.
DealsWritten(w) ==
    \/ deals' = deals
    \/ \E assigned \in Row, logs \in BOOLEAN :
          tx[w].phase \in Holding /\ Assignable(assigned) /\ Save(w, assigned, logs)
    \/ CorrectFirstContact(w)
    \/ \E d \in Deals, row \in Row : Insert(w, d, row)
    \/ FinishRollover(w)
    \/ FinishRescue(w)

LEMMA SavedRow ==
    ASSUME NEW w \in Workers, tx[w].phase \in Holding, NEW assigned, Assignable(assigned),
           NEW logs \in BOOLEAN, Save(w, assigned, logs)
    PROVE  DealsWritten(w)
BY DEF DealsWritten, Assignable

LEMMA EveryWrite ==
    ASSUME Inv, Next
    PROVE  \E w \in Workers : DealsWritten(w)
<1> PICK w \in Workers :
      \/ Begin(w) \/ Load(w) \/ Abort(w)
      \/ LifecycleStep(w) \/ OwnershipStep(w) \/ ContactStep(w) \/ CyclesStep(w)
  BY DEF Next
<1>1. CASE Begin(w) \/ Load(w) \/ Abort(w)
  BY <1>1 DEF Begin, Load, Abort, tables, DealsWritten
<1>2. ASSUME tx[w].phase \in Holding
      PROVE  /\ Assignable(tx[w].row) /\ Assignable(Won(tx[w].row, tx[w].start))
             /\ Assignable(Lost(tx[w].row, tx[w].start)) /\ Assignable(Reopened(tx[w].row))
             /\ Assignable(Contacted(tx[w].row, tx[w].start))
             /\ Assignable([tx[w].row EXCEPT !.firstContact = tx[w].start])
             /\ Assignable([tx[w].row EXCEPT !.deleted = TRUE])
             /\ \A s \in Stages : Assignable([tx[w].row EXCEPT !.stage = s])
             /\ \A p \in Patches : Assignable(Patched(tx[w].row, p))
  BY <1>2, LoadedRow, AssignedRows
<1>3. CASE LifecycleStep(w)
  <2>1. CASE CreateDeal(w)
    <3>1. PICK d \in Deals, c \in Cycles, e \in SUBSET Keys, s \in Stages,
               o \in Users \cup {None} : Insert(w, d, NewDeal(s, o, c, e))
      BY <2>1 DEF CreateDeal
    <3> QED
      BY <3>1, NewDealRow DEF DealsWritten
  <2>2. CASE StartCapture(w)
    BY <2>2 DEF StartCapture, tables, DealsWritten
  <2>3. CASE FinishCapture(w)
    <3>1. PICK d \in Deals, e \in {{}} \cup {{k} : k \in Keys} :
               Insert(w, d, NewDeal(FirstStage, None, tx[w].cycle, e))
      BY <2>3 DEF FinishCapture
    <3>2. tx[w].cycle \in Cycles \cup {None} /\ e \in SUBSET Keys /\ FirstStage \in Stages
      BY PipelineAssumption DEF Inv, TypeOK, Session
    <3>3. NewDeal(FirstStage, None, tx[w].cycle, e) \in Row
      BY <3>2, NewDealRow
    <3> QED
      BY <3>1, <3>3 DEF DealsWritten
  <2>4. CASE MoveStage(w)
    BY <1>2, <2>4, SavedRow DEF MoveStage, MayTransition, MayEdit, Holding
  <2>5. CASE MarkWon(w)
    BY <1>2, <2>5, SavedRow DEF MarkWon, MayTransition, MayEdit, Holding
  <2>6. CASE MarkLost(w)
    BY <1>2, <2>6, SavedRow DEF MarkLost, MayTransition, MayEdit, Holding
  <2>7. CASE Reopen(w)
    BY <1>2, <2>7, SavedRow DEF Reopen, Holding
  <2>8. CASE DeleteDeal(w)
    BY <1>2, <2>8, SavedRow DEF DeleteDeal, Holding
  <2> QED
    BY <1>3, <2>1, <2>2, <2>3, <2>4, <2>5, <2>6, <2>7, <2>8 DEF LifecycleStep
<1>4. CASE OwnershipStep(w)
  <2>1. CASE Claim(w) \/ (\E p \in Patches : ChangeOwner(w, p)) \/ LoadTask(w)
    BY <2>1 DEF Claim, ChangeOwner, TakeOver, LoadTask, tables, DealsWritten
  <2>2. CASE \E p \in Patches : UpdateDeal(w, p)
    BY <1>2, <2>2, SavedRow DEF UpdateDeal, MayEdit, Holding
  <2>3. CASE FinishTakeOver(w)
    <3>1. tx[w].phase \in Holding /\ Save(w, tx[w].assigned, TRUE)
      BY <2>3 DEF FinishTakeOver, Holding
    <3>2. Assignable(tx[w].assigned)
      BY <2>3, <3>1 DEF FinishTakeOver, Inv, TypeOK, Session, SessionOK, Assignable
    <3> QED
      BY <3>1, <3>2, SavedRow
  <2>4. CASE CreateTask(w)
    BY <1>2, <2>4, SavedRow DEF CreateTask, MayEdit, Holding
  <2>5. CASE UpdateTask(w)
    <3>1. CASE Save(w, tx[w].row, TRUE)
      BY <1>2, <2>5, <3>1, SavedRow DEF UpdateTask, Holding
    <3>2. CASE UNCHANGED <<deals, history>>
      BY <3>2 DEF DealsWritten
    <3> QED
      BY <2>5, <3>1, <3>2 DEF UpdateTask
  <2>6. CASE DeleteTask(w)
    BY <2>6 DEF DeleteTask, DealsWritten
  <2> QED
    BY <1>4, <2>1, <2>2, <2>3, <2>4, <2>5, <2>6 DEF OwnershipStep
<1>5. CASE ContactStep(w)
  <2>1. CASE RegisterFirstContact(w)
    BY <1>2, <2>1, SavedRow DEF RegisterFirstContact, MayEdit, Holding
  <2>2. CASE CorrectFirstContact(w)
    BY <2>2 DEF DealsWritten
  <2>3. CASE QuickLog(w)
    BY <1>2, <2>3, SavedRow DEF QuickLog, MayTransition, MayEdit, Holding
  <2>4. CASE AddNote(w)
    BY <1>2, <2>4, SavedRow DEF AddNote, MayEdit, Holding
  <2> QED
    BY <1>5, <2>1, <2>2, <2>3, <2>4 DEF ContactStep
<1>6. CASE CyclesStep(w)
  BY <1>6 DEF CyclesStep, StartActivate, FinishActivate, StartRollover, StartRescue, tables,
              DealsWritten
<1> QED
  BY <1>1, <1>3, <1>4, <1>5, <1>6

\* first_whatsapp_contact_at is write-once under any overlap of requests
\* (protect_first_whatsapp_contact); only the admin correction changes it.
THEOREM ContactWriteOnce == Spec => FirstContactWriteOnce
<1>1. ASSUME Inv, AbsentBlank, Next, NEW d \in Deals
      PROVE  ContactKept(d) \/ \E w \in Workers : tx[w].deal = d /\ CorrectFirstContact(w)
  <2>1. PICK w \in Workers : DealsWritten(w)
    BY <1>1, EveryWrite
  <2>2. CASE deals' = deals
    BY <2>2 DEF ContactKept
  <2>3. CASE \E assigned \in Row, logs \in BOOLEAN :
               tx[w].phase \in Holding /\ Assignable(assigned) /\ Save(w, assigned, logs)
    BY <1>1, <2>3, SaveKeepsContact
  <2>4. CASE \E e \in Deals, row \in Row : Insert(w, e, row)
    BY <1>1, <2>4, InsertKeepsContact
  <2>5. CASE FinishRollover(w)
    BY <1>1, <2>5, RolloverKeepsContact
  <2>6. CASE FinishRescue(w)
    BY <1>1, <2>6, RescueKeepsContact
  <2>7. CASE CorrectFirstContact(w) /\ tx[w].deal # d
    <3>1. deals'[d] = deals[d]
      BY <1>1, <2>7 DEF CorrectFirstContact, Update, Inv, TypeOK
    <3> QED
      BY <3>1 DEF ContactKept
  <2> QED
    BY <2>1, <2>2, <2>3, <2>4, <2>5, <2>6, <2>7 DEF DealsWritten
<1>2. Init => AbsentBlank
  BY DEF Init, AbsentBlank, NoDeal
<1>3. Inv /\ AbsentBlank /\ [Next]_vars => AbsentBlank'
  <2> SUFFICES ASSUME Inv, AbsentBlank, [Next]_vars, NEW d \in Deals, ~Exists(d)'
               PROVE  deals'[d].firstContact = 0
    BY DEF AbsentBlank
  <2>1. CASE DealsKept
    BY <2>1 DEF DealsKept, AbsentBlank, Exists
  <2>2. ASSUME NEW e \in Deals, NEW t \in 1 .. clock, DealStep(e, t)
        PROVE  deals'[d].firstContact = 0
    BY <2>2 DEF DealStep, Same, Born, Written, AbsentBlank, Exists
  <2> QED
    BY <2>1, <2>2, EveryStep DEF DealStepTaken
<1>4. Inv /\ AbsentBlank /\ [Next]_vars =>
        [\A d \in Deals :
            deals[d].firstContact # 0 /\ deals'[d].firstContact # deals[d].firstContact =>
               \E w \in Workers : tx[w].deal = d /\ CorrectFirstContact(w)]_vars
  BY <1>1 DEF ContactKept
<1> QED
  BY <1>2, <1>3, <1>4, InvHolds, PTL DEF Spec, FirstContactWriteOnce
=============================================================================
