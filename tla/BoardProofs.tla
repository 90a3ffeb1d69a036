----------------------------- MODULE BoardProofs ------------------------------
(***************************************************************************)
(* Proofs about Board, for any number of deals, stages and events: the     *)
(* board at rest shows what the API holds, and the gate dialog repeats a   *)
(* move only when the fields it was told about are filled.                 *)
(*                                                                         *)
(* BoardAtRest is not inductive: a fetch that was read before the last     *)
(* move was answered would bring old cards.  It cannot be there, because   *)
(* the answer of every move replaces the fetch (FetchCurrent).  Nor is     *)
(* CompletedMeansFilled: a save that is through must have sent everything  *)
(* that was listed (SavesHonest).                                          *)
(***************************************************************************)
EXTENDS Board, SequenceTheorems, TLAPS

Move == [deal : Deals, to : Stages \ {WonStage}, listed : SUBSET Fields,
         heard : BOOLEAN, answer : {"none", "ok", "gate", "refused", "lost"},
         missing : SUBSET Fields, snapshot : [Deals -> Cards]]
SaveOf == [deal : Deals, to : Stages \ {WonStage}, listed : SUBSET Fields,
           todo : Seq(Fields), shown : BOOLEAN, here : BOOLEAN]
Dialog == [deal : Deals, to : Stages \ {WonStage}, missing : (SUBSET Fields) \ {{}}]
ReadFetch == [at : {"read"}, cards : [Deals -> Cards]]

\* A refusal of the gate names a field; a save that is shown belongs to a board that is there.
MoveTypes == moves \in Seq(Move)
             /\ \A i \in DOMAIN moves : moves[i].answer = "gate" => moves[i].missing # {}
SaveTypes == saves \in Seq(SaveOf)
             /\ \A i \in DOMAIN saves : saves[i].shown => saves[i].here
BoardTypes ==
    /\ deals \in [Deals -> [stage : Stages, open : BOOLEAN, missing : SUBSET Fields]]
    /\ shown \in [Deals -> Cards]
    /\ fetch \in {NoFetch, SentFetch} \cup ReadFetch
    /\ failed \in BOOLEAN /\ foreign \subseteq Deals
    /\ dialog \in {None} \cup Dialog
    /\ prompt \in Deals \cup {None} /\ plans \subseteq Deals /\ events \in 0..MaxEvents
Types == MoveTypes /\ SaveTypes /\ BoardTypes

\* A fetch that was read holds what the API has, unless a move is yet to be answered.
FetchCurrent ==
    moves = <<>> /\ fetch.at = "read" =>
        \A d \in Deals \ foreign : fetch.cards[d] = ApiBoard[d]

\* What a save was asked to fill is filled or still to do.
SavesHonest ==
    \A i \in DOMAIN saves : \A f \in saves[i].listed \cap deals[saves[i].deal].missing :
        \E j \in DOMAIN saves[i].todo : saves[i].todo[j] = f

Inv == Types /\ FetchCurrent /\ BoardAtRest /\ SavesHonest /\ CompletedMeansFilled

-----------------------------------------------------------------------------
(* Sequences *)

LEMMA Replaced ==
    ASSUME NEW S, NEW s \in Seq(S), NEW i \in DOMAIN s, NEW e \in S
    PROVE  /\ [s EXCEPT ![i] = e] \in Seq(S) /\ DOMAIN [s EXCEPT ![i] = e] = DOMAIN s
           /\ \A j \in DOMAIN s : [s EXCEPT ![i] = e][j] = IF j = i THEN e ELSE s[j]
<1>1. DOMAIN s = 1..Len(s)
  BY LenProperties
<1>2. [s EXCEPT ![i] = e] \in Seq(S)
  BY <1>1, ExceptSeq
<1> QED
  BY <1>2

LEMMA Removed ==
    ASSUME NEW S, NEW s \in Seq(S), NEW i \in DOMAIN s
    PROVE  /\ RemoveAt(s, i) \in Seq(S)
           /\ Len(RemoveAt(s, i)) = Len(s) - 1
           /\ \A j \in 1..Len(s) - 1 : RemoveAt(s, i)[j] = IF j < i THEN s[j] ELSE s[j + 1]
<1> DEFINE a == SubSeq(s, 1, i - 1)
           b == SubSeq(s, i + 1, Len(s))
<1>1. /\ Len(s) \in Nat /\ DOMAIN s = 1..Len(s)
      /\ \A j \in 1..Len(s) : s[j] \in S
  BY LenProperties, ElementOfSeq
<1>2. /\ a \in Seq(S) /\ Len(a) = i - 1
      /\ \A j \in 1..i - 1 : a[j] = s[j]
  BY <1>1
<1>3. /\ b \in Seq(S) /\ Len(b) = Len(s) - i
      /\ \A j \in 1..Len(s) - i : b[j] = s[j + i]
  BY <1>1
<1>4. RemoveAt(s, i) = a \o b
  BY DEF RemoveAt
<1> HIDE DEF a, b
<1>5. /\ a \o b \in Seq(S) /\ Len(a \o b) = Len(a) + Len(b)
      /\ \A j \in 1..Len(a) + Len(b) :
            (a \o b)[j] = IF j <= Len(a) THEN a[j] ELSE b[j - Len(a)]
  BY <1>2, <1>3, ConcatProperties
<1>6. i \in 1..Len(s) /\ Len(a) + Len(b) = Len(s) - 1
  BY <1>1, <1>2, <1>3
<1>7. ASSUME NEW j \in 1..Len(s) - 1
      PROVE  (a \o b)[j] = IF j < i THEN s[j] ELSE s[j + 1]
  <2>1. (a \o b)[j] = IF j <= i - 1 THEN a[j] ELSE b[j - (i - 1)]
    BY <1>2, <1>5, <1>6
  <2>2. CASE j < i
    BY <1>1, <1>2, <1>6, <2>1, <2>2
  <2>3. CASE ~(j < i)
    <3>1. j - (i - 1) \in 1..Len(s) - i /\ (j - (i - 1)) + i = j + 1
      BY <1>1, <1>6, <2>3
    <3>2. b[j - (i - 1)] = s[j + 1]
      BY <1>3, <3>1
    <3> QED
      BY <1>1, <1>6, <2>1, <2>3, <3>2
  <2> QED
    BY <2>2, <2>3
<1> QED
  BY <1>4, <1>5, <1>6, <1>7

\* What holds of every element holds of those that remain.
LEMMA RemovedElements ==
    ASSUME NEW S, NEW s \in Seq(S), NEW i \in DOMAIN s
    PROVE  /\ RemoveAt(s, i) \in Seq(S)
           /\ \A j \in DOMAIN RemoveAt(s, i) : \E k \in DOMAIN s : RemoveAt(s, i)[j] = s[k]
<1>1. /\ Len(s) \in Nat /\ DOMAIN s = 1..Len(s)
  BY LenProperties
<1>2. DOMAIN RemoveAt(s, i) = 1..Len(s) - 1
  BY Removed, LenProperties
<1>3. ASSUME NEW j \in 1..Len(s) - 1
      PROVE  \E k \in DOMAIN s : RemoveAt(s, i)[j] = s[k]
  <2>1. j \in DOMAIN s /\ j + 1 \in DOMAIN s
    BY <1>1
  <2> QED
    BY <2>1, Removed
<1> QED
  BY <1>2, <1>3, Removed

\* The requests of a save cover what was listed.
LEMMA RequestsCover ==
    ASSUME NEW listed \in SUBSET Fields
    PROVE  /\ Requests(listed) \in Seq(Fields)
           /\ \A f \in listed : \E j \in DOMAIN Requests(listed) : Requests(listed)[j] = f
<1>1. \A f \in Fields : /\ Asked(f, listed) \in Seq(Fields)
                        /\ f \in listed => Asked(f, listed) = <<f>>
  BY DEF Asked
<1> DEFINE a == Asked("contact", listed)
           b == Asked("first", listed)
           c == Asked("deal", listed)
<1>2. /\ a \in Seq(Fields) /\ b \in Seq(Fields) /\ c \in Seq(Fields)
      /\ "contact" \in listed => a = <<"contact">>
      /\ "first" \in listed => b = <<"first">>
      /\ "deal" \in listed => c = <<"deal">>
  BY <1>1 DEF Fields
<1>3. Requests(listed) = (a \o b) \o c
  BY DEF Requests
<1> HIDE DEF a, b, c
<1>4. /\ Len(a) \in Nat /\ Len(b) \in Nat /\ Len(c) \in Nat
      /\ (a \o b) \in Seq(Fields) /\ Len(a \o b) = Len(a) + Len(b)
      /\ \A i \in 1..Len(a) : (a \o b)[i] = a[i]
      /\ \A i \in 1..Len(b) : (a \o b)[Len(a) + i] = b[i]
  BY <1>2
<1>5. /\ (a \o b) \o c \in Seq(Fields)
      /\ DOMAIN ((a \o b) \o c) = 1..Len(a) + Len(b) + Len(c)
      /\ \A i \in 1..Len(a \o b) : ((a \o b) \o c)[i] = (a \o b)[i]
      /\ \A i \in 1..Len(c) : ((a \o b) \o c)[Len(a) + Len(b) + i] = c[i]
  BY <1>2, <1>4
<1>6. ASSUME "contact" \in listed
      PROVE  1 \in 1..Len(a) + Len(b) + Len(c) /\ ((a \o b) \o c)[1] = "contact"
  <2>1. Len(a) = 1 /\ a[1] = "contact"
    BY <1>2, <1>6
  <2> QED
    BY <1>4, <1>5, <2>1
<1>7. ASSUME "first" \in listed
      PROVE  /\ Len(a) + 1 \in 1..Len(a) + Len(b) + Len(c)
             /\ ((a \o b) \o c)[Len(a) + 1] = "first"
  <2>1. Len(b) = 1 /\ b[1] = "first"
    BY <1>2, <1>7
  <2> QED
    BY <1>4, <1>5, <2>1
<1>8. ASSUME "deal" \in listed
      PROVE  /\ Len(a) + Len(b) + 1 \in 1..Len(a) + Len(b) + Len(c)
             /\ ((a \o b) \o c)[Len(a) + Len(b) + 1] = "deal"
  <2>1. Len(c) = 1 /\ c[1] = "deal"
    BY <1>2, <1>8
  <2> QED
    BY <1>4, <1>5, <2>1
<1>9. \A f \in listed : f = "contact" \/ f = "first" \/ f = "deal"
  BY DEF Fields
<1> QED
  BY <1>3, <1>5, <1>6, <1>7, <1>8, <1>9

-----------------------------------------------------------------------------
(* Moves *)

\* Every move there is after a step was there before it, with the same deal and list.
MovesKept == \A i \in DOMAIN moves' : \E k \in DOMAIN moves :
                 moves'[i].deal = moves[k].deal /\ moves'[i].listed = moves[k].listed

LEMMA RequestedMove ==
    ASSUME Types, NEW d \in Deals, NEW to \in Stages \ {WonStage}, NEW listed \in SUBSET Fields,
           NEW here \in BOOLEAN, RequestMove(d, to, listed, here)
    PROVE  /\ MoveTypes' /\ moves' # <<>>
           /\ shown' \in [Deals -> Cards] /\ fetch' = NoFetch /\ failed' = FALSE
           /\ \A j \in DOMAIN moves' :
                 \/ moves'[j].deal = d /\ moves'[j].listed = listed
                 \/ \E k \in DOMAIN moves :
                       moves'[j].deal = moves[k].deal /\ moves'[j].listed = moves[k].listed
<1> DEFINE old == [i \in DOMAIN moves |-> [moves[i] EXCEPT !.heard = @ /\ ~here]]
           new == [deal |-> d, to |-> to, listed |-> listed, heard |-> here,
                   answer |-> "none", missing |-> {}, snapshot |-> shown]
<1>1. moves' = Append(old, new)
  BY DEF RequestMove
<1>2. moves \in Seq(Move) /\ shown \in [Deals -> Cards]
  BY DEF Types, MoveTypes, BoardTypes
<1>3. /\ Len(moves) \in Nat /\ DOMAIN moves = 1..Len(moves)
      /\ \A i \in 1..Len(moves) : moves[i] \in Move
  BY <1>2, LenProperties, ElementOfSeq
<1>4. \A i \in 1..Len(moves) : [moves[i] EXCEPT !.heard = @ /\ ~here] \in Move
  BY <1>3 DEF Move
<1>5. old \in Seq(Move) /\ Len(old) = Len(moves)
  <2>1. old = [i \in 1..Len(moves) |-> [moves[i] EXCEPT !.heard = @ /\ ~here]]
    BY <1>3
  <2> QED
    BY <1>3, <1>4, <2>1
<1>6. new \in Move
  BY <1>2 DEF Move
<1>7. \A i \in 1..Len(moves) : /\ old[i].deal = moves[i].deal /\ old[i].listed = moves[i].listed
                               /\ old[i].answer = moves[i].answer
                               /\ old[i].missing = moves[i].missing
  BY <1>3 DEF Move
<1>8. new.deal = d /\ new.listed = listed /\ new.answer = "none"
  OBVIOUS
<1> HIDE DEF old, new
<1>9. /\ moves' \in Seq(Move) /\ moves' # <<>> /\ DOMAIN moves' = 1..Len(moves) + 1
      /\ \A i \in 1..Len(moves) : moves'[i] = old[i]
      /\ moves'[Len(moves) + 1] = new
  BY <1>1, <1>3, <1>5, <1>6, AppendProperties, LenProperties
<1>10. \A i \in DOMAIN moves' : i \in 1..Len(moves) \/ i = Len(moves) + 1
  BY <1>3, <1>9
<1>11. MoveTypes'
  BY <1>3, <1>7, <1>8, <1>9, <1>10 DEF Types, MoveTypes
<1>12. shown' \in [Deals -> Cards] /\ fetch' = NoFetch /\ failed' = FALSE
  <2>1. shown' = [shown EXCEPT ![d].stage = to] /\ fetch' = NoFetch /\ failed' = FALSE
    BY DEF RequestMove
  <2> QED
    BY <1>2, <2>1 DEF Cards
<1> QED
  BY <1>3, <1>7, <1>8, <1>9, <1>10, <1>11, <1>12

\* The answer of a move is filled in.
LEMMA MoveServed ==
    ASSUME Types, NEW i \in DOMAIN moves, NEW a \in {"ok", "gate", "refused", "lost"},
           NEW m \in SUBSET Fields, a = "gate" => m # {},
           moves' = [moves EXCEPT ![i].answer = a, ![i].missing = m]
    PROVE  MoveTypes' /\ MovesKept /\ moves' # <<>>
<1>1. /\ moves \in Seq(Move) /\ Len(moves) \in Nat /\ DOMAIN moves = 1..Len(moves)
      /\ \A j \in 1..Len(moves) : moves[j] \in Move
  BY LenProperties, ElementOfSeq DEF Types, MoveTypes
<1> DEFINE new == [moves[i] EXCEPT !.answer = a, !.missing = m]
<1>2. /\ new \in Move /\ new.answer = a /\ new.missing = m
      /\ new.deal = moves[i].deal /\ new.listed = moves[i].listed
  BY <1>1 DEF Move
<1>3. moves' = [moves EXCEPT ![i] = new]
  BY <1>1
<1> HIDE DEF new
<1>4. /\ moves' \in Seq(Move) /\ DOMAIN moves' = DOMAIN moves
      /\ \A j \in DOMAIN moves : moves'[j] = IF j = i THEN new ELSE moves[j]
  <2>1. /\ [moves EXCEPT ![i] = new] \in Seq(Move)
        /\ DOMAIN [moves EXCEPT ![i] = new] = DOMAIN moves
        /\ \A j \in DOMAIN moves :
              [moves EXCEPT ![i] = new][j] = IF j = i THEN new ELSE moves[j]
    BY <1>1, <1>2, Replaced, Zenon
  <2> QED
    BY <1>3, <2>1, Zenon
<1>5. moves' # <<>>
  BY <1>1, <1>4
<1>6. MoveTypes' /\ MovesKept
  BY <1>1, <1>2, <1>4 DEF Types, MoveTypes, MovesKept
<1> QED
  BY <1>5, <1>6

\* Its callbacks are forgotten.
LEMMA MovesUnheard ==
    ASSUME Types, moves' = [i \in DOMAIN moves |-> [moves[i] EXCEPT !.heard = FALSE]]
    PROVE  MoveTypes' /\ MovesKept /\ (moves' = <<>> <=> moves = <<>>)
<1>1. /\ moves \in Seq(Move) /\ Len(moves) \in Nat /\ DOMAIN moves = 1..Len(moves)
      /\ \A j \in 1..Len(moves) : moves[j] \in Move
  BY LenProperties, ElementOfSeq DEF Types, MoveTypes
<1>2. \A j \in 1..Len(moves) :
         /\ [moves[j] EXCEPT !.heard = FALSE] \in Move
         /\ moves'[j].deal = moves[j].deal /\ moves'[j].listed = moves[j].listed
         /\ moves'[j].answer = moves[j].answer /\ moves'[j].missing = moves[j].missing
  BY <1>1 DEF Move
<1>3. moves' = [i \in 1..Len(moves) |-> [moves[i] EXCEPT !.heard = FALSE]]
  BY <1>1
<1>4. moves' \in Seq(Move) /\ Len(moves') = Len(moves) /\ DOMAIN moves' = 1..Len(moves)
  BY <1>1, <1>2, <1>3
<1>5. MoveTypes' /\ MovesKept
  BY <1>1, <1>2, <1>4 DEF Types, MoveTypes, MovesKept
<1> QED
  BY <1>1, <1>4, <1>5

\* It is gone.
LEMMA MoveRemoved ==
    ASSUME Types, NEW i \in DOMAIN moves, moves' = RemoveAt(moves, i)
    PROVE  MoveTypes' /\ MovesKept
<1>1. moves \in Seq(Move)
  BY DEF Types, MoveTypes
<1>2. moves' \in Seq(Move) /\ \A j \in DOMAIN moves' : \E k \in DOMAIN moves : moves'[j] = moves[k]
  BY <1>1, RemovedElements
<1> QED
  BY <1>2 DEF Types, MoveTypes, MovesKept

-----------------------------------------------------------------------------
(* Saves *)

\* Every save there is after a step was there before it, with the same deal, list and
\* requests to do.
SavesKept == \A i \in DOMAIN saves' : \E k \in DOMAIN saves :
                 /\ saves'[i].deal = saves[k].deal /\ saves'[i].listed = saves[k].listed
                 /\ saves'[i].todo = saves[k].todo

MissingShrinks == \A d \in Deals : deals'[d].missing \subseteq deals[d].missing

LEMMA SavesStayHonest ==
    ASSUME Types, SavesHonest, SavesKept, MissingShrinks
    PROVE  SavesHonest'
<1> SUFFICES ASSUME NEW i \in DOMAIN saves',
                    NEW f \in saves'[i].listed \cap deals'[saves'[i].deal].missing
             PROVE  \E j \in DOMAIN saves'[i].todo : saves'[i].todo[j] = f
  BY DEF SavesHonest
<1>1. PICK k \in DOMAIN saves :
         /\ saves'[i].deal = saves[k].deal /\ saves'[i].listed = saves[k].listed
         /\ saves'[i].todo = saves[k].todo
  BY DEF SavesKept
<1>2. saves[k] \in SaveOf
  BY ElementOfSeq, LenProperties DEF Types, SaveTypes
<1>3. f \in saves[k].listed \cap deals[saves[k].deal].missing
  BY <1>1, <1>2 DEF MissingShrinks, SaveOf
<1> QED
  BY <1>1, <1>3 DEF SavesHonest

LEMMA MovesStayFilled ==
    ASSUME Types, CompletedMeansFilled, MovesKept, MissingShrinks
    PROVE  CompletedMeansFilled'
<1> SUFFICES ASSUME NEW i \in DOMAIN moves'
             PROVE  moves'[i].listed \cap deals'[moves'[i].deal].missing = {}
  BY DEF CompletedMeansFilled
<1>1. PICK k \in DOMAIN moves :
         moves'[i].deal = moves[k].deal /\ moves'[i].listed = moves[k].listed
  BY DEF MovesKept
<1>2. moves[k] \in Move
  BY ElementOfSeq, LenProperties DEF Types, MoveTypes
<1> QED
  BY <1>1, <1>2 DEF MissingShrinks, CompletedMeansFilled, Move

\* The elements of a list change one by one.
LEMMA Mapped ==
    ASSUME NEW S, NEW s \in Seq(S), NEW t, DOMAIN t = DOMAIN s, t = [j \in DOMAIN t |-> t[j]],
           \A j \in DOMAIN s : t[j] \in S
    PROVE  t \in Seq(S)
<1>1. Len(s) \in Nat /\ DOMAIN s = 1..Len(s)
  BY LenProperties
<1>2. t \in [1..Len(s) -> S]
  BY <1>1
<1> QED
  BY <1>1, <1>2, SeqDef

\* Saves that are no longer shown, or whose board is gone.
LEMMA Hidden ==
    ASSUME NEW s \in SaveOf
    PROVE  /\ Detached(s) \in SaveOf /\ ~Detached(s).shown
           /\ Detached(s).deal = s.deal /\ Detached(s).listed = s.listed
           /\ Detached(s).todo = s.todo
           /\ [s EXCEPT !.shown = FALSE, !.here = FALSE] \in SaveOf
           /\ ~[s EXCEPT !.shown = FALSE, !.here = FALSE].shown
           /\ [s EXCEPT !.shown = FALSE, !.here = FALSE].deal = s.deal
           /\ [s EXCEPT !.shown = FALSE, !.here = FALSE].listed = s.listed
           /\ [s EXCEPT !.shown = FALSE, !.here = FALSE].todo = s.todo
BY DEF Detached, SaveOf

LEMMA SavesHidden ==
    ASSUME Types,
           \/ saves' = [i \in DOMAIN saves |-> Detached(saves[i])]
           \/ saves' = [i \in DOMAIN saves |->
                           [saves[i] EXCEPT !.shown = FALSE, !.here = FALSE]]
    PROVE  SaveTypes' /\ SavesKept
<1>1. saves \in Seq(SaveOf) /\ \A i \in DOMAIN saves : saves[i] \in SaveOf
  BY ElementOfSeq, LenProperties DEF Types, SaveTypes
<1>2. /\ DOMAIN saves' = DOMAIN saves
      /\ saves' = [i \in DOMAIN saves' |-> saves'[i]]
      /\ \A i \in DOMAIN saves :
            \/ saves'[i] = Detached(saves[i])
            \/ saves'[i] = [saves[i] EXCEPT !.shown = FALSE, !.here = FALSE]
  OBVIOUS
<1>3. ASSUME NEW i \in DOMAIN saves
      PROVE  /\ saves'[i] \in SaveOf /\ ~saves'[i].shown
             /\ saves'[i].deal = saves[i].deal /\ saves'[i].listed = saves[i].listed
             /\ saves'[i].todo = saves[i].todo
  <2>1. CASE saves'[i] = Detached(saves[i])
    BY <1>1, <2>1, Hidden
  <2>2. CASE saves'[i] = [saves[i] EXCEPT !.shown = FALSE, !.here = FALSE]
    BY <1>1, <2>2, Hidden
  <2> QED
    BY <1>2, <2>1, <2>2
<1>4. saves' \in Seq(SaveOf)
  BY <1>1, <1>2, <1>3, Mapped, Zenon
<1> QED
  BY <1>2, <1>3, <1>4 DEF SaveTypes, SavesKept

LEMMA SaveRemoved ==
    ASSUME Types, NEW i \in DOMAIN saves, saves' = RemoveAt(saves, i)
    PROVE  SaveTypes' /\ SavesKept
<1>1. saves \in Seq(SaveOf)
  BY DEF Types, SaveTypes
<1>2. saves' \in Seq(SaveOf) /\ \A j \in DOMAIN saves' : \E k \in DOMAIN saves : saves'[j] = saves[k]
  BY <1>1, RemovedElements
<1> QED
  BY <1>2 DEF Types, SaveTypes, SavesKept

LEMMA SaveStarted ==
    ASSUME Types, SavesHonest, Save
    PROVE  SaveTypes' /\ SavesHonest'
<1> DEFINE new == [deal |-> dialog.deal, to |-> dialog.to, listed |-> dialog.missing,
                   todo |-> Requests(dialog.missing), shown |-> TRUE, here |-> TRUE]
<1>1. saves' = Append(saves, new) /\ deals' = deals
  BY DEF Save
<1>2. dialog \in Dialog
  BY DEF Save, Types, BoardTypes
<1>3. dialog.missing \in SUBSET Fields
  BY <1>2 DEF Dialog
<1>4. /\ Requests(dialog.missing) \in Seq(Fields)
      /\ \A f \in dialog.missing : \E j \in DOMAIN Requests(dialog.missing) :
            Requests(dialog.missing)[j] = f
  BY <1>3, RequestsCover
<1>5. new \in SaveOf
  BY <1>2, <1>4 DEF SaveOf, Dialog
<1>6. /\ saves \in Seq(SaveOf) /\ Len(saves) \in Nat /\ DOMAIN saves = 1..Len(saves)
  BY LenProperties DEF Types, SaveTypes
<1>7. new.here /\ new.listed = dialog.missing /\ new.todo = Requests(dialog.missing)
  OBVIOUS
<1> HIDE DEF new
<1>8. /\ saves' \in Seq(SaveOf) /\ DOMAIN saves' = 1..Len(saves) + 1
      /\ \A i \in 1..Len(saves) : saves'[i] = saves[i]
      /\ saves'[Len(saves) + 1] = new
  BY <1>1, <1>5, <1>6, AppendProperties, LenProperties
<1>9. \A i \in DOMAIN saves' : i \in DOMAIN saves \/ saves'[i] = new
  BY <1>6, <1>8
<1>10. SaveTypes'
  BY <1>6, <1>7, <1>8, <1>9 DEF Types, SaveTypes
<1>11. SavesHonest'
  BY <1>1, <1>4, <1>6, <1>7, <1>8, <1>9 DEF SavesHonest
<1> QED
  BY <1>10, <1>11

\* A request that was served is done, and its field is filled.
LEMMA SaveAdvanced ==
    ASSUME Types, SavesHonest, NEW i \in DOMAIN saves, SaveServed(i)
    PROVE  SaveTypes' /\ SavesHonest' /\ MissingShrinks
           /\ deals' \in [Deals -> [stage : Stages, open : BOOLEAN, missing : SUBSET Fields]]
           /\ \A d \in Deals : Card(deals'[d]) = Card(deals[d])
<1> DEFINE d == saves[i].deal
           field == Head(saves[i].todo)
           rest == Tail(saves[i].todo)
           new == [saves[i] EXCEPT !.todo = rest]
<1>1. /\ saves \in Seq(SaveOf) /\ \A k \in DOMAIN saves : saves[k] \in SaveOf
  BY ElementOfSeq, LenProperties DEF Types, SaveTypes
<1>2. saves[i].todo \in Seq(Fields) /\ saves[i].todo # <<>> /\ d \in Deals
  BY <1>1 DEF SaveServed, SaveOf
<1>3. /\ rest \in Seq(Fields)
      /\ \A j \in DOMAIN saves[i].todo :
            saves[i].todo[j] = field \/ \E k \in DOMAIN rest : rest[k] = saves[i].todo[j]
  <2>1. /\ rest \in Seq(Fields) /\ Len(rest) = Len(saves[i].todo) - 1
        /\ \A k \in 1..Len(rest) : rest[k] = saves[i].todo[k + 1]
    BY <1>2, HeadTailProperties
  <2>2. /\ Len(saves[i].todo) \in Nat /\ DOMAIN saves[i].todo = 1..Len(saves[i].todo)
        /\ DOMAIN rest = 1..Len(rest) /\ field = saves[i].todo[1]
    BY <1>2, <2>1, LenProperties
  <2>3. ASSUME NEW j \in DOMAIN saves[i].todo, j # 1
        PROVE  j - 1 \in DOMAIN rest /\ rest[j - 1] = saves[i].todo[j]
    <3>1. j - 1 \in 1..Len(rest) /\ (j - 1) + 1 = j
      BY <2>1, <2>2, <2>3
    <3> QED
      BY <2>1, <2>2, <3>1
  <2> QED
    BY <2>1, <2>2, <2>3
<1>4. deals' = [deals EXCEPT ![d].missing = @ \ {field}] /\ saves' = [saves EXCEPT ![i].todo = Tail(@)]
  BY DEF SaveServed
<1>5. saves' = [saves EXCEPT ![i] = new]
  BY <1>1, <1>4
<1>6. /\ new \in SaveOf /\ new.deal = d /\ new.listed = saves[i].listed /\ new.todo = rest
      /\ new.shown = saves[i].shown /\ new.here = saves[i].here
  BY <1>1, <1>3 DEF SaveOf
<1>7. deals \in [Deals -> [stage : Stages, open : BOOLEAN, missing : SUBSET Fields]]
  BY DEF Types, BoardTypes
<1> HIDE DEF new, rest, field, d
<1>8. /\ saves' \in Seq(SaveOf) /\ DOMAIN saves' = DOMAIN saves
      /\ \A k \in DOMAIN saves : saves'[k] = IF k = i THEN new ELSE saves[k]
  <2>1. /\ [saves EXCEPT ![i] = new] \in Seq(SaveOf)
        /\ DOMAIN [saves EXCEPT ![i] = new] = DOMAIN saves
        /\ \A k \in DOMAIN saves :
              [saves EXCEPT ![i] = new][k] = IF k = i THEN new ELSE saves[k]
    BY <1>1, <1>6, Replaced, Zenon
  <2> QED
    BY <1>5, <2>1, Zenon
<1>9. SaveTypes'
  BY <1>6, <1>8 DEF Types, SaveTypes
<1>10. /\ deals' \in [Deals -> [stage : Stages, open : BOOLEAN, missing : SUBSET Fields]]
       /\ deals'[d].missing = deals[d].missing \ {field}
       /\ \A e \in Deals \ {d} : deals'[e] = deals[e]
       /\ deals'[d].stage = deals[d].stage /\ deals'[d].open = deals[d].open
  BY <1>2, <1>4, <1>7 DEF d
<1>11. MissingShrinks /\ \A e \in Deals : Card(deals'[e]) = Card(deals[e])
  BY <1>10 DEF MissingShrinks, Card
<1>12. SavesHonest'
  <2> SUFFICES ASSUME NEW k \in DOMAIN saves,
                      NEW f \in saves'[k].listed \cap deals'[saves'[k].deal].missing
               PROVE  \E j \in DOMAIN saves'[k].todo : saves'[k].todo[j] = f
    BY <1>8 DEF SavesHonest
  <2>1. /\ saves'[k].listed = saves[k].listed /\ saves'[k].deal = saves[k].deal
        /\ saves[k].deal \in Deals
    BY <1>1, <1>6, <1>8 DEF SaveOf, d
  <2>2. PICK j \in DOMAIN saves[k].todo : saves[k].todo[j] = f
    BY <1>11, <2>1 DEF SavesHonest, MissingShrinks
  <2>3. CASE k # i
    BY <1>8, <2>2, <2>3
  <2>4. CASE k = i
    <3>1. f # field
      BY <1>10, <2>1, <2>4 DEF d
    <3> QED
      BY <1>3, <1>6, <1>8, <2>2, <2>4, <3>1
  <2> QED
    BY <2>3, <2>4
<1> QED
  BY <1>9, <1>10, <1>11, <1>12

\* A save that is through repeats the move; everything it listed is filled.
LEMMA SaveThrough ==
    ASSUME Types, SavesHonest, NEW i \in DOMAIN saves, SaveDone(i)
    PROVE  /\ SaveTypes' /\ SavesKept
           /\ saves[i].listed \cap deals[saves[i].deal].missing = {}
           /\ saves[i] \in SaveOf
<1>1. saves \in Seq(SaveOf) /\ \A k \in DOMAIN saves : saves[k] \in SaveOf
  BY ElementOfSeq, LenProperties DEF Types, SaveTypes
<1>2. saves[i].listed \cap deals[saves[i].deal].missing = {}
  <2>1. saves[i].todo = <<>>
    BY DEF SaveDone
  <2> QED
    BY <2>1 DEF SavesHonest
<1> DEFINE left == RemoveAt(saves, i)
<1>3. left \in Seq(SaveOf) /\ \A j \in DOMAIN left : \E k \in DOMAIN saves : left[j] = saves[k]
  BY <1>1, RemovedElements
<1>4. saves' = [j \in DOMAIN left |-> IF saves[i].here THEN Detached(left[j]) ELSE left[j]]
  BY DEF SaveDone
<1> HIDE DEF left
<1>5. /\ DOMAIN saves' = DOMAIN left /\ saves' = [j \in DOMAIN saves' |-> saves'[j]]
      /\ \A j \in DOMAIN left : saves'[j] = left[j] \/ saves'[j] = Detached(left[j])
  BY <1>4
<1>6. \A j \in DOMAIN left : /\ left[j] \in SaveOf /\ (left[j].shown => left[j].here)
                             /\ Detached(left[j]) \in SaveOf /\ ~Detached(left[j]).shown
                             /\ Detached(left[j]).deal = left[j].deal
                             /\ Detached(left[j]).listed = left[j].listed
                             /\ Detached(left[j]).todo = left[j].todo
  <2>1. \A j \in DOMAIN left : left[j] \in SaveOf /\ (left[j].shown => left[j].here)
    BY <1>1, <1>3 DEF Types, SaveTypes
  <2> QED
    BY <2>1, Hidden
<1>7. saves' \in Seq(SaveOf)
  <2>1. ASSUME NEW j \in DOMAIN left PROVE saves'[j] \in SaveOf
    <3>1. saves'[j] = left[j] \/ saves'[j] = Detached(left[j])
      BY <1>5
    <3>2. left[j] \in SaveOf /\ Detached(left[j]) \in SaveOf
      BY <1>6
    <3> QED
      BY <3>1, <3>2, Zenon
  <2> QED
    BY <1>3, <1>5, <2>1, Mapped, Zenon
<1>8. SaveTypes' /\ SavesKept
  BY <1>3, <1>5, <1>6, <1>7 DEF SaveTypes, SavesKept
<1> QED
  BY <1>1, <1>2, <1>8

-----------------------------------------------------------------------------
(* What a step leaves alone *)

LEMMA MovesSame ==
    ASSUME Types, moves' = moves
    PROVE  MoveTypes' /\ MovesKept
BY DEF Types, MoveTypes, MovesKept

LEMMA SavesSame ==
    ASSUME Types, saves' = saves
    PROVE  SaveTypes' /\ SavesKept
BY DEF Types, SaveTypes, SavesKept

LEMMA DealsSame ==
    ASSUME deals' = deals
    PROVE  MissingShrinks /\ \A d \in Deals : Card(deals'[d]) = Card(deals[d])
BY DEF MissingShrinks

\* Neither the board nor its fetch nor what the API would answer changed.
CacheKept ==
    /\ UNCHANGED <<shown, fetch, failed, foreign>>
    /\ moves' = <<>> => moves = <<>>
    /\ \A d \in Deals : Card(deals'[d]) = Card(deals[d])

LEMMA CacheStaysCurrent ==
    ASSUME FetchCurrent, BoardAtRest, CacheKept
    PROVE  FetchCurrent' /\ BoardAtRest'
<1>1. \A d \in Deals : ApiBoard'[d] = ApiBoard[d]
  BY DEF CacheKept, ApiBoard
<1> QED
  BY <1>1 DEF CacheKept, FetchCurrent, BoardAtRest, ShowsApi

\* While a move is in flight, or a fetch is sent, nothing is said of the cards.
LEMMA MovingSaysNothing ==
    ASSUME moves' # <<>>
    PROVE  FetchCurrent' /\ BoardAtRest'
BY DEF FetchCurrent, BoardAtRest

LEMMA SentSaysNothing ==
    ASSUME fetch' = SentFetch
    PROVE  FetchCurrent' /\ BoardAtRest'
BY DEF FetchCurrent, BoardAtRest, SentFetch, NoFetch

LEMMA EventCounted ==
    ASSUME Types, Event
    PROVE  events' \in 0..MaxEvents
BY BoardAssumption DEF Types, BoardTypes, Event

-----------------------------------------------------------------------------
(* The steps *)

LEMMA DragKeeps ==
    ASSUME Inv, NEW d \in Deals, NEW to \in Stages, Drag(d, to)
    PROVE  Inv'
<1>1. Types /\ SavesHonest /\ CompletedMeansFilled
  BY DEF Inv
<1>2. /\ to \in Stages \ {WonStage} /\ RequestMove(d, to, {}, TRUE)
      /\ UNCHANGED <<deals, foreign, dialog, saves, prompt, plans>> /\ Event
  BY DEF Drag
<1>3. /\ MoveTypes' /\ moves' # <<>>
      /\ shown' \in [Deals -> Cards] /\ fetch' = NoFetch /\ failed' = FALSE
      /\ \A i \in DOMAIN moves' :
           \/ moves'[i].deal = d /\ moves'[i].listed = {}
           \/ \E k \in DOMAIN moves :
                 moves'[i].deal = moves[k].deal /\ moves'[i].listed = moves[k].listed
  <2>1. {} \in SUBSET Fields /\ TRUE \in BOOLEAN
    OBVIOUS
  <2> QED
    BY <1>1, <1>2, <2>1, RequestedMove, Zenon
<1>4. SaveTypes' /\ SavesHonest'
  BY <1>1, <1>2, SavesSame, DealsSame, SavesStayHonest
<1>5. BoardTypes'
  BY <1>1, <1>2, <1>3, EventCounted DEF Types, BoardTypes
<1>6. CompletedMeansFilled'
  BY <1>1, <1>2, <1>3 DEF CompletedMeansFilled
<1> QED
  BY <1>3, <1>4, <1>5, <1>6, MovingSaysNothing DEF Inv, Types

LEMMA SaveKeeps ==
    ASSUME Inv, Save
    PROVE  Inv'
<1>1. Types /\ FetchCurrent /\ BoardAtRest /\ SavesHonest /\ CompletedMeansFilled
  BY DEF Inv
<1>2. /\ UNCHANGED <<deals, shown, fetch, failed, foreign, moves, dialog, prompt, plans>>
      /\ Event
  BY DEF Save
<1>3. SaveTypes' /\ SavesHonest'
  BY <1>1, SaveStarted
<1>4. MoveTypes' /\ CompletedMeansFilled'
  BY <1>1, <1>2, MovesSame, DealsSame, MovesStayFilled
<1>5. BoardTypes'
  BY <1>1, <1>2, EventCounted DEF Types, BoardTypes
<1>6. FetchCurrent' /\ BoardAtRest'
  BY <1>1, <1>2, DealsSame, CacheStaysCurrent DEF CacheKept
<1> QED
  BY <1>3, <1>4, <1>5, <1>6 DEF Inv, Types

LEMMA CancelKeeps ==
    ASSUME Inv, Cancel
    PROVE  Inv'
<1>1. Types /\ FetchCurrent /\ BoardAtRest /\ SavesHonest /\ CompletedMeansFilled
  BY DEF Inv
<1>2. /\ UNCHANGED <<deals, shown, fetch, failed, foreign, moves, prompt, plans, events>>
      /\ saves' = [i \in DOMAIN saves |-> Detached(saves[i])] /\ dialog' = None
  BY DEF Cancel
<1>3. SaveTypes' /\ SavesHonest'
  <2>1. SaveTypes' /\ SavesKept
    BY <1>1, <1>2, SavesHidden, Zenon
  <2> QED
    BY <1>1, <1>2, <2>1, DealsSame, SavesStayHonest
<1>4. MoveTypes' /\ CompletedMeansFilled'
  BY <1>1, <1>2, MovesSame, DealsSame, MovesStayFilled
<1>5. BoardTypes'
  BY <1>1, <1>2 DEF Types, BoardTypes
<1>6. FetchCurrent' /\ BoardAtRest'
  BY <1>1, <1>2, DealsSame, CacheStaysCurrent DEF CacheKept
<1> QED
  BY <1>3, <1>4, <1>5, <1>6 DEF Inv, Types

LEMMA PromptKeeps ==
    ASSUME Inv, Skip \/ Choose
    PROVE  Inv'
<1>1. Types /\ FetchCurrent /\ BoardAtRest /\ SavesHonest /\ CompletedMeansFilled
  BY DEF Inv
<1>2. /\ UNCHANGED <<deals, shown, fetch, failed, foreign, moves, dialog, saves, events>>
      /\ prompt' = None /\ plans' \subseteq plans \cup {prompt} /\ prompt # None
  BY DEF Skip, Choose
<1>3. MoveTypes' /\ CompletedMeansFilled' /\ SaveTypes' /\ SavesHonest'
  BY <1>1, <1>2, MovesSame, SavesSame, DealsSame, MovesStayFilled, SavesStayHonest
<1>4. BoardTypes'
  BY <1>1, <1>2 DEF Types, BoardTypes
<1>5. FetchCurrent' /\ BoardAtRest'
  BY <1>1, <1>2, DealsSame, CacheStaysCurrent DEF CacheKept
<1> QED
  BY <1>3, <1>4, <1>5 DEF Inv, Types

\* The fetch that is asked for, by hand or after the next contact was saved.
LEMMA RefetchKeeps ==
    ASSUME Inv, Reload \/ \E d \in Deals : PlanAnswered(d)
    PROVE  Inv'
<1>1. Types /\ FetchCurrent /\ BoardAtRest /\ SavesHonest /\ CompletedMeansFilled
  BY DEF Inv
<1>2. /\ UNCHANGED <<deals, shown, failed, foreign, moves, dialog, saves, prompt, events>>
      /\ fetch' \in {SentFetch, fetch} /\ plans' \subseteq plans
  BY DEF Reload, PlanAnswered
<1>3. MoveTypes' /\ CompletedMeansFilled' /\ SaveTypes' /\ SavesHonest'
  BY <1>1, <1>2, MovesSame, SavesSame, DealsSame, MovesStayFilled, SavesStayHonest
<1>4. BoardTypes'
  BY <1>1, <1>2 DEF Types, BoardTypes
<1>5. FetchCurrent' /\ BoardAtRest'
  <2>1. CASE fetch' = SentFetch
    BY <2>1, SentSaysNothing
  <2>2. CASE fetch' = fetch
    BY <1>1, <1>2, <2>2, DealsSame, CacheStaysCurrent DEF CacheKept
  <2> QED
    BY <1>2, <2>1, <2>2
<1> QED
  BY <1>3, <1>4, <1>5 DEF Inv, Types

LEMMA OtherFillsKeeps ==
    ASSUME Inv, NEW d \in Deals, NEW field \in Fields, OtherFills(d, field)
    PROVE  Inv'
<1>1. Types /\ FetchCurrent /\ BoardAtRest /\ SavesHonest /\ CompletedMeansFilled
  BY DEF Inv
<1>2. /\ UNCHANGED <<shown, fetch, failed, foreign, moves, dialog, saves, prompt, plans>>
      /\ Event /\ deals' = [deals EXCEPT ![d].missing = @ \ {field}]
  BY DEF OtherFills
<1>3. deals \in [Deals -> [stage : Stages, open : BOOLEAN, missing : SUBSET Fields]]
  BY <1>1 DEF Types, BoardTypes
<1>4. /\ deals' \in [Deals -> [stage : Stages, open : BOOLEAN, missing : SUBSET Fields]]
      /\ MissingShrinks /\ \A e \in Deals : Card(deals'[e]) = Card(deals[e])
  BY <1>2, <1>3 DEF MissingShrinks, Card
<1>5. MoveTypes' /\ CompletedMeansFilled' /\ SaveTypes' /\ SavesHonest'
  BY <1>1, <1>2, <1>4, MovesSame, SavesSame, MovesStayFilled, SavesStayHonest
<1>6. BoardTypes'
  BY <1>1, <1>2, <1>4, EventCounted DEF Types, BoardTypes
<1>7. FetchCurrent' /\ BoardAtRest'
  BY <1>1, <1>2, <1>4, CacheStaysCurrent DEF CacheKept
<1> QED
  BY <1>5, <1>6, <1>7 DEF Inv, Types

LEMMA OtherClosesKeeps ==
    ASSUME Inv, NEW d \in Deals, OtherCloses(d)
    PROVE  Inv'
<1>1. Types /\ FetchCurrent /\ BoardAtRest /\ SavesHonest /\ CompletedMeansFilled
  BY DEF Inv
<1>2. /\ UNCHANGED <<shown, fetch, failed, moves, dialog, saves, prompt, plans>>
      /\ Event /\ deals' = [deals EXCEPT ![d].open = FALSE] /\ foreign' = foreign \cup {d}
  BY DEF OtherCloses
<1>3. deals \in [Deals -> [stage : Stages, open : BOOLEAN, missing : SUBSET Fields]]
  BY <1>1 DEF Types, BoardTypes
<1>4. /\ deals' \in [Deals -> [stage : Stages, open : BOOLEAN, missing : SUBSET Fields]]
      /\ MissingShrinks /\ \A e \in Deals \ {d} : Card(deals'[e]) = Card(deals[e])
  BY <1>2, <1>3 DEF MissingShrinks, Card
<1>5. MoveTypes' /\ CompletedMeansFilled' /\ SaveTypes' /\ SavesHonest'
  BY <1>1, <1>2, <1>4, MovesSame, SavesSame, MovesStayFilled, SavesStayHonest
<1>6. BoardTypes'
  BY <1>1, <1>2, <1>4, EventCounted DEF Types, BoardTypes
<1>7. \A e \in Deals \ foreign' : e \in Deals \ foreign /\ ApiBoard'[e] = ApiBoard[e]
  BY <1>2, <1>4 DEF ApiBoard
<1>8. FetchCurrent' /\ BoardAtRest'
  BY <1>1, <1>2, <1>7 DEF FetchCurrent, BoardAtRest, ShowsApi
<1> QED
  BY <1>5, <1>6, <1>8 DEF Inv, Types

LEMMA LoseMoveKeeps ==
    ASSUME Inv, NEW i \in DOMAIN moves, LoseMove(i)
    PROVE  Inv'
<1>1. Types /\ FetchCurrent /\ BoardAtRest /\ SavesHonest /\ CompletedMeansFilled
  BY DEF Inv
<1>2. /\ UNCHANGED <<deals, shown, fetch, failed, foreign, dialog, saves, prompt, plans>>
      /\ Event /\ moves' = [moves EXCEPT ![i].answer = "lost"]
  BY DEF LoseMove
<1>3. /\ moves \in Seq(Move) /\ moves[i] \in Move
  BY <1>1, ElementOfSeq, LenProperties DEF Types, MoveTypes
<1>4. moves' = [moves EXCEPT ![i].answer = "lost", ![i].missing = moves[i].missing]
  BY <1>2, <1>3 DEF Move
<1>5. MoveTypes' /\ MovesKept /\ moves' # <<>>
  <2>1. moves[i].missing \in SUBSET Fields /\ "lost" \in {"ok", "gate", "refused", "lost"}
    BY <1>3 DEF Move
  <2>2. "lost" = "gate" => moves[i].missing # {}
    OBVIOUS
  <2> QED
    BY <1>1, <1>4, <2>1, <2>2, MoveServed, Zenon
<1>6. CompletedMeansFilled' /\ SaveTypes' /\ SavesHonest'
  BY <1>1, <1>2, <1>5, SavesSame, DealsSame, MovesStayFilled, SavesStayHonest
<1>7. BoardTypes'
  BY <1>1, <1>2, EventCounted DEF Types, BoardTypes
<1> QED
  BY <1>5, <1>6, <1>7, MovingSaysNothing DEF Inv, Types

LEMMA ServeMoveKeeps ==
    ASSUME Inv, NEW i \in DOMAIN moves, ServeMove(i)
    PROVE  Inv'
<1> DEFINE d == moves[i].deal
           to == moves[i].to
           lacking == Required[to] \cap deals[d].missing
<1>1. Types /\ FetchCurrent /\ BoardAtRest /\ SavesHonest /\ CompletedMeansFilled
  BY DEF Inv
<1>2. UNCHANGED <<shown, fetch, failed, foreign, dialog, saves, prompt, plans, events>>
  BY DEF ServeMove
<1>3. /\ moves \in Seq(Move) /\ d \in Deals /\ to \in Stages
      /\ deals \in [Deals -> [stage : Stages, open : BOOLEAN, missing : SUBSET Fields]]
  <2>1. moves \in Seq(Move) /\ moves[i] \in Move
    BY <1>1, ElementOfSeq, LenProperties DEF Types, MoveTypes
  <2> QED
    BY <1>1, <2>1 DEF Types, BoardTypes, Move
<1>4. lacking \in SUBSET Fields
  BY <1>3
<1>5. PICK a \in {"ok", "gate", "refused", "lost"} :
         /\ moves' = [moves EXCEPT ![i].answer = a, ![i].missing =
                                       IF a = "gate" THEN lacking ELSE {}]
         /\ a = "gate" => lacking # {}
  BY DEF ServeMove
<1>6. deals' = deals \/ deals' = [deals EXCEPT ![d].stage = to]
  BY DEF ServeMove
<1> HIDE DEF d, to, lacking
<1>7. MoveTypes' /\ MovesKept /\ moves' # <<>>
  <2>1. /\ (IF a = "gate" THEN lacking ELSE {}) \in SUBSET Fields
        /\ a = "gate" => (IF a = "gate" THEN lacking ELSE {}) # {}
    BY <1>4, <1>5
  <2> DEFINE m == IF a = "gate" THEN lacking ELSE {}
  <2>2. moves' = [moves EXCEPT ![i].answer = a, ![i].missing = m]
    BY <1>5
  <2> HIDE DEF m
  <2>3. m \in SUBSET Fields /\ (a = "gate" => m # {})
    BY <2>1 DEF m
  <2> QED
    BY <1>1, <2>2, <2>3, MoveServed, Zenon
<1>8. /\ deals' \in [Deals -> [stage : Stages, open : BOOLEAN, missing : SUBSET Fields]]
      /\ MissingShrinks
  BY <1>3, <1>6 DEF MissingShrinks
<1>9. CompletedMeansFilled' /\ SaveTypes' /\ SavesHonest'
  BY <1>1, <1>2, <1>7, <1>8, SavesSame, MovesStayFilled, SavesStayHonest
<1>10. BoardTypes'
  BY <1>1, <1>2, <1>8 DEF Types, BoardTypes
<1> QED
  BY <1>7, <1>9, <1>10, MovingSaysNothing DEF Inv, Types

LEMMA AnswerMoveKeeps ==
    ASSUME Inv, NEW i \in DOMAIN moves, AnswerMove(i)
    PROVE  Inv'
<1> DEFINE m == moves[i]
<1>1. Types /\ FetchCurrent /\ BoardAtRest /\ SavesHonest /\ CompletedMeansFilled
  BY DEF Inv
<1>2. /\ UNCHANGED <<deals, foreign, saves, plans, events>>
      /\ moves' = RemoveAt(moves, i) /\ fetch' = SentFetch
      /\ IF m.answer = "ok" THEN UNCHANGED <<shown, failed>>
         ELSE shown' = m.snapshot /\ failed' = FALSE
      /\ dialog' = dialog \/ /\ m.answer = "gate"
                             /\ dialog' = [deal |-> m.deal, to |-> m.to, missing |-> m.missing]
      /\ prompt' = m.deal \/ prompt' = prompt
  BY DEF AnswerMove, Rollback, Settle, isStageGateError
<1>3. m \in Move /\ (m.answer = "gate" => m.missing # {})
  BY <1>1, ElementOfSeq, LenProperties DEF Types, MoveTypes
<1>4. MoveTypes' /\ MovesKept
  BY <1>1, <1>2, MoveRemoved
<1>5. CompletedMeansFilled' /\ SaveTypes' /\ SavesHonest'
  BY <1>1, <1>2, <1>4, SavesSame, DealsSame, MovesStayFilled, SavesStayHonest
<1> HIDE DEF m
<1>6. BoardTypes'
  <2>1. shown' \in [Deals -> Cards] /\ failed' \in BOOLEAN
    BY <1>1, <1>2, <1>3 DEF Types, BoardTypes, Move
  <2>2. dialog' \in {None} \cup Dialog
    BY <1>1, <1>2, <1>3 DEF Types, BoardTypes, Move, Dialog
  <2>3. prompt' \in Deals \cup {None}
    BY <1>1, <1>2, <1>3 DEF Types, BoardTypes, Move
  <2> QED
    BY <1>1, <1>2, <2>1, <2>2, <2>3 DEF Types, BoardTypes
<1> QED
  BY <1>2, <1>4, <1>5, <1>6, SentSaysNothing DEF Inv, Types

LEMMA SaveServedKeeps ==
    ASSUME Inv, NEW i \in DOMAIN saves, SaveServed(i)
    PROVE  Inv'
<1>1. Types /\ FetchCurrent /\ BoardAtRest /\ SavesHonest /\ CompletedMeansFilled
  BY DEF Inv
<1>2. UNCHANGED <<shown, fetch, failed, foreign, moves, dialog, prompt, plans, events>>
  BY DEF SaveServed
<1>3. SaveTypes' /\ SavesHonest' /\ MissingShrinks
      /\ deals' \in [Deals -> [stage : Stages, open : BOOLEAN, missing : SUBSET Fields]]
      /\ \A d \in Deals : Card(deals'[d]) = Card(deals[d])
  BY <1>1, SaveAdvanced
<1>4. MoveTypes' /\ CompletedMeansFilled'
  BY <1>1, <1>2, <1>3, MovesSame, MovesStayFilled
<1>5. BoardTypes'
  BY <1>1, <1>2, <1>3 DEF Types, BoardTypes
<1>6. FetchCurrent' /\ BoardAtRest'
  BY <1>1, <1>2, <1>3, CacheStaysCurrent DEF CacheKept
<1> QED
  BY <1>3, <1>4, <1>5, <1>6 DEF Inv, Types

LEMMA SaveEndsKeeps ==
    ASSUME Inv, NEW i \in DOMAIN saves, SaveRefused(i) \/ SaveLost(i)
    PROVE  Inv'
<1>1. Types /\ FetchCurrent /\ BoardAtRest /\ SavesHonest /\ CompletedMeansFilled
  BY DEF Inv
<1>2. /\ UNCHANGED <<shown, fetch, failed, foreign, moves, dialog, prompt, plans>>
      /\ saves' = RemoveAt(saves, i) /\ (events' = events \/ Event)
      /\ \/ deals' = deals
         \/ deals' = [deals EXCEPT ![saves[i].deal].missing = @ \ {Head(saves[i].todo)}]
  BY DEF SaveRefused, SaveLost
<1>3. /\ deals \in [Deals -> [stage : Stages, open : BOOLEAN, missing : SUBSET Fields]]
      /\ saves[i].deal \in Deals
  <2>1. saves[i] \in SaveOf
    BY <1>1, ElementOfSeq, LenProperties DEF Types, SaveTypes
  <2> QED
    BY <1>1, <2>1 DEF Types, BoardTypes, SaveOf
<1>4. /\ deals' \in [Deals -> [stage : Stages, open : BOOLEAN, missing : SUBSET Fields]]
      /\ MissingShrinks /\ \A e \in Deals : Card(deals'[e]) = Card(deals[e])
  BY <1>2, <1>3 DEF MissingShrinks, Card
<1>5. SaveTypes' /\ SavesHonest'
  BY <1>1, <1>2, <1>4, SaveRemoved, SavesStayHonest
<1>6. MoveTypes' /\ CompletedMeansFilled'
  BY <1>1, <1>2, <1>4, MovesSame, MovesStayFilled
<1>7. BoardTypes'
  BY <1>1, <1>2, <1>4, EventCounted DEF Types, BoardTypes
<1>8. FetchCurrent' /\ BoardAtRest'
  BY <1>1, <1>2, <1>4, CacheStaysCurrent DEF CacheKept
<1> QED
  BY <1>5, <1>6, <1>7, <1>8 DEF Inv, Types

LEMMA SaveDoneKeeps ==
    ASSUME Inv, NEW i \in DOMAIN saves, SaveDone(i)
    PROVE  Inv'
<1> DEFINE s == saves[i]
<1>1. Types /\ FetchCurrent /\ BoardAtRest /\ SavesHonest /\ CompletedMeansFilled
  BY DEF Inv
<1>2. /\ UNCHANGED <<deals, foreign, prompt, plans, events>>
      /\ RequestMove(s.deal, s.to, s.listed, s.here) /\ (dialog' = None \/ dialog' = dialog)
  BY DEF SaveDone
<1>3. SaveTypes' /\ SavesKept /\ s.listed \cap deals[s.deal].missing = {} /\ s \in SaveOf
  BY <1>1, SaveThrough
<1> HIDE DEF s
<1>4. /\ MoveTypes' /\ moves' # <<>>
      /\ shown' \in [Deals -> Cards] /\ fetch' = NoFetch /\ failed' = FALSE
      /\ \A j \in DOMAIN moves' :
           \/ moves'[j].deal = s.deal /\ moves'[j].listed = s.listed
           \/ \E k \in DOMAIN moves :
                 moves'[j].deal = moves[k].deal /\ moves'[j].listed = moves[k].listed
  <2>1. /\ s.deal \in Deals /\ s.to \in Stages \ {WonStage} /\ s.listed \in SUBSET Fields
        /\ s.here \in BOOLEAN
    BY <1>3 DEF SaveOf
  <2>2. CASE s.here = TRUE
    <3>1. RequestMove(s.deal, s.to, s.listed, TRUE) /\ TRUE \in BOOLEAN
      BY <1>2, <2>2
    <3> QED
      BY <1>1, <2>1, <3>1, RequestedMove, Zenon
  <2>3. CASE s.here = FALSE
    <3>1. RequestMove(s.deal, s.to, s.listed, FALSE) /\ FALSE \in BOOLEAN
      BY <1>2, <2>3
    <3> QED
      BY <1>1, <2>1, <3>1, RequestedMove, Zenon
  <2> QED
    BY <2>1, <2>2, <2>3, Zenon
<1>5. SavesHonest'
  BY <1>1, <1>2, <1>3, DealsSame, SavesStayHonest
<1>6. BoardTypes'
  BY <1>1, <1>2, <1>4 DEF Types, BoardTypes
<1>7. CompletedMeansFilled'
  BY <1>1, <1>2, <1>3, <1>4 DEF CompletedMeansFilled
<1> QED
  BY <1>3, <1>4, <1>5, <1>6, <1>7, MovingSaysNothing DEF Inv, Types

LEMMA ServeFetchKeeps ==
    ASSUME Inv, ServeFetch
    PROVE  Inv'
<1>1. Types /\ FetchCurrent /\ BoardAtRest /\ SavesHonest /\ CompletedMeansFilled
  BY DEF Inv
<1>2. /\ UNCHANGED <<deals, shown, failed, moves, dialog, saves, prompt, plans, events>>
      /\ fetch' = [at |-> "read", cards |-> ApiBoard] /\ foreign' = {}
  BY DEF ServeFetch
<1>3. MoveTypes' /\ CompletedMeansFilled' /\ SaveTypes' /\ SavesHonest'
  BY <1>1, <1>2, MovesSame, SavesSame, DealsSame, MovesStayFilled, SavesStayHonest
<1>4. ApiBoard \in [Deals -> Cards] /\ ApiBoard' = ApiBoard
  BY <1>1, <1>2 DEF ApiBoard, Card, Cards, Types, BoardTypes
<1>5. fetch' \in ReadFetch /\ fetch'.cards = ApiBoard /\ fetch' # NoFetch
  BY <1>2, <1>4 DEF ReadFetch, NoFetch
<1>6. BoardTypes'
  BY <1>1, <1>2, <1>5 DEF Types, BoardTypes
<1>7. FetchCurrent' /\ BoardAtRest'
  BY <1>4, <1>5 DEF FetchCurrent, BoardAtRest
<1> QED
  BY <1>3, <1>6, <1>7 DEF Inv, Types

LEMMA DeliverKeeps ==
    ASSUME Inv, Deliver
    PROVE  Inv'
<1>1. Types /\ FetchCurrent /\ BoardAtRest /\ SavesHonest /\ CompletedMeansFilled
  BY DEF Inv
<1>2. /\ UNCHANGED <<deals, foreign, moves, dialog, saves, prompt, plans, events>>
      /\ fetch.at = "read" /\ shown' = fetch.cards /\ failed' = FALSE /\ fetch' = NoFetch
  BY DEF Deliver
<1>3. MoveTypes' /\ CompletedMeansFilled' /\ SaveTypes' /\ SavesHonest'
  BY <1>1, <1>2, MovesSame, SavesSame, DealsSame, MovesStayFilled, SavesStayHonest
<1>4. fetch \in ReadFetch
  BY <1>1, <1>2 DEF Types, BoardTypes, NoFetch, SentFetch
<1>5. BoardTypes'
  BY <1>1, <1>2, <1>4 DEF Types, BoardTypes, ReadFetch
<1>6. ApiBoard' = ApiBoard
  BY <1>2 DEF ApiBoard
<1>7. FetchCurrent' /\ BoardAtRest'
  BY <1>1, <1>2, <1>6 DEF FetchCurrent, BoardAtRest, ShowsApi, NoFetch
<1> QED
  BY <1>3, <1>5, <1>7 DEF Inv, Types

LEMMA FetchFailsKeeps ==
    ASSUME Inv, FetchFails
    PROVE  Inv'
<1>1. Types /\ FetchCurrent /\ BoardAtRest /\ SavesHonest /\ CompletedMeansFilled
  BY DEF Inv
<1>2. /\ UNCHANGED <<deals, shown, foreign, plans>> /\ Event
      /\ fetch' = NoFetch /\ failed' = TRUE /\ dialog' = None /\ prompt' = None
      /\ moves' = [i \in DOMAIN moves |-> [moves[i] EXCEPT !.heard = FALSE]]
      /\ saves' = [i \in DOMAIN saves |-> [saves[i] EXCEPT !.shown = FALSE, !.here = FALSE]]
  BY DEF FetchFails
<1>3. MoveTypes' /\ MovesKept
  BY <1>1, <1>2, MovesUnheard
<1>4. SaveTypes' /\ SavesKept
  BY <1>1, <1>2, SavesHidden, Zenon
<1>5. CompletedMeansFilled' /\ SavesHonest'
  BY <1>1, <1>2, <1>3, <1>4, DealsSame, MovesStayFilled, SavesStayHonest
<1>6. BoardTypes'
  BY <1>1, <1>2, EventCounted DEF Types, BoardTypes
<1>7. FetchCurrent' /\ BoardAtRest'
  BY <1>2 DEF FetchCurrent, BoardAtRest, NoFetch
<1> QED
  BY <1>3, <1>4, <1>5, <1>6, <1>7 DEF Inv, Types

LEMMA StutterKeeps ==
    ASSUME Inv, UNCHANGED vars
    PROVE  Inv'
<1>1. Types /\ FetchCurrent /\ BoardAtRest /\ SavesHonest /\ CompletedMeansFilled
  BY DEF Inv
<1>2. UNCHANGED <<deals, shown, fetch, failed, foreign, moves, dialog, saves, prompt, plans,
                  events>>
  BY DEF vars
<1>3. MoveTypes' /\ CompletedMeansFilled' /\ SaveTypes' /\ SavesHonest'
  BY <1>1, <1>2, MovesSame, SavesSame, DealsSame, MovesStayFilled, SavesStayHonest
<1>4. BoardTypes'
  BY <1>1, <1>2 DEF Types, BoardTypes
<1>5. FetchCurrent' /\ BoardAtRest'
  BY <1>1, <1>2, DealsSame, CacheStaysCurrent DEF CacheKept
<1> QED
  BY <1>3, <1>4, <1>5 DEF Inv, Types

-----------------------------------------------------------------------------
(* The board *)

LEMMA InitInv == Init => Inv
<1> SUFFICES ASSUME Init PROVE Inv
  OBVIOUS
<1>1. PICK missing \in SUBSET Fields :
         deals = [d \in Deals |-> [stage |-> FirstStage, open |-> TRUE, missing |-> missing]]
  BY DEF Init
<1>2. /\ shown = ApiBoard /\ fetch = NoFetch /\ failed = FALSE /\ foreign = {}
      /\ moves = <<>> /\ dialog = None /\ saves = <<>>
      /\ prompt = None /\ plans = {} /\ events = 0
  BY DEF Init
<1>3. /\ deals \in [Deals -> [stage : Stages, open : BOOLEAN, missing : SUBSET Fields]]
      /\ shown \in [Deals -> Cards] /\ 0 \in 0..MaxEvents
  BY <1>1, <1>2, BoardAssumption DEF ApiBoard, Card, Cards
<1>4. /\ moves \in Seq(Move) /\ DOMAIN moves = {}
      /\ saves \in Seq(SaveOf) /\ DOMAIN saves = {}
  BY <1>2
<1>5. Types
  BY <1>2, <1>3, <1>4 DEF Types, MoveTypes, SaveTypes, BoardTypes
<1>6. FetchCurrent /\ BoardAtRest
  BY <1>2 DEF FetchCurrent, BoardAtRest, ShowsApi, NoFetch
<1>7. SavesHonest /\ CompletedMeansFilled
  BY <1>4 DEF SavesHonest, CompletedMeansFilled
<1> QED
  BY <1>5, <1>6, <1>7 DEF Inv

\* Every step keeps the invariant.
LEMMA NextInv == Inv /\ [Next]_vars => Inv'
<1> SUFFICES ASSUME Inv, [Next]_vars PROVE Inv'
  OBVIOUS
<1>1. CASE UserStep
  BY <1>1, DragKeeps, SaveKeeps, CancelKeeps, PromptKeeps, RefetchKeeps DEF UserStep
<1>2. CASE OtherStep
  BY <1>2, OtherClosesKeeps, OtherFillsKeeps DEF OtherStep
<1>3. CASE Fault
  BY <1>3, LoseMoveKeeps, SaveEndsKeeps, FetchFailsKeeps DEF Fault
<1>4. CASE MoveStep
  BY <1>4, ServeMoveKeeps, AnswerMoveKeeps DEF MoveStep
<1>5. CASE SaveStep
  BY <1>5, SaveServedKeeps, SaveEndsKeeps, SaveDoneKeeps DEF SaveStep
<1>6. CASE FetchStep
  BY <1>6, ServeFetchKeeps, DeliverKeeps DEF FetchStep
<1>7. CASE \E d \in Deals : PlanAnswered(d)
  BY <1>7, RefetchKeeps
<1>8. CASE UNCHANGED vars
  BY <1>8, StutterKeeps
<1> QED
  BY <1>1, <1>2, <1>3, <1>4, <1>5, <1>6, <1>7, <1>8 DEF Next

\* The inductive invariant of the board: kanban-board.tsx, useMoveDeal and
\* missing-fields-dialog.tsx, with the API behind them, never leave it.
THEOREM BoardInv == Spec => []Inv
<1>1. Init => Inv
  BY InitInv
<1>2. Inv /\ [Next]_vars => Inv'
  BY NextInv
<1> QED
  BY <1>1, <1>2, PTL DEF Spec

\* The variables keep their types; a refusal of the gate that opens the dialog names a field,
\* and a save that is shown belongs to a board that is there.
THEOREM BoardTypeOK == Spec => []TypeOK
<1>1. Inv => TypeOK
  <2> SUFFICES ASSUME Inv PROVE TypeOK
    OBVIOUS
  <2>1. /\ \A i \in DOMAIN moves : moves[i] \in Move
        /\ \A i \in DOMAIN saves : saves[i] \in SaveOf
    BY ElementOfSeq, LenProperties DEF Inv, Types, MoveTypes, SaveTypes
  <2>2. \A i \in DOMAIN saves : saves[i].todo \in Seq(Fields) /\ (saves[i].shown => saves[i].here)
    BY <2>1 DEF Inv, Types, SaveTypes, SaveOf
  <2>3. dialog \in {None} \cup [deal : Deals, to : Stages, missing : (SUBSET Fields) \ {{}}]
    BY DEF Inv, Types, BoardTypes, Dialog
  <2> QED
    BY <2>1, <2>2, <2>3 DEF Inv, Types, BoardTypes, ReadFetch, Move, TypeOK
<1> QED
  BY <1>1, BoardInv, PTL

\* However many cards are dragged at once, and however their rollbacks, cancelled fetches and
\* late answers overlap, a board with nothing on its way shows every card where the API has it,
\* but for deals another user closed since it was read (onMutate, onError and onSettled of
\* useMoveDeal).
THEOREM RestShowsApi == Spec => []BoardAtRest
<1>1. Inv => BoardAtRest
  BY DEF Inv
<1> QED
  BY <1>1, BoardInv, PTL

\* However often a save is refused, lost, cancelled or overtaken by another, the dialog repeats
\* a move only when every field its refusal listed is filled (mutationFn and onSuccess of
\* missing-fields-dialog.tsx).
THEOREM CompletedFilled == Spec => []CompletedMeansFilled
<1>1. Inv => CompletedMeansFilled
  BY DEF Inv
<1> QED
  BY <1>1, BoardInv, PTL
=============================================================================
