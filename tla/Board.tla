-------------------------------- MODULE Board --------------------------------
(***************************************************************************)
(* The kanban board of the browser application: cards dragged between      *)
(* stages (kanban-board.tsx), the optimistic move with its rollback        *)
(* (useMoveDeal), the dialog that fills the fields a gated stage requires  *)
(* and then repeats the move (missing-fields-dialog.tsx), and the prompt   *)
(* for the next contact after a move.                                      *)
(*                                                                         *)
(* Unlike Tab, which follows one cache entry through the application, this *)
(* module follows the values: what the board shows, and what the API holds.*)
(* One board query is mounted.  A required field is named by the request   *)
(* that fills it.  The API is services/deals.py, one request at a time.    *)
(***************************************************************************)
EXTENDS Naturals, Sequences, SequencesExt

CONSTANTS
    Deals,
    Stages,
    WonStage,
    FirstStage,
    Required,    \* stage -> the fields it requires
    None,
    MaxEvents    \* bound: drags, saves, changes by other users, lost answers

Fields == {"contact", "first", "deal"}

ASSUME BoardAssumption ==
    /\ {WonStage, FirstStage} \subseteq Stages /\ WonStage # FirstStage
    /\ Required \in [Stages -> SUBSET Fields]
    /\ None \notin Deals
    /\ MaxEvents \in Nat

VARIABLES
    deals,      \* the API's deals: [stage, open, missing]
    shown,      \* the cached board: deal -> its card
    fetch,      \* the board's fetch: [at, cards]
    failed,     \* the last fetch failed: an error page stands for the board
    foreign,    \* deals another user closed since the API last read the board
    moves,      \* moves in flight
    dialog,     \* the missing-fields dialog: [deal, to, missing], or None
    saves,      \* its saves in flight
    prompt,     \* the deal whose next contact is asked for, or None
    plans,      \* deals whose next contact is being saved
    events

vars == <<deals, shown, fetch, failed, foreign, moves, dialog, saves, prompt, plans, events>>

Event == events < MaxEvents /\ events' = events + 1

NoFetch == [at |-> "none", cards |-> <<>>]
SentFetch == [at |-> "sent", cards |-> <<>>]

Card(deal) == [stage |-> deal.stage, open |-> deal.open]
ApiBoard == [d \in Deals |-> Card(deals[d])]

-----------------------------------------------------------------------------
(* useMoveDeal *)

\* onMutate cancels the board's fetch and writes the moved card into the cache.  Only the newest
\* move keeps the callbacks the board passed with it, and none does when the board is gone.
RequestMove(d, to, listed, here) ==
    /\ moves' = Append([i \in DOMAIN moves |->
                           [moves[i] EXCEPT !.heard = @ /\ ~here]],
                       [deal |-> d, to |-> to, listed |-> listed, heard |-> here,
                        answer |-> "none", missing |-> {}, snapshot |-> shown])
    /\ shown' = [shown EXCEPT ![d].stage = to]
    /\ fetch' = NoFetch
    /\ failed' = FALSE

\* handleDragEnd.  A drop on the won stage is a toast, and a dialog covers the board.
Drag(d, to) ==
    /\ Event
    /\ ~failed /\ dialog = None /\ prompt = None
    /\ shown[d].open /\ shown[d].stage # to /\ to # WonStage
    /\ RequestMove(d, to, {}, TRUE)
    /\ UNCHANGED <<deals, foreign, dialog, saves, prompt, plans>>

\* move_stage: open deals only; the gate is tested when another stage is entered.
ServeMove(i) ==
    LET d == moves[i].deal
        to == moves[i].to
        lacking == Required[to] \cap deals[d].missing
        Answers(a) == moves' = [moves EXCEPT ![i].answer = a, ![i].missing =
                                                 IF a = "gate" THEN lacking ELSE {}]
    IN
    /\ moves[i].answer = "none"
    /\ \/ ~deals[d].open /\ Answers("refused") /\ UNCHANGED deals
       \/ deals[d].open /\ deals[d].stage = to /\ Answers("ok") /\ UNCHANGED deals
       \/ /\ deals[d].open /\ deals[d].stage # to /\ lacking # {}
          /\ Answers("gate") /\ UNCHANGED deals
       \/ /\ deals[d].open /\ deals[d].stage # to /\ lacking = {}
          /\ deals' = [deals EXCEPT ![d].stage = to]
          /\ Answers("ok")
    /\ UNCHANGED <<shown, fetch, failed, foreign, dialog, saves, prompt, plans, events>>

\* The request or its answer is lost: a network error.
LoseMove(i) ==
    /\ Event
    /\ moves[i].answer \in {"none", "ok"}
    /\ moves' = [moves EXCEPT ![i].answer = "lost"]
    /\ UNCHANGED <<deals, shown, fetch, failed, foreign, dialog, saves, prompt, plans>>

\* onError puts the snapshot back; onSettled refetches the board either way.
Rollback(m) ==
    IF m.answer = "ok" THEN UNCHANGED <<shown, failed>>
    ELSE shown' = m.snapshot /\ failed' = FALSE

\* Mutants: a fetch on its way is taken to be enough; only onSuccess refetches.
SettleOnce == fetch' = IF fetch = NoFetch THEN SentFetch ELSE fetch
NotSettled == UNCHANGED fetch

Settle == fetch' = SentFetch

\* Mutant: every error is taken for the gate's.
AnyErrorGates(m) == m.answer # "ok"

isStageGateError(m) == m.answer = "gate"

\* The callbacks of requestMove.
AnswerMove(i) ==
    LET m == moves[i] IN
    /\ m.answer # "none"
    /\ Rollback(m) /\ Settle
    /\ moves' = RemoveAt(moves, i)
    /\ dialog' = IF m.heard /\ isStageGateError(m)
                 THEN [deal |-> m.deal, to |-> m.to, missing |-> m.missing] ELSE dialog
    /\ prompt' = IF m.heard /\ m.answer = "ok" THEN m.deal ELSE prompt
    /\ UNCHANGED <<deals, foreign, saves, plans, events>>

-----------------------------------------------------------------------------
(* MissingFieldsDialog *)

Detached(s) == [s EXCEPT !.shown = FALSE]

\* A listed field is a request of its own.
Asked(field, listed) == IF field \in listed THEN <<field>> ELSE <<>>

\* Mutant: the flag of the first contact is forgotten.
RequestsOfPatches(listed) == Asked("contact", listed) \o Asked("deal", listed)

\* The requests of one save, in the order the code awaits them.
Requests(listed) == Asked("contact", listed) \o Asked("first", listed) \o Asked("deal", listed)

Save ==
    /\ Event
    /\ dialog # None /\ ~\E i \in DOMAIN saves : saves[i].shown
    /\ saves' = Append(saves, [deal |-> dialog.deal, to |-> dialog.to, listed |-> dialog.missing,
                               todo |-> Requests(dialog.missing), shown |-> TRUE, here |-> TRUE])
    /\ UNCHANGED <<deals, shown, fetch, failed, foreign, moves, dialog, prompt, plans>>

\* Cancelling closes the dialog; a save already started goes on.
Cancel ==
    /\ dialog # None /\ dialog' = None
    /\ saves' = [i \in DOMAIN saves |-> Detached(saves[i])]
    /\ UNCHANGED <<deals, shown, fetch, failed, foreign, moves, prompt, plans, events>>

\* The first contact is registered once; the other requests write their field whatever it held.
Accepts(d, field) == field = "first" => "first" \in deals[d].missing

SaveServed(i) ==
    LET d == saves[i].deal
        field == Head(saves[i].todo)
    IN
    /\ saves[i].todo # <<>> /\ Accepts(d, field)
    /\ deals' = [deals EXCEPT ![d].missing = @ \ {field}]
    /\ saves' = [saves EXCEPT ![i].todo = Tail(@)]
    /\ UNCHANGED <<shown, fetch, failed, foreign, moves, dialog, prompt, plans, events>>

\* A refused request ends the save with a toast; what was saved before stays saved.
SaveRefused(i) ==
    /\ saves[i].todo # <<>> /\ ~Accepts(saves[i].deal, Head(saves[i].todo))
    /\ saves' = RemoveAt(saves, i)
    /\ UNCHANGED <<deals, shown, fetch, failed, foreign, moves, dialog, prompt, plans, events>>

\* So does an answer that is lost, the request served or not.
SaveLost(i) ==
    /\ Event
    /\ saves[i].todo # <<>>
    /\ saves' = RemoveAt(saves, i)
    /\ deals' \in {deals} \cup
          (IF Accepts(saves[i].deal, Head(saves[i].todo))
           THEN {[deals EXCEPT ![saves[i].deal].missing = @ \ {Head(saves[i].todo)}]} ELSE {})
    /\ UNCHANGED <<shown, fetch, failed, foreign, moves, dialog, prompt, plans>>

\* onSuccess, and the board's onCompleted: it closes the dialog that is open, its own or a later
\* one, and repeats the move.
SaveDone(i) ==
    LET s == saves[i] IN
    /\ s.todo = <<>>
    /\ RequestMove(s.deal, s.to, s.listed, s.here)
    /\ dialog' = IF s.here THEN None ELSE dialog
    /\ saves' = [j \in DOMAIN RemoveAt(saves, i) |->
                    IF s.here THEN Detached(RemoveAt(saves, i)[j]) ELSE RemoveAt(saves, i)[j]]
    /\ UNCHANGED <<deals, foreign, prompt, plans, events>>

-----------------------------------------------------------------------------
(* NextContactPrompt *)

Skip ==
    /\ prompt # None /\ prompt' = None
    /\ UNCHANGED <<deals, shown, fetch, failed, foreign, moves, dialog, saves, plans, events>>

Choose ==
    /\ prompt # None /\ prompt' = None
    /\ plans' = plans \cup {prompt}
    /\ UNCHANGED <<deals, shown, fetch, failed, foreign, moves, dialog, saves, events>>

PlanAnswered(d) ==
    /\ d \in plans /\ plans' = plans \ {d}
    /\ fetch' \in {SentFetch, fetch}      \* success refetches the board, an error does not
    /\ UNCHANGED <<deals, shown, failed, foreign, moves, dialog, saves, prompt, events>>

-----------------------------------------------------------------------------
(* The board's fetch *)

ServeFetch ==
    /\ fetch.at = "sent"
    /\ fetch' = [at |-> "read", cards |-> ApiBoard]
    /\ foreign' = {}
    /\ UNCHANGED <<deals, shown, failed, moves, dialog, saves, prompt, plans, events>>

Deliver ==
    /\ fetch.at = "read"
    /\ shown' = fetch.cards /\ failed' = FALSE /\ fetch' = NoFetch
    /\ UNCHANGED <<deals, foreign, moves, dialog, saves, prompt, plans, events>>

\* The page shows an error in place of the board, whose dialogs and callbacks go with it.
FetchFails ==
    /\ Event
    /\ fetch # NoFetch /\ fetch' = NoFetch
    /\ failed' = TRUE /\ dialog' = None /\ prompt' = None
    /\ moves' = [i \in DOMAIN moves |-> [moves[i] EXCEPT !.heard = FALSE]]
    /\ saves' = [i \in DOMAIN saves |-> [saves[i] EXCEPT !.shown = FALSE, !.here = FALSE]]
    /\ UNCHANGED <<deals, shown, foreign, plans>>

\* The button of the error page.
Reload ==
    /\ failed /\ fetch = NoFetch
    /\ fetch' = SentFetch
    /\ UNCHANGED <<deals, shown, failed, foreign, moves, dialog, saves, prompt, plans, events>>

-----------------------------------------------------------------------------
(* Other users *)

OtherFills(d, field) ==
    /\ Event
    /\ field \in deals[d].missing
    /\ deals' = [deals EXCEPT ![d].missing = @ \ {field}]
    /\ UNCHANGED <<shown, fetch, failed, foreign, moves, dialog, saves, prompt, plans>>

OtherCloses(d) ==
    /\ Event
    /\ deals[d].open
    /\ deals' = [deals EXCEPT ![d].open = FALSE]
    /\ foreign' = foreign \cup {d}
    /\ UNCHANGED <<shown, fetch, failed, moves, dialog, saves, prompt, plans>>

-----------------------------------------------------------------------------
(* Specification *)

Init ==
    /\ \E missing \in SUBSET Fields :
          deals = [d \in Deals |-> [stage |-> FirstStage, open |-> TRUE, missing |-> missing]]
    /\ shown = ApiBoard
    /\ fetch = NoFetch /\ failed = FALSE /\ foreign = {}
    /\ moves = <<>> /\ dialog = None /\ saves = <<>>
    /\ prompt = None /\ plans = {} /\ events = 0

MoveStep == \E i \in DOMAIN moves : ServeMove(i) \/ AnswerMove(i)
SaveStep == \E i \in DOMAIN saves : SaveServed(i) \/ SaveRefused(i) \/ SaveDone(i)
FetchStep == ServeFetch \/ Deliver

UserStep ==
    \/ \E d \in Deals, s \in Stages : Drag(d, s)
    \/ Save \/ Cancel \/ Skip \/ Choose \/ Reload

OtherStep == \E d \in Deals : OtherCloses(d) \/ \E f \in Fields : OtherFills(d, f)

Fault ==
    \/ \E i \in DOMAIN moves : LoseMove(i)
    \/ \E i \in DOMAIN saves : SaveLost(i)
    \/ FetchFails

Next ==
    \/ UserStep \/ OtherStep \/ Fault
    \/ MoveStep \/ SaveStep \/ FetchStep
    \/ \E d \in Deals : PlanAnswered(d)

Spec == Init /\ [][Next]_vars

\* Requests and fetches settle; users owe nothing.
Fairness ==
    /\ WF_vars(MoveStep) /\ WF_vars(SaveStep) /\ WF_vars(FetchStep)
    /\ \A d \in Deals : WF_vars(PlanAnswered(d))

FairSpec == Spec /\ Fairness

-----------------------------------------------------------------------------
(* Properties *)

Cards == [stage : Stages, open : BOOLEAN]

TypeOK ==
    /\ deals \in [Deals -> [stage : Stages, open : BOOLEAN, missing : SUBSET Fields]]
    /\ shown \in [Deals -> Cards]
    /\ fetch \in {NoFetch, SentFetch} \cup [at : {"read"}, cards : [Deals -> Cards]]
    /\ failed \in BOOLEAN /\ foreign \subseteq Deals
    /\ \A i \in DOMAIN moves :
          moves[i] \in [deal : Deals, to : Stages \ {WonStage}, listed : SUBSET Fields,
                        heard : BOOLEAN, answer : {"none", "ok", "gate", "refused", "lost"},
                        missing : SUBSET Fields, snapshot : [Deals -> Cards]]
    /\ dialog \in {None} \cup [deal : Deals, to : Stages, missing : (SUBSET Fields) \ {{}}]
    /\ \A i \in DOMAIN saves : saves[i].todo \in Seq(Fields) /\ (saves[i].shown => saves[i].here)
    /\ prompt \in Deals \cup {None} /\ plans \subseteq Deals /\ events \in 0..MaxEvents

ShowsApi == \A d \in Deals \ foreign : shown[d] = ApiBoard[d]

\* However drags, rollbacks to old snapshots, cancelled fetches and late answers overlap, the
\* board that has nothing on its way shows every card where the API has it, but for deals another
\* user closed since it was read.
BoardAtRest == moves = <<>> /\ fetch = NoFetch /\ ~failed => ShowsApi

\* A move is only repeated by the dialog when every field the refusal listed is filled, although
\* a save is several requests, each of which may fail, and may have been cancelled meanwhile.
CompletedMeansFilled ==
    \A i \in DOMAIN moves : moves[i].listed \cap deals[moves[i].deal].missing = {}

\* A board that is left alone gets to rest: the optimistic card does not stay.
Converges == <>[](failed \/ ShowsApi)
=============================================================================
