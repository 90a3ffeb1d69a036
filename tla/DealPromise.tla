---------------------------- MODULE DealPromise ------------------------------
(***************************************************************************)
(* What the rules at the head of app/services/deals.py promise about the   *)
(* outcome of a deal, with no request, session or table in sight: an open  *)
(* deal moves among the stages; winning puts it in the won-stage; a won or *)
(* lost deal does not move or change its outcome, and only reopening       *)
(* brings it back; a deleted deal is gone.                                 *)
(***************************************************************************)
CONSTANTS Deals, Stages, FirstStage, WonStage, None

VARIABLES status,   \* deal -> "absent", "open", "won", "lost" or "deleted"
          stage     \* deal -> its stage

Set(d, st, sg) ==
    /\ status' = [status EXCEPT ![d] = st]
    /\ stage' = [stage EXCEPT ![d] = sg]

Init == /\ status = [d \in Deals |-> "absent"]
        /\ stage = [d \in Deals |-> None]

Born(d) == status[d] = "absent" /\ \E s \in (Stages \ {WonStage}) \cup {FirstStage} : Set(d, "open", s)
Moves(d) == status[d] = "open" /\ \E s \in Stages \ {WonStage} : Set(d, "open", s)
Wins(d) == status[d] = "open" /\ Set(d, "won", WonStage)
Loses(d) == status[d] = "open" /\ Set(d, "lost", stage[d])
Reopens(d) == status[d] \in {"won", "lost"} /\ Set(d, "open", stage[d])
Goes(d) == status[d] \in {"open", "won", "lost"} /\ Set(d, "deleted", stage[d])

Next == \E d \in Deals : Born(d) \/ Moves(d) \/ Wins(d) \/ Loses(d) \/ Reopens(d) \/ Goes(d)

Spec == Init /\ [][Next]_<<status, stage>>
=============================================================================
