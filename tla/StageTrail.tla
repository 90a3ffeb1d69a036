----------------------------- MODULE StageTrail ------------------------------
(***************************************************************************)
(* What deal_stage_history promises to the funnel and cohort reports: per  *)
(* deal, the stages it entered, each other than the one before it, in the  *)
(* order of their entry times; entries are added at the end and nothing    *)
(* that was recorded changes.                                              *)
(***************************************************************************)
EXTENDS Naturals, Sequences

CONSTANTS Deals, Stages, Times   \* Times: the clock readings, a set of naturals

VARIABLE trail      \* deal -> sequence of [stage, entered]

Init == trail = [d \in Deals |-> <<>>]

Follows(visited, s, t) ==
    LET last == visited[Len(visited)]
    IN visited # <<>> => last.stage # s /\ last.entered <= t

Enters(d, s, t) ==
    /\ Follows(trail[d], s, t)
    /\ trail' = [trail EXCEPT ![d] = Append(@, [stage |-> s, entered |-> t])]

Next == \E d \in Deals, s \in Stages, t \in Times : Enters(d, s, t)

Spec == Init /\ [][Next]_trail
=============================================================================
