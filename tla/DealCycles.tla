----------------------------- MODULE DealCycles ------------------------------
(***************************************************************************)
(* Sales cycles and win-back: activation of a cycle, rollover of the open  *)
(* deals of an older one, and the rescue of a lost deal into the active    *)
(* cycle (app/services/cycles.py, app/api/cycles.py, reopen_in_cycle of    *)
(* app/services/deals.py).  Each of them reads more than once before it    *)
(* writes, so each takes two steps.                                        *)
(***************************************************************************)
EXTENDS DealContact

CONSTANT CarriedKeys    \* enrollment keys a rescue copies

ASSUME CarriedAssumption == CarriedKeys \subseteq Keys

\* POST /cycles/{id}/activate of an inactive cycle: UPDATE ... WHERE is_active
\* acts on the rows that its statement saw active.
StartActivate(w) ==
    /\ tx[w].phase = "begun"
    /\ \E c \in Cycles :
          /\ ~IsActive(c)
          /\ tx' = [tx EXCEPT ![w].phase = "activating", ![w].cycle = c,
                              ![w].cycleSet = {a \in Cycles : IsActive(a)}]
    /\ UNCHANGED <<tables, clock>>

\* Mutant: no partial unique index.
AnyActive(cs) == TRUE

\* The partial unique index admits at most one active row.
SingleActive(cs) == \A a, b \in Cycles : cs[a] = "active" /\ cs[b] = "active" => a = b

FinishActivate(w) ==
    LET after == [c \in Cycles |-> IF c = tx[w].cycle THEN "active"
                                   ELSE IF c \in tx[w].cycleSet THEN "inactive"
                                   ELSE cycles[c]]
    IN /\ tx[w].phase = "activating"
       /\ SingleActive(after)
       /\ cycles' = after
       /\ Finish(w)
       /\ UNCHANGED <<deals, history, tasks, rescues>>

\* Mutant: rollover takes the closed deals of the cycle too.
DealsOf(c) == {d \in Deals : deals[d].cycle = c /\ ~deals[d].deleted}

\* The deals that rollover selects in cycle c.
OpenDealsOf(c) ==
    {d \in Deals : deals[d].cycle = c /\ deals[d].status = "open" /\ ~deals[d].deleted}

\* POST /cycles/{id}/rollover: active cycle and open deals are read...
StartRollover(w) ==
    /\ tx[w].phase = "begun"
    /\ \E a, c \in Cycles :
          /\ IsActive(a) /\ a # c
          /\ tx' = [tx EXCEPT ![w].phase = "rolling", ![w].cycle = a,
                              ![w].dealSet = OpenDealsOf(c)]
    /\ UNCHANGED <<tables, clock>>

\* ... and every deal read is moved, with an activity each.
FinishRollover(w) ==
    /\ tx[w].phase = "rolling"
    /\ \A d \in tx[w].dealSet : ~LockedByOther(w, d)
    /\ deals' = [d \in Deals |->
                   IF d \in tx[w].dealSet
                   THEN Touch([deals[d] EXCEPT !.cycle = tx[w].cycle], tx[w].start)
                   ELSE deals[d]]
    /\ Finish(w)
    /\ UNCHANGED <<history, tasks, cycles, rescues>>

\* Mutant: no look for the receipt of an earlier rescue.
StartRescueAgain(w) ==
    /\ MayEdit(w)
    /\ tx[w].row.status = "lost"
    /\ \E a \in Cycles :
          /\ IsActive(a)
          /\ tx' = [tx EXCEPT ![w].phase = "rescuing", ![w].cycle = a]
    /\ UNCHANGED <<tables, clock>>

\* POST /reopen-in-cycle: the loaded deal is lost, no rescue receipt is found
\* and a cycle is active...
StartRescue(w) ==
    /\ MayEdit(w)
    /\ tx[w].row.status = "lost"
    /\ rescues[tx[w].deal] = {}
    /\ \E a \in Cycles :
          /\ IsActive(a)
          /\ tx' = [tx EXCEPT ![w].phase = "rescuing", ![w].cycle = a]
    /\ UNCHANGED <<tables, clock>>

\* ... so a new deal is born in it, and the receipt is logged on the old one.
FinishRescue(w) ==
    LET old == tx[w].deal
        t == tx[w].start
    IN /\ tx[w].phase = "rescuing"
       /\ ~LockedByOther(w, old)
       /\ \E d \in Deals :
             LET new == NewDeal(FirstStage, tx[w].user, tx[w].cycle,
                                tx[w].row.enrollment \cap CarriedKeys)
             IN /\ ~Exists(d)
                /\ deals' = [deals EXCEPT ![d] = [new EXCEPT !.lastActivity = t],
                                          ![old] = Touch(@, t)]
                /\ history' = [history EXCEPT ![d] = RecordEntry(<<>>, FirstStage, t)]
                /\ rescues' = [rescues EXCEPT ![old] = @ \cup {d}]
       /\ Finish(w)
       /\ UNCHANGED <<tasks, cycles>>

CyclesStep(w) ==
    \/ "activate" \in Traffic /\ StartActivate(w)
    \/ FinishActivate(w)
    \/ "rollover" \in Traffic /\ StartRollover(w)
    \/ FinishRollover(w)
    \/ "rescue" \in Traffic /\ StartRescue(w)
    \/ FinishRescue(w)
=============================================================================
