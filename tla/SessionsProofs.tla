---------------------------- MODULE SessionsProofs ----------------------------
(***************************************************************************)
(* Proofs about Sessions, for any number of tabs, calls and events: the    *)
(* browser does not lose a session to the races of its tabs.               *)
(*                                                                         *)
(* JarAlive is not inductive: an answer that puts a token into the jar     *)
(* must bring one that is still live.  It is, because a token on its way   *)
(* back is known to nobody else: it is not in the jar, no request carries  *)
(* it, and no other answer brings it, so nothing can have used it.         *)
(***************************************************************************)
EXTENDS Sessions, TLAPS

Granted(t) == refresh[t].at = "granted"

InRange ==
    \A t \in Tabs : refresh[t].cookie \in 0..issued /\ refresh[t].got \in 0..issued

\* A token on its way back to a tab is a secret between the API and that answer.
GotIsSecret ==
    \A t \in Tabs : Granted(t) =>
        /\ refresh[t].got # 0 /\ refresh[t].got # jar
        /\ ended \/ refresh[t].got \in live
        /\ \A u \in Tabs : refresh[u].cookie # refresh[t].got
        /\ \A u \in Tabs \ {t} : Granted(u) => refresh[u].got # refresh[t].got

Inv == TypeOK /\ InRange /\ GotIsSecret /\ JarAlive /\ RefusalIsARace

-----------------------------------------------------------------------------
(* What the steps do to the refreshes *)

\* A tab that starts a refresh sends the cookie of the moment.
LEMMA JoinFacts ==
    ASSUME Inv, NEW t \in Tabs, JoinRefresh(t), jar' = jar, issued' = issued, live' = live,
           ended' = ended
    PROVE  /\ refresh' \in [Tabs -> Refreshes]
           /\ InRange' /\ GotIsSecret' /\ JarAlive' /\ RefusalIsARace'
<1> DEFINE joined == [at |-> "sent", cookie |-> jar, got |-> 0]
<1>1. CASE refresh' = refresh
  BY <1>1 DEF Inv, TypeOK, InRange, GotIsSecret, JarAlive, RefusalIsARace, Granted
<1>2. CASE refresh[t].at = "idle" /\ refresh' = [refresh EXCEPT ![t] = joined]
  <2>1. joined \in Refreshes /\ jar \in 0..issued /\ issued \in Nat
    BY DEF Inv, TypeOK, Refreshes
  <2>2. /\ refresh \in [Tabs -> Refreshes]
        /\ refresh' \in [Tabs -> Refreshes]
        /\ refresh'[t] = joined
        /\ \A u \in Tabs \ {t} : refresh'[u] = refresh[u]
    BY <1>2, <2>1 DEF Inv, TypeOK
  <2>3. InRange'
    BY <2>1, <2>2 DEF Inv, InRange
  <2>4. \A u \in Tabs : Granted(u)' <=> Granted(u)
    BY <1>2, <2>2 DEF Granted
  <2>5. GotIsSecret'
    BY <1>2, <2>2, <2>4 DEF Inv, GotIsSecret, Granted
  <2>6. JarAlive'
    BY <2>4 DEF Inv, JarAlive, Granted
  <2>7. RefusalIsARace'
    BY <1>2, <2>2, <2>4 DEF Inv, RefusalIsARace, Granted
  <2> QED
    BY <2>2, <2>3, <2>5, <2>6, <2>7
<1> QED
  BY <1>1, <1>2 DEF JoinRefresh

\* A tab whose refresh is over has none, and its cookie and its answer are nobody's concern.
LEMMA ForgottenFacts ==
    ASSUME Inv, NEW t \in Tabs, refresh' = [refresh EXCEPT ![t] = NoRefresh],
           issued' = issued, live' = live
    PROVE  /\ refresh' \in [Tabs -> Refreshes] /\ InRange'
           /\ refresh'[t] = NoRefresh
           /\ \A u \in Tabs \ {t} : refresh'[u] = refresh[u]
           /\ \A u \in Tabs : Granted(u)' <=> u # t /\ Granted(u)
<1>1. NoRefresh \in Refreshes /\ issued \in Nat /\ refresh \in [Tabs -> Refreshes]
  BY DEF NoRefresh, Refreshes, Inv, TypeOK
<1>2. /\ refresh' \in [Tabs -> Refreshes] /\ refresh'[t] = NoRefresh
      /\ \A u \in Tabs \ {t} : refresh'[u] = refresh[u]
  BY <1>1
<1>3. InRange'
  BY <1>1, <1>2 DEF Inv, InRange, NoRefresh
<1>4. \A u \in Tabs : Granted(u)' <=> u # t /\ Granted(u)
  BY <1>2 DEF Granted, NoRefresh
<1> QED
  BY <1>2, <1>3, <1>4

Races == refresh \in [Tabs -> Refreshes] /\ InRange /\ GotIsSecret /\ JarAlive /\ RefusalIsARace

LEMMA AnsweredKeepsRaces ==
    ASSUME Inv, NEW t \in Tabs, RefreshAnswered(t)
    PROVE  Races'
<1>1. /\ refresh' = [refresh EXCEPT ![t] = NoRefresh]
      /\ issued' = issued /\ live' = live
      /\ \/ Granted(t) /\ jar' = refresh[t].got /\ ended' = ended
         \/ Granted(t) /\ jar' \in {jar, refresh[t].got} /\ ended' = TRUE
         \/ ~Granted(t) /\ jar' = jar /\ ended' = ended
  BY DEF RefreshAnswered, Resume, Granted, server
<1>2. /\ refresh' \in [Tabs -> Refreshes] /\ InRange'
      /\ refresh'[t] = NoRefresh
      /\ \A u \in Tabs \ {t} : refresh'[u] = refresh[u]
      /\ \A u \in Tabs : Granted(u)' <=> u # t /\ Granted(u)
  BY <1>1, ForgottenFacts
<1>3. GotIsSecret'
  BY <1>1, <1>2 DEF Inv, GotIsSecret, Granted, NoRefresh
<1>4. JarAlive' /\ RefusalIsARace'
  BY <1>1, <1>2 DEF Inv, GotIsSecret, JarAlive, RefusalIsARace, Granted, NoRefresh
<1> QED
  BY <1>2, <1>3, <1>4 DEF Races

\* The steps of the API on one refresh.
LEMMA CheckedKeepsRaces ==
    ASSUME Inv, NEW t \in Tabs, RefreshChecked(t)
    PROVE  Races'
<1> DEFINE verdict == IF Usable(refresh[t].cookie) THEN "checked" ELSE "refused"
<1>1. /\ refresh[t].at = "sent"
      /\ refresh' = [refresh EXCEPT ![t].at = verdict]
      /\ jar' = jar /\ issued' = issued /\ live' = live /\ ended' = ended
  BY DEF RefreshChecked, server
<1>2. verdict \in {"checked", "refused"} /\ (verdict = "refused" => refresh[t].cookie \notin live)
  BY DEF Usable
<1>3. refresh \in [Tabs -> Refreshes]
  BY DEF Inv, TypeOK
<1> HIDE DEF verdict
<1>4. /\ refresh' \in [Tabs -> Refreshes]
      /\ refresh'[t].at = verdict
      /\ \A u \in Tabs : /\ refresh'[u].cookie = refresh[u].cookie
                         /\ refresh'[u].got = refresh[u].got
      /\ \A u \in Tabs \ {t} : refresh'[u] = refresh[u]
  BY <1>1, <1>2, <1>3 DEF Refreshes
<1>5. \A u \in Tabs : Granted(u)' <=> Granted(u)
  BY <1>1, <1>2, <1>4 DEF Granted
<1>6. InRange' /\ GotIsSecret' /\ JarAlive'
  BY <1>1, <1>4, <1>5 DEF Inv, InRange, GotIsSecret, JarAlive, Granted
<1>7. RefusalIsARace'
  BY <1>1, <1>2, <1>4, <1>5 DEF Inv, JarAlive, RefusalIsARace, Granted
<1> QED
  BY <1>4, <1>6, <1>7 DEF Races

LEMMA CommittedKeepsRaces ==
    ASSUME Inv, NEW t \in Tabs, RefreshCommitted(t)
    PROVE  Races'
<1>1. /\ refresh[t].at = "checked"
      /\ issued' = issued + 1
      /\ live' = (live \ {refresh[t].cookie}) \cup {issued'}
      /\ refresh' = [refresh EXCEPT ![t].at = "granted", ![t].got = issued']
      /\ jar' = jar /\ ended' = ended
  BY DEF RefreshCommitted, Rotate
<1>2. issued \in Nat /\ issued' \in Nat /\ jar \in 0..issued /\ refresh \in [Tabs -> Refreshes]
  BY <1>1 DEF Inv, TypeOK
<1>3. /\ refresh' \in [Tabs -> Refreshes]
      /\ refresh'[t].at = "granted" /\ refresh'[t].got = issued'
      /\ refresh'[t].cookie = refresh[t].cookie
      /\ \A u \in Tabs \ {t} : refresh'[u] = refresh[u]
  BY <1>1, <1>2 DEF Refreshes
<1>4. \A u \in Tabs : /\ refresh[u].cookie \in 0..issued /\ refresh[u].got \in 0..issued
                       /\ refresh[u].cookie # issued' /\ refresh[u].got # issued'
  BY <1>1, <1>2 DEF Inv, InRange
<1>5. \A u \in Tabs : Granted(u)' <=> u = t \/ Granted(u)
  BY <1>3 DEF Granted
<1>6. InRange'
  BY <1>1, <1>2, <1>3, <1>4 DEF InRange
<1>7. GotIsSecret'
  <2>1. \A u \in Tabs : refresh'[u].cookie = refresh[u].cookie
    BY <1>3
  <2>2. jar' # issued' /\ issued' # 0 /\ issued' \in live'
    BY <1>1, <1>2
  <2>3. \A u \in Tabs \ {t} : Granted(u) => ended \/ refresh[u].got \in live'
    BY <1>1 DEF Inv, GotIsSecret
  <2> QED
    BY <1>1, <1>3, <1>4, <1>5, <2>1, <2>2, <2>3 DEF Inv, GotIsSecret, Granted
<1>8. JarAlive' /\ RefusalIsARace'
  BY <1>1, <1>3, <1>5 DEF Inv, JarAlive, RefusalIsARace, Granted
<1> QED
  BY <1>3, <1>6, <1>7, <1>8 DEF Races

\* A login issues a token of its own; what the jar held before is forgotten.
LEMMA LoginKeepsRaces ==
    ASSUME Inv, NEW t \in Tabs, LoginAnswered(t)
    PROVE  Races'
<1>1. refresh' = refresh /\ ended' = ended
  BY DEF LoginAnswered
<1>2. issued \in Nat /\ refresh \in [Tabs -> Refreshes] /\ live \subseteq 1..issued
  BY DEF Inv, TypeOK
<1>3. CASE jar' = jar /\ issued' = issued /\ live' = live
  BY <1>1, <1>2, <1>3 DEF Inv, InRange, GotIsSecret, JarAlive, RefusalIsARace, Granted, Races
<1>4. CASE Rotate(0) /\ jar' = issued'
  <2>1. /\ issued' = issued + 1 /\ jar' = issued' /\ issued' \in live' /\ live \subseteq live'
    BY <1>2, <1>4 DEF Rotate
  <2>2. \A u \in Tabs : /\ refresh[u].cookie \in 0..issued' /\ refresh[u].got \in 0..issued'
                         /\ refresh[u].cookie # issued' /\ refresh[u].got # issued'
    BY <1>2, <2>1 DEF Inv, InRange
  <2>3. InRange'
    BY <1>1, <2>2 DEF InRange
  <2>4. GotIsSecret'
    BY <1>1, <2>1, <2>2 DEF Inv, GotIsSecret, Granted
  <2>5. JarAlive' /\ RefusalIsARace'
    BY <1>1, <2>1, <2>2 DEF JarAlive, RefusalIsARace
  <2> QED
    BY <1>1, <1>2, <2>3, <2>4, <2>5 DEF Races
<1> QED
  BY <1>3, <1>4 DEF LoginAnswered, server

\* Whoever ends the session excuses what follows.
LEMMA EndedKeepsRaces ==
    ASSUME Inv, ended' = TRUE, refresh' = refresh, issued' = issued, jar' \in {jar, 0}
    PROVE  Races'
BY DEF Inv, TypeOK, InRange, GotIsSecret, JarAlive, RefusalIsARace, Granted, Races

LEMMA UntouchedKeepsRaces ==
    ASSUME Inv, UNCHANGED <<jar, issued, live, ended, refresh>>
    PROVE  Races'
BY DEF Inv, TypeOK, InRange, GotIsSecret, JarAlive, RefusalIsARace, Granted, Races

LEMMA RacesStep == Inv /\ [Next]_vars => Races'
<1> SUFFICES ASSUME Inv, [Next]_vars PROVE Races'
  OBVIOUS
<1>1. CASE UNCHANGED vars
  BY <1>1, UntouchedKeepsRaces DEF vars, server
<1>2. ASSUME NEW t \in Tabs, Open(t) PROVE Races'
  BY <1>2, JoinFacts DEF Open, Races, server
<1>3. ASSUME NEW t \in Tabs, Login(t) \/ Expire(t) PROVE Races'
  BY <1>3, UntouchedKeepsRaces DEF Login, Expire, server
<1>4. ASSUME NEW t \in Tabs, Logout(t) PROVE Races'
  BY <1>4, UntouchedKeepsRaces DEF Logout, server
<1>5. ASSUME NEW t \in Tabs, TabStep(t) PROVE Races'
  <2>1. CASE LogoutAnswered(t)
    BY <2>1, EndedKeepsRaces DEF LogoutAnswered
  <2> QED
    BY <1>5, <2>1, CheckedKeepsRaces, CommittedKeepsRaces, AnsweredKeepsRaces, LoginKeepsRaces
       DEF TabStep
<1>6. ASSUME NEW c \in Calls, Call(c) PROVE Races'
  BY <1>6, UntouchedKeepsRaces DEF Call, server
<1>7. ASSUME NEW c \in Calls, CallServed(c) PROVE Races'
  <2>1. TabOf[c] \in Tabs
    BY SessionsAssumption
  <2>2. jar' = jar /\ issued' = issued /\ live' = live /\ ended' = ended
    BY <1>7 DEF CallServed, server
  <2>3. CASE refresh' = refresh
    BY <2>2, <2>3, UntouchedKeepsRaces
  <2>4. CASE JoinRefresh(TabOf[c])
    BY <2>1, <2>2, <2>4, JoinFacts DEF Races
  <2> QED
    BY <1>7, <2>3, <2>4 DEF CallServed
<1>8. CASE RevokeAll
  BY <1>8, EndedKeepsRaces DEF RevokeAll
<1> QED
  BY <1>1, <1>2, <1>3, <1>4, <1>5, <1>6, <1>7, <1>8 DEF Next

-----------------------------------------------------------------------------
(* Types *)

CallStates == [at : {"idle", "sent", "refreshing", "resent"}, kind : {"query", "me"},
               token : {"none", "valid", "expired"}]
Flows == {"closed", "restoring", "profile", "none", "login", "logout"}

\* A tab's part of the state, as a step may leave it.
TabTypes ==
    /\ token \in [Tabs -> {"none", "valid", "expired"}]
    /\ user \in [Tabs -> BOOLEAN]
    /\ flow \in [Tabs -> Flows]
    /\ calls \in [Calls -> CallStates]

LEMMA ServedTypes ==
    ASSUME Inv, NEW c \in Calls, CallServed(c)
    PROVE  TabTypes'
<1>1. TabOf[c] \in Tabs
  BY SessionsAssumption
<1>2. TabTypes /\ IdleCall \in CallStates
  BY DEF Inv, TypeOK, TabTypes, CallStates, Flows, IdleCall
<1>3. token' = token
  BY DEF CallServed
<1>4. ASSUME NEW ok \in BOOLEAN, EndCall(c, ok) PROVE TabTypes'
  <2>1. calls' = [calls EXCEPT ![c] = IdleCall]
    BY <1>4 DEF EndCall
  <2>2. user' \in [Tabs -> BOOLEAN]
    BY <1>1, <1>2, <1>4 DEF EndCall, TabTypes
  <2>3. flow' \in [Tabs -> Flows]
    BY <1>1, <1>2, <1>4 DEF EndCall, TabTypes, Flows
  <2> QED
    BY <1>2, <1>3, <2>1, <2>2, <2>3 DEF TabTypes
<1>5. CASE calls' = [calls EXCEPT ![c].at = "refreshing"] /\ user' = user /\ flow' = flow
  BY <1>2, <1>3, <1>5 DEF TabTypes, CallStates
<1> QED
  BY <1>4, <1>5 DEF CallServed

LEMMA AnsweredTypes ==
    ASSUME Inv, NEW t \in Tabs, RefreshAnswered(t)
    PROVE  TabTypes'
<1>1. TabTypes /\ IdleCall \in CallStates
  BY DEF Inv, TypeOK, TabTypes, CallStates, Flows, IdleCall
<1>2. PICK ok \in BOOLEAN : Resume(t, ok)
  BY DEF RefreshAnswered
<1>3. user' = user /\ token' = [token EXCEPT ![t] = IF ok THEN "valid" ELSE "none"]
  BY <1>2 DEF Resume
<1>4. PICK asks, failed \in BOOLEAN : flow' = [flow EXCEPT ![t] = FlowAfter(@, asks, failed)]
  BY <1>2 DEF Resume
<1>5. flow' \in [Tabs -> Flows]
  BY <1>1, <1>4 DEF TabTypes, Flows, FlowAfter
<1>6. \A c \in Calls : AfterRefresh(calls[c], ok) \in CallStates
  BY <1>1 DEF TabTypes, CallStates, AfterRefresh
<1> DEFINE waiting == {c \in CallsOf(t) : calls[c].at = "refreshing"}
           free == {c \in CallsOf(t) : calls[c].at = "idle"}
           me == IF ok /\ flow[t] = "restoring" THEN {CHOOSE c \in free : TRUE} ELSE {}
<1>7. calls' = [c \in Calls |->
              IF c \in me THEN [at |-> "sent", kind |-> "me", token |-> "valid"]
              ELSE IF c \in waiting THEN AfterRefresh(calls[c], ok) ELSE calls[c]]
  BY <1>2, Zenon DEF Resume
<1> HIDE DEF waiting, free, me
<1>8. [at |-> "sent", kind |-> "me", token |-> "valid"] \in CallStates
  BY DEF CallStates
<1>9. calls' \in [Calls -> CallStates]
  BY <1>1, <1>6, <1>7, <1>8 DEF TabTypes
<1> QED
  BY <1>1, <1>3, <1>5, <1>9 DEF TabTypes

LEMMA LoginTypes ==
    ASSUME Inv, NEW t \in Tabs, LoginAnswered(t)
    PROVE  TabTypes'
<1>1. TabTypes
  BY DEF Inv, TypeOK, TabTypes, CallStates, Flows
<1>2. user' = user /\ token' \in [Tabs -> {"none", "valid", "expired"}]
      /\ flow' \in [Tabs -> Flows]
  BY <1>1 DEF LoginAnswered, TabTypes, Flows
<1>3. calls' \in [Calls -> CallStates]
  <2>1. CASE calls' = calls
    BY <1>1, <2>1 DEF TabTypes
  <2>2. ASSUME NEW c \in CallsOf(t),
               calls' = [calls EXCEPT ![c] = [at |-> "sent", kind |-> "me", token |-> "valid"]]
        PROVE  calls' \in [Calls -> CallStates]
    BY <1>1, <2>2 DEF TabTypes, CallStates, CallsOf
  <2> QED
    BY <2>1, <2>2 DEF LoginAnswered
<1> QED
  BY <1>1, <1>2, <1>3 DEF TabTypes

LEMMA TabTypesStep == Inv /\ [Next]_vars => TabTypes'
<1> SUFFICES ASSUME Inv, [Next]_vars PROVE TabTypes'
  OBVIOUS
<1>0. TabTypes
  BY DEF Inv, TypeOK, TabTypes, CallStates, Flows
<1>1. CASE UNCHANGED vars
  BY <1>0, <1>1 DEF vars, TabTypes
<1>2. ASSUME NEW t \in Tabs, Open(t) \/ Login(t) \/ Logout(t) PROVE TabTypes'
  BY <1>0, <1>2 DEF Open, Login, Logout, TabTypes, Flows
<1>3. ASSUME NEW t \in Tabs, Expire(t) PROVE TabTypes'
  <2>1. \A c \in Calls : [calls[c] EXCEPT !.token = "expired"] \in CallStates
    BY <1>0 DEF TabTypes, CallStates
  <2>2. calls' \in [Calls -> CallStates]
    BY <1>0, <1>3, <2>1 DEF Expire, TabTypes
  <2> QED
    BY <1>0, <1>3, <2>2 DEF Expire, TabTypes
<1>4. ASSUME NEW t \in Tabs, TabStep(t) PROVE TabTypes'
  <2>1. CASE RefreshChecked(t) \/ RefreshCommitted(t)
    BY <1>0, <2>1 DEF RefreshChecked, RefreshCommitted, TabTypes
  <2>2. CASE LogoutAnswered(t)
    BY <1>0, <2>2 DEF LogoutAnswered, TabTypes, Flows
  <2> QED
    BY <1>4, <2>1, <2>2, AnsweredTypes, LoginTypes DEF TabStep
<1>5. ASSUME NEW c \in Calls, Call(c) PROVE TabTypes'
  <2>1. TabOf[c] \in Tabs
    BY SessionsAssumption
  <2>2. [at |-> "sent", kind |-> "query", token |-> token[TabOf[c]]] \in CallStates
    BY <1>0, <2>1 DEF TabTypes, CallStates
  <2> QED
    BY <1>0, <1>5, <2>2 DEF Call, Send, TabTypes
<1>6. ASSUME NEW c \in Calls, CallServed(c) PROVE TabTypes'
  BY <1>6, ServedTypes
<1>7. CASE RevokeAll
  BY <1>0, <1>7 DEF RevokeAll, TabTypes
<1> QED
  BY <1>1, <1>2, <1>3, <1>4, <1>5, <1>6, <1>7 DEF Next

\* The server's numbers stay in step with the jar.
ServerTypes == /\ jar \in 0..issued /\ issued \in Nat /\ live \subseteq 1..issued
               /\ events \in Nat

LEMMA RotateTypes ==
    ASSUME issued \in Nat, live \subseteq 1..issued, NEW used, Rotate(used)
    PROVE  /\ issued' \in Nat /\ live' \subseteq 1..issued'
           /\ issued' \in 0..issued' /\ 0..issued \subseteq 0..issued'
<1>1. issued' = issued + 1 /\ live' \subseteq live \cup {issued'}
  BY DEF Rotate
<1> QED
  BY <1>1

LEMMA ServerTypesStep == Inv /\ [Next]_vars => ServerTypes'
<1> SUFFICES ASSUME Inv, [Next]_vars PROVE ServerTypes'
  OBVIOUS
<1>0. ServerTypes
  BY DEF Inv, TypeOK, ServerTypes
<1>1. CASE UNCHANGED vars
  BY <1>0, <1>1 DEF vars, server, ServerTypes
<1>2. ASSUME NEW t \in Tabs, Open(t) \/ Login(t) \/ Logout(t) \/ Expire(t) PROVE ServerTypes'
  BY <1>0, <1>2 DEF Open, Login, Logout, Expire, Event, server, ServerTypes
<1>3. ASSUME NEW t \in Tabs, TabStep(t) PROVE ServerTypes'
  <2>1. CASE RefreshChecked(t)
    BY <1>0, <2>1 DEF RefreshChecked, server, ServerTypes
  <2>2. CASE RefreshCommitted(t)
    BY <1>0, <2>2, RotateTypes DEF RefreshCommitted, ServerTypes
  <2>3. CASE RefreshAnswered(t)
    <3>1. jar' \in {jar, refresh[t].got} /\ issued' = issued /\ live' = live /\ events' = events
      BY <2>3 DEF RefreshAnswered, server
    <3> QED
      BY <1>0, <3>1 DEF ServerTypes, Inv, InRange
  <2>4. CASE LoginAnswered(t)
    BY <1>0, <2>4, RotateTypes DEF LoginAnswered, server, ServerTypes
  <2>5. CASE LogoutAnswered(t)
    <3>1. /\ live' \subseteq live /\ jar' \in {0, jar}
          /\ issued' = issued /\ events' = events
      BY <2>5 DEF LogoutAnswered
    <3> QED
      BY <1>0, <3>1 DEF ServerTypes
  <2> QED
    BY <1>3, <2>1, <2>2, <2>3, <2>4, <2>5 DEF TabStep
<1>4. ASSUME NEW c \in Calls, Call(c) \/ CallServed(c) PROVE ServerTypes'
  <2>1. jar' = jar /\ issued' = issued /\ live' = live /\ events' \in {events, events + 1}
    BY <1>4 DEF Call, CallServed, Event, server
  <2> QED
    BY <1>0, <2>1 DEF ServerTypes
<1>5. CASE RevokeAll
  BY <1>0, <1>5 DEF RevokeAll, Event, ServerTypes
<1> QED
  BY <1>1, <1>2, <1>3, <1>4, <1>5 DEF Next

LEMMA EndedStep == Inv /\ [Next]_vars => ended' \in BOOLEAN
<1> SUFFICES ASSUME Inv, [Next]_vars PROVE ended' \in {ended, TRUE}
  BY DEF Inv, TypeOK
<1>1. CASE UNCHANGED vars
  BY <1>1 DEF vars
<1>2. ASSUME NEW t \in Tabs, Open(t) \/ Login(t) \/ Logout(t) \/ Expire(t)
      PROVE  ended' \in {ended, TRUE}
  BY <1>2 DEF Open, Login, Logout, Expire
<1>3. ASSUME NEW t \in Tabs, TabStep(t) PROVE ended' \in {ended, TRUE}
  BY <1>3 DEF TabStep, RefreshChecked, RefreshCommitted, RefreshAnswered, LoginAnswered,
              LogoutAnswered
<1>4. ASSUME NEW c \in Calls, Call(c) \/ CallServed(c) PROVE ended' \in {ended, TRUE}
  BY <1>4 DEF Call, CallServed
<1>5. CASE RevokeAll
  BY <1>5 DEF RevokeAll
<1> QED
  BY <1>1, <1>2, <1>3, <1>4, <1>5 DEF Next

-----------------------------------------------------------------------------
(* Theorems *)

\* The invariant holds at the start and is kept by every step: the API's rotation in two
\* parts, answers in any order or lost, logins, logouts and revocations.
THEOREM SessionsInv == Spec => []Inv
<1>1. Init => Inv
  <2> SUFFICES ASSUME Init PROVE Inv
    OBVIOUS
  <2>1. /\ refresh \in [Tabs -> Refreshes]
        /\ \A t \in Tabs : refresh[t] = NoRefresh
    BY DEF Init, NoRefresh, Refreshes
  <2>2. calls \in [Calls -> CallStates]
    BY DEF Init, IdleCall, CallStates
  <2>3. TypeOK
    <3>1. jar \in 0..issued /\ issued \in Nat /\ live \subseteq 1..issued /\ events \in Nat
      BY DEF Init
    <3>2. /\ token \in [Tabs -> {"none", "valid", "expired"}]
          /\ flow \in [Tabs -> {"closed", "restoring", "profile", "none", "login", "logout"}]
      BY DEF Init
    <3>3. ended \in BOOLEAN /\ user \in [Tabs -> BOOLEAN]
      BY DEF Init
    <3> QED
      BY <2>1, <2>2, <3>1, <3>2, <3>3 DEF TypeOK, CallStates
  <2>4. jar = 0 \/ jar \in live
    BY DEF Init
  <2>5. InRange /\ GotIsSecret /\ JarAlive /\ RefusalIsARace
    BY <2>1, <2>3, <2>4 DEF TypeOK, InRange, GotIsSecret, JarAlive, RefusalIsARace, Granted, NoRefresh
  <2> QED
    BY <2>3, <2>5 DEF Inv
<1>2. Inv /\ [Next]_vars => Inv'
  <2> SUFFICES ASSUME Inv, [Next]_vars PROVE Inv'
    OBVIOUS
  <2>1. Races' /\ TabTypes' /\ ServerTypes' /\ ended' \in BOOLEAN
    BY RacesStep, TabTypesStep, ServerTypesStep, EndedStep
  <2>2. TypeOK'
    BY <2>1 DEF Races, TabTypes, ServerTypes, CallStates, Flows, TypeOK
  <2> QED
    BY <2>1, <2>2 DEF Inv, Races
<1> QED
  BY <1>1, <1>2, PTL DEF Spec

\* Every reachable state is well typed.
THEOREM SessionsTypes == Spec => []TypeOK
<1>1. Inv => TypeOK
  BY DEF Inv
<1> QED
  BY <1>1, SessionsInv, PTL

\* Tabs that race with their refreshes do not lose the browser's session (client.ts:93-118
\* against services/auth.py:50-69), whatever the number of tabs.
THEOREM SessionSurvivesRaces == Spec => []JarAlive
<1>1. Inv => JarAlive
  BY DEF Inv
<1> QED
  BY <1>1, SessionsInv, PTL

\* A refresh that is refused lost a race, had no cookie or belongs to an ended session.
THEOREM RefusalsExplained == Spec => []RefusalIsARace
<1>1. Inv => RefusalIsARace
  BY DEF Inv
<1> QED
  BY <1>1, SessionsInv, PTL
=============================================================================
