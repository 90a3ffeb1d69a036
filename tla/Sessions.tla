------------------------------ MODULE Sessions ------------------------------
(***************************************************************************)
(* The web session of several tabs of one browser.  A tab keeps its access *)
(* token in memory (token.ts) and refreshes it with the cookie all tabs    *)
(* share (client.ts); the API makes a refresh token single-use (auth.py).  *)
(* The provider restores, opens and closes the session (auth-provider.tsx).*)
(*                                                                         *)
(* Refresh tokens are numbered as they are issued; the jar holds one of    *)
(* them, or 0.  What a call asks for and its answer are left out, and so   *)
(* are the rate limiter and the expiry of refresh tokens (a revocation     *)
(* from outside stands for it).                                            *)
(***************************************************************************)
EXTENDS Naturals, FiniteSets

CONSTANTS
    Tabs,
    Calls,      \* api() calls under way at the same time
    TabOf,      \* call -> its tab
    MaxEvents   \* bound: what users, the clock and administrators do in a behaviour

ASSUME SessionsAssumption ==
    /\ TabOf \in [Calls -> Tabs]
    /\ MaxEvents \in Nat

VARIABLES
    jar,        \* the refresh cookie of the browser, 0 when there is none
    issued,     \* refresh tokens issued so far
    live,       \* those neither used nor revoked
    ended,      \* history: a logout, a revocation or a lost answer has happened
    token,      \* tab -> its access token: "none", "valid" or "expired"
    user,       \* tab -> a user is set
    flow,       \* tab -> what its provider is doing
    refresh,    \* tab -> its refreshPromise
    calls,      \* call -> its progress in api()
    events

server == <<issued, live>>
vars == <<jar, issued, live, ended, token, user, flow, refresh, calls, events>>

Event == events < MaxEvents /\ events' = events + 1

CallsOf(t) == {c \in Calls : TabOf[c] = t}
IdleCall == [at |-> "idle", kind |-> "query", token |-> "none"]
NoRefresh == [at |-> "idle", cookie |-> 0, got |-> 0]

-----------------------------------------------------------------------------
(* client.ts *)

\* rawRequest: the request carries the token of this moment.
Send(cs, kind) == [calls EXCEPT ![cs] = [at |-> "sent", kind |-> kind, token |-> token[TabOf[cs]]]]

\* tryRefresh: one promise per tab; a caller that finds one waits for it.
JoinRefresh(t) ==
    refresh' = IF refresh[t].at = "idle"
               THEN [refresh EXCEPT ![t] = [at |-> "sent", cookie |-> jar, got |-> 0]]
               ELSE refresh

\* The profile request of a restore or a login ends the flow, and sets the user if it is answered.
EndCall(c, ok) ==
    LET t == TabOf[c] IN
    /\ calls' = [calls EXCEPT ![c] = IdleCall]
    /\ user' = [user EXCEPT ![t] = @ \/ (ok /\ calls[c].kind = "me")]
    /\ flow' = [flow EXCEPT ![t] = IF calls[c].kind = "me" THEN "none" ELSE @]

Call(c) ==
    /\ Event /\ user[TabOf[c]] /\ calls[c].at = "idle"
    /\ calls' = Send(c, "query")
    /\ UNCHANGED <<jar, server, ended, token, user, flow, refresh>>

\* A 401 joins the refresh the first time and is an error the second time.
CallServed(c) ==
    /\ calls[c].at \in {"sent", "resent"}
    /\ \/ calls[c].token = "valid" /\ EndCall(c, TRUE) /\ UNCHANGED refresh
       \/ EndCall(c, FALSE) /\ UNCHANGED refresh
       \/ /\ calls[c].token # "valid" /\ calls[c].at = "sent"
          /\ calls' = [calls EXCEPT ![c].at = "refreshing"]
          /\ JoinRefresh(TabOf[c])
          /\ UNCHANGED <<user, flow>>
    /\ UNCHANGED <<jar, server, ended, token, events>>

\* Mutants: when the refresh fails, those who wait are forgotten; so is the restore.
StillWaiting(call, ok) == IF ok THEN [call EXCEPT !.at = "resent", !.token = "valid"] ELSE call
StillRestoring(at, asks, failedMe) == IF asks THEN "profile" ELSE IF failedMe THEN "none" ELSE at

\* A call that waited is sent again with the new token, or is an error.
AfterRefresh(call, ok) ==
    IF ok THEN [call EXCEPT !.at = "resent", !.token = "valid"] ELSE IdleCall

\* A restore goes on to the profile or is over; so is a login whose profile request waited.
FlowAfter(at, asks, failedMe) ==
    IF asks THEN "profile" ELSE IF at = "restoring" \/ failedMe THEN "none" ELSE at

\* The refresh of tab t is over: waiting calls go on, and a restore asks for the profile.
Resume(t, ok) ==
    LET waiting == {c \in CallsOf(t) : calls[c].at = "refreshing"}
        failedMe == ~ok /\ \E c \in waiting : calls[c].kind = "me"
        free == {c \in CallsOf(t) : calls[c].at = "idle"}
        me == IF ok /\ flow[t] = "restoring" THEN {CHOOSE c \in free : TRUE} ELSE {}
    IN  /\ refresh' = [refresh EXCEPT ![t] = NoRefresh]
        /\ token' = [token EXCEPT ![t] = IF ok THEN "valid" ELSE "none"]
        /\ calls' = [c \in Calls |->
              IF c \in me THEN [at |-> "sent", kind |-> "me", token |-> "valid"]
              ELSE IF c \in waiting THEN AfterRefresh(calls[c], ok) ELSE calls[c]]
        /\ flow' = [flow EXCEPT ![t] = FlowAfter(@, me # {}, failedMe)]
        /\ UNCHANGED user

\* Set-Cookie takes effect with the answer.  An answer lost on its way is an error to the tab,
\* which does not tell whether the cookie came.
RefreshAnswered(t) ==
    /\ \/ /\ refresh[t].at = "granted"
          /\ jar' = refresh[t].got
          /\ Resume(t, TRUE) /\ UNCHANGED ended
       \/ /\ refresh[t].at = "granted"
          /\ jar' \in {jar, refresh[t].got}
          /\ ended' = TRUE
          /\ Resume(t, FALSE)
       \/ /\ refresh[t].at = "refused"
          /\ Resume(t, FALSE) /\ UNCHANGED <<jar, ended>>
    /\ UNCHANGED <<server, events>>

-----------------------------------------------------------------------------
(* services/auth.py: rotation, in two steps because two requests may overlap *)

\* Mutants: only the token issued last is accepted; a rotation revokes all others; a
\* token is numbered before it is inserted.
UsableIfLast(cookie) == cookie = issued /\ cookie # 0
RotateAll(used) == issued' = issued + 1 /\ live' = {issued'}
RotateEarly(used) == issued' = issued + 1 /\ live' = (live \ {used}) \cup {issued' + 1}

Usable(cookie) == cookie \in live

\* _issue_tokens, after the token used is revoked.
Rotate(used) == issued' = issued + 1 /\ live' = (live \ {used}) \cup {issued'}

RefreshChecked(t) ==
    /\ refresh[t].at = "sent"
    /\ refresh' = [refresh EXCEPT ![t].at =
          IF Usable(refresh[t].cookie) THEN "checked" ELSE "refused"]
    /\ UNCHANGED <<jar, server, ended, token, user, flow, calls, events>>

RefreshCommitted(t) ==
    /\ refresh[t].at = "checked"
    /\ Rotate(refresh[t].cookie)
    /\ refresh' = [refresh EXCEPT ![t].at = "granted", ![t].got = issued']
    /\ UNCHANGED <<jar, ended, token, user, flow, calls, events>>

-----------------------------------------------------------------------------
(* auth-provider.tsx and the login page *)

\* A tab loads: the provider tries the cookie before anything else.
Open(t) ==
    /\ Event /\ flow[t] = "closed"
    /\ flow' = [flow EXCEPT ![t] = "restoring"]
    /\ JoinRefresh(t)
    /\ UNCHANGED <<jar, server, ended, token, user, calls>>

Login(t) ==
    /\ Event /\ flow[t] = "none" /\ ~user[t]
    /\ flow' = [flow EXCEPT ![t] = "login"]
    /\ UNCHANGED <<jar, server, ended, token, user, refresh, calls>>

\* The login answer sets cookie and token, then the profile is asked for.
LoginAnswered(t) ==
    /\ flow[t] = "login"
    /\ \/ /\ Rotate(0)
          /\ jar' = issued'
          /\ token' = [token EXCEPT ![t] = "valid"]
          /\ flow' = [flow EXCEPT ![t] = "profile"]
          /\ \E c \in CallsOf(t) :
                /\ calls[c].at = "idle"
                /\ calls' = [calls EXCEPT ![c] = [at |-> "sent", kind |-> "me", token |-> "valid"]]
       \/ flow' = [flow EXCEPT ![t] = "none"] /\ UNCHANGED <<jar, server, token, calls>>
    /\ UNCHANGED <<ended, user, refresh, events>>

Logout(t) ==
    /\ Event /\ flow[t] = "none" /\ user[t]
    /\ flow' = [flow EXCEPT ![t] = "logout"]
    /\ UNCHANGED <<jar, server, ended, token, user, refresh, calls>>

\* Whether or not the API hears of it, the tab forgets its token, its user and its cache.
LogoutAnswered(t) ==
    /\ flow[t] = "logout"
    /\ \/ live' = live \ {jar} /\ jar' = 0
       \/ UNCHANGED <<jar, live>>
    /\ ended' = TRUE
    /\ token' = [token EXCEPT ![t] = "none"]
    /\ user' = [user EXCEPT ![t] = FALSE]
    /\ flow' = [flow EXCEPT ![t] = "none"]
    /\ UNCHANGED <<issued, refresh, calls, events>>

-----------------------------------------------------------------------------
(* The clock and other parties *)

\* An access token expires, for the requests that carry it too.
Expire(t) ==
    /\ Event /\ token[t] = "valid"
    /\ token' = [token EXCEPT ![t] = "expired"]
    /\ calls' = [c \in Calls |-> IF TabOf[c] = t /\ calls[c].token = "valid"
                                 THEN [calls[c] EXCEPT !.token = "expired"] ELSE calls[c]]
    /\ UNCHANGED <<jar, server, ended, user, flow, refresh>>

\* revoke_all_user_tokens: a password reset or a deactivation by an administrator.
RevokeAll ==
    /\ Event /\ live' = {} /\ ended' = TRUE
    /\ UNCHANGED <<jar, issued, token, user, flow, refresh, calls>>

-----------------------------------------------------------------------------
(* Specification *)

\* A browser without a session, or with the cookie of an earlier visit.
Init ==
    /\ \/ jar = 0 /\ issued = 0 /\ live = {}
       \/ jar = 1 /\ issued = 1 /\ live = {1}
    /\ ended = FALSE /\ events = 0
    /\ token = [t \in Tabs |-> "none"]
    /\ user = [t \in Tabs |-> FALSE]
    /\ flow = [t \in Tabs |-> "closed"]
    /\ refresh = [t \in Tabs |-> NoRefresh]
    /\ calls = [c \in Calls |-> IdleCall]

TabStep(t) == RefreshChecked(t) \/ RefreshCommitted(t) \/ RefreshAnswered(t)
                 \/ LoginAnswered(t) \/ LogoutAnswered(t)

Next ==
    \/ \E t \in Tabs : Open(t) \/ Login(t) \/ Logout(t) \/ Expire(t) \/ TabStep(t)
    \/ \E c \in Calls : Call(c) \/ CallServed(c)
    \/ RevokeAll

Spec == Init /\ [][Next]_vars

\* fetch() always settles; users, the clock and administrators owe nothing.
Fairness ==
    /\ \A t \in Tabs : WF_vars(TabStep(t))
    /\ \A c \in Calls : WF_vars(CallServed(c))

FairSpec == Spec /\ Fairness

-----------------------------------------------------------------------------
(* Properties *)

Refreshes == [at : {"idle", "sent", "checked", "granted", "refused"}, cookie : Nat, got : Nat]

TypeOK ==
    /\ jar \in 0..issued /\ issued \in Nat /\ live \subseteq 1..issued
    /\ ended \in BOOLEAN /\ events \in Nat
    /\ token \in [Tabs -> {"none", "valid", "expired"}]
    /\ user \in [Tabs -> BOOLEAN]
    /\ flow \in [Tabs -> {"closed", "restoring", "profile", "none", "login", "logout"}]
    /\ refresh \in [Tabs -> Refreshes]
    /\ calls \in [Calls -> [at : {"idle", "sent", "refreshing", "resent"}, kind : {"query", "me"},
                            token : {"none", "valid", "expired"}]]

\* However the tabs race for the single-use cookie, the browser does not lose its session: the jar
\* holds a live token or an answer on its way brings one, unless somebody ended the session or an
\* answer got lost.
JarAlive == ended \/ jar = 0 \/ jar \in live \/ \E t \in Tabs : refresh[t].at = "granted"

\* A refresh is refused for a good reason: the session was ended, there was no cookie, or another
\* tab used the cookie first, so that asking again with the cookie of then is of use.
RefusalIsARace ==
    \A t \in Tabs : refresh[t].at = "refused" =>
        \/ ended \/ refresh[t].cookie = 0 \/ jar # refresh[t].cookie
        \/ \E u \in Tabs \ {t} : refresh[u].at = "granted"

\* Every call ends, those that wait for a refresh somebody else started included.
CallsEnd == \A c \in Calls : calls[c].at # "idle" ~> calls[c].at = "idle"

\* The provider never keeps the page on its spinner, nor a login or logout without an answer.
FlowsEnd == \A t \in Tabs :
    flow[t] \in {"restoring", "profile", "login", "logout"} ~> flow[t] = "none"
=============================================================================
