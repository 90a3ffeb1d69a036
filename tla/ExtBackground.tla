---------------------------- MODULE ExtBackground ----------------------------
(***************************************************************************)
(* The service worker of the browser extension (background.ts): it owns    *)
(* the session in chrome.storage.session and serves the messages of the    *)
(* popup and of the panel one await at a time.  The popup is the only      *)
(* place that logs in or out (popup.ts).                                   *)
(*                                                                         *)
(* A message is a call of one caller.  It is sent, the worker reads the    *)
(* stored session for it, and only then does the caller (ExtPanel) get the *)
(* user whose token the request carries, or None.  Between these steps the *)
(* session may change.  Whether the content script hears of a change is    *)
(* left open: chrome.storage.session is closed to content scripts unless   *)
(* setAccessLevel opens it, and nothing calls that.  The two base URLs and *)
(* the wording of errors are left out.                                     *)
(***************************************************************************)
EXTENDS Naturals, Sequences, FiniteSets

CONSTANTS
    Callers,    \* asynchronous activities of the panel that send messages
    Users,      \* accounts
    None,
    MaxEvents   \* bound: what users, the clock and other clients do in a behaviour

ASSUME BackgroundAssumption == None \notin Users \cup Callers /\ MaxEvents \in Nat

VARIABLES
    session,    \* user of the stored session, or None
    aged,       \* the stored session is past its expiresAt
    popup,      \* "idle", or the fetch the login handler awaits
    account,    \* the user logging in
    notices,    \* storage.onChanged events the content script may yet be given
    calls,      \* caller -> the message it awaits, with what it has gathered
    events      \* events so far

store == <<session, aged, notices>>
background == <<session, aged, popup, account, notices>>

\* Something the code does not decide happens.
Event == events < MaxEvents /\ events' = events + 1

SetSession(u) == session' = u /\ aged' = FALSE /\ notices' = notices + 1

\* Removing a key that is absent raises no event.
RemoveSession ==
    /\ session' = None
    /\ aged' = FALSE
    /\ notices' = IF session = None THEN notices ELSE notices + 1

-----------------------------------------------------------------------------
(* Login and logout *)

Login(u) ==
    /\ Event /\ popup = "idle"
    /\ popup' = "login" /\ account' = u
    /\ UNCHANGED <<store, calls>>

LoginAnswered ==
    /\ popup = "login"
    /\ \/ popup' = "me" /\ UNCHANGED account
       \/ popup' = "idle" /\ account' = None
    /\ UNCHANGED <<store, calls, events>>

MeAnswered ==
    /\ popup = "me"
    /\ popup' = "idle" /\ account' = None
    /\ SetSession(account) \/ UNCHANGED store
    /\ UNCHANGED <<calls, events>>

Logout ==
    /\ Event /\ session # None
    /\ RemoveSession
    /\ UNCHANGED <<popup, account, calls>>

Expire ==
    /\ Event /\ session # None /\ ~aged
    /\ aged' = TRUE
    /\ UNCHANGED <<session, notices, popup, account, calls>>

-----------------------------------------------------------------------------
(* Serving a message *)

\* Mutant: a session is used whatever its age.
GetSessionOfAnyAge(c) ==
    /\ calls[c].stage = "sent"
    /\ calls' = [calls EXCEPT ![c].stage = "served", ![c].user = session]
    /\ UNCHANGED <<background, events>>

\* getSession: an expired session is removed in an await of its own, whatever is stored by then.
GetSession(c) ==
    /\ calls[c].stage = "sent"
    /\ calls' = IF session # None /\ aged
                THEN [calls EXCEPT ![c].stage = "removing"]
                ELSE [calls EXCEPT ![c].stage = "served", ![c].user = session]
    /\ UNCHANGED <<background, events>>

RemoveExpired(c) ==
    /\ calls[c].stage = "removing"
    /\ RemoveSession
    /\ calls' = [calls EXCEPT ![c].stage = "served"]
    /\ UNCHANGED <<popup, account, events>>

Served(c, at) == calls[c].at = at /\ calls[c].stage = "served"

\* The answer is an error: no session, no network, no worker, or a refusal; a 401 drops the session.
Fails(c) ==
    /\ UNCHANGED <<popup, account>>
    /\ \/ UNCHANGED store
       \/ calls[c].user # None /\ RemoveSession

\* The API answers the fetch that carries the user's token.
Succeeds(c) == calls[c].user # None /\ UNCHANGED background
=============================================================================
