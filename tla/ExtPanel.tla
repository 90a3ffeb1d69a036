------------------------------ MODULE ExtPanel -------------------------------
(***************************************************************************)
(* The side panel the extension adds to WhatsApp Web (content.ts,          *)
(* panel.ts, wa-dom.ts).  A poll notices that another chat is open and     *)
(* starts a lookup: session, catalogs, contact by phone, deals of the      *)
(* contact, activities.  Lookups overlap; only the newest may render.  The *)
(* buttons of the rendered view start clicks, which look the deal up again *)
(* by the phone of the conversation that is current when they are pressed. *)
(*                                                                         *)
(* A lookup or a click occupies a caller until it ends; a free caller is   *)
(* the bound on overlapping ones.  Names, units, templates and texts are   *)
(* left out.  The CRM behind the API is the contacts it knows and the      *)
(* deals in order of creation.                                             *)
(***************************************************************************)
EXTENDS ExtBackground

CONSTANTS
    Lookups, Clicks,    \* callers of refresh() and of the panel's handlers
    Chats,              \* readings the adapter can make of an open chat
    PhoneOf,            \* chat -> the phone found in the page, or None
    Groups,             \* chats that are groups
    Phones,
    MaxDeals            \* bound: deals created in the CRM

ASSUME PanelAssumption ==
    /\ Callers = Lookups \cup Clicks /\ Lookups \cap Clicks = {}
    /\ None \notin Chats \cup Phones /\ Groups \subseteq Chats
    /\ PhoneOf \in [Chats -> Phones \cup {None}]
    /\ MaxDeals \in Nat

VARIABLES
    open,       \* the chat on the screen, or None
    polled,     \* the chat of the poll's last key
    current,    \* currentConversation
    catalogs,   \* the user whose catalogs are cached, or None
    newest,     \* the lookup of lookupSeq
    shown,      \* what the panel renders
    contacts,   \* phones the CRM knows
    deals       \* deals of the CRM, oldest first

crm == <<contacts, deals>>
surface == <<open, polled, current>>
vars == <<background, calls, events, surface, catalogs, newest, shown, crm>>

-----------------------------------------------------------------------------
(* Conversations, deals and views *)

\* getOpenConversation: a chat's key is its reading.
Reading(chat) == [chat |-> chat, phone |-> IF chat = None THEN None ELSE PhoneOf[chat]]

DealIds == 1..MaxDeals
DealsOf(phone) == {d \in DOMAIN deals : deals[d].phone = phone}
OpenDeals(phone) == {d \in DealsOf(phone) : deals[d].open}

Latest(ids) == IF ids = {} THEN None ELSE CHOOSE d \in ids : \A e \in ids : e <= d

\* The newest open deal, else the newest deal of any status.
PickDeal(phone) == Latest(IF OpenDeals(phone) = {} THEN DealsOf(phone) ELSE OpenDeals(phone))

\* renderLead: the buttons a lead card has.
Offers(d) ==
    IF d = None THEN {"createDeal"}
    ELSE IF ~deals[d].open THEN {}
    ELSE {"log", "schedule"} \cup (IF deals[d].contacted THEN {} ELSE {"firstContact"})

View(kind) == [kind |-> kind, phone |-> None, deal |-> None, offers |-> {}, busy |-> FALSE]
LeadView(call) == [View("lead") EXCEPT !.phone = call.conv.phone, !.deal = call.deal,
                                       !.offers = call.offers]
CreateView(phone) == [View("create") EXCEPT !.phone = phone]

-----------------------------------------------------------------------------
(* Callers *)

Idle == [at |-> "idle", stage |-> "none", user |-> None, conv |-> Reading(None), deal |-> None,
         offers |-> {}, seen |-> None, act |-> None, phone |-> None]

Await(c, at) == [calls[c] EXCEPT !.at = at, !.stage = "sent", !.user = None]
Go(c, at) == calls' = [calls EXCEPT ![c] = Await(c, at)]
End(c) == calls' = [calls EXCEPT ![c] = Idle]

Free(set) == {c \in set : calls[c].at = "idle"}

\* refresh() up to its first await, called when the other calls are as in base.
Refresh(base, conv) ==
    /\ Free(Lookups) # {}
    /\ LET l == CHOOSE c \in Free(Lookups) : TRUE IN
       /\ calls' = [base EXCEPT ![l] = [Idle EXCEPT !.at = "auth", !.stage = "sent", !.conv = conv]]
       /\ newest' = l

\* Mutant: the handler ends without it.
EndQuietly(k, conv) == End(k) /\ UNCHANGED newest

\* A click ends by refreshing the panel.
EndRefreshing(k, conv) == Refresh([calls EXCEPT ![k] = Idle], conv)

\* Mutants: an overtaken lookup renders too; an error is not rendered.
RenderAnyway(l, v) == End(l) /\ shown' = v
RenderNoError(l, v) ==
    /\ End(l)
    /\ shown' = IF l = newest /\ v.kind # "error" THEN v ELSE shown

\* The end of an await of lookup l: its result v is rendered unless a newer lookup started.
Render(l, v) ==
    /\ End(l)
    /\ shown' = IF l = newest THEN v ELSE shown

-----------------------------------------------------------------------------
(* The lookup *)

SwitchChat(chat) ==
    /\ Event /\ chat # open
    /\ open' = chat
    /\ UNCHANGED <<background, calls, polled, current, catalogs, newest, shown, crm>>

Poll ==
    /\ open # polled
    /\ polled' = open /\ current' = Reading(open)
    /\ Refresh(calls, Reading(open))
    /\ UNCHANGED <<background, events, open, catalogs, shown, crm>>

\* The listener of mount(), should the browser call it.
StorageChanged ==
    /\ notices > 0
    /\ notices' = notices - 1
    /\ catalogs' = None
    /\ Refresh(calls, current)
    /\ UNCHANGED <<session, aged, popup, account, events, surface, shown, crm>>

AfterCatalogs(l) ==
    IF calls[l].conv.phone = None
    THEN Render(l, CreateView(None))
    ELSE Go(l, "search") /\ shown' = View("loading")

Answer(l) ==
    LET conv == calls[l].conv IN
    IF conv.chat = None THEN Render(l, View("noConversation"))
    ELSE IF conv.chat \in Groups THEN Render(l, View("group"))
    ELSE IF catalogs = None THEN Go(l, "catalogs") /\ shown' = View("loading")
    ELSE AfterCatalogs(l)

AuthServed(l) ==
    /\ Served(l, "auth")
    /\ \/ Render(l, View("loggedOut"))
       \/ l # newest /\ End(l) /\ UNCHANGED shown
       \/ l = newest /\ calls[l].user # None /\ Answer(l)
    /\ UNCHANGED <<background, events, surface, catalogs, newest, crm>>

\* The result is cached before the check that the lookup is still the newest.
CatalogsServed(l) ==
    /\ Served(l, "catalogs")
    /\ \/ /\ Succeeds(l) /\ catalogs' = calls[l].user
          /\ IF l = newest THEN AfterCatalogs(l) ELSE End(l) /\ UNCHANGED shown
       \/ Fails(l) /\ Render(l, View("error")) /\ UNCHANGED catalogs
    /\ UNCHANGED <<events, surface, newest, crm>>

SearchServed(l) ==
    /\ Served(l, "search")
    /\ \/ /\ Succeeds(l)
          /\ IF l = newest /\ calls[l].conv.phone \in contacts
             THEN Go(l, "deals") /\ UNCHANGED shown
             ELSE Render(l, CreateView(calls[l].conv.phone))
       \/ Fails(l) /\ Render(l, View("error"))
    /\ UNCHANGED <<events, surface, catalogs, newest, crm>>

\* buildLeadView does not look at lookupSeq between its two requests.
DealsServed(l) ==
    /\ Served(l, "deals")
    /\ \/ /\ Succeeds(l)
          /\ LET d == PickDeal(calls[l].conv.phone)
                 found == [Await(l, "activities") EXCEPT !.deal = d, !.offers = Offers(d)]
             IN  IF d = None THEN Render(l, LeadView(found))
                 ELSE calls' = [calls EXCEPT ![l] = found] /\ UNCHANGED shown
       \/ Fails(l) /\ Render(l, View("error"))
    /\ UNCHANGED <<events, surface, catalogs, newest, crm>>

ActivitiesServed(l) ==
    /\ Served(l, "activities")
    /\ Succeeds(l) \/ Fails(l)
    /\ Render(l, LeadView(calls[l]))
    /\ UNCHANGED <<events, surface, catalogs, newest, crm>>

-----------------------------------------------------------------------------
(* Quick log, next contact, first contact: currentDeal() and one request *)

Press(k, act) ==
    /\ Event /\ calls[k].at = "idle"
    /\ shown.kind = "lead" /\ act \in shown.offers \ {"createDeal"}
    /\ current.phone # None
    /\ calls' = [calls EXCEPT ![k] = [Idle EXCEPT !.at = "find", !.stage = "sent", !.act = act,
                                                  !.conv = current, !.seen = shown.phone]]
    /\ UNCHANGED <<background, surface, catalogs, newest, shown, crm>>

FindServed(k) ==
    /\ Served(k, "find")
    /\ \/ Succeeds(k) /\ calls[k].conv.phone \in contacts /\ Go(k, "findDeal")
       \/ Succeeds(k) /\ calls[k].conv.phone \notin contacts /\ End(k)
       \/ Fails(k) /\ End(k)
    /\ UNCHANGED <<events, surface, catalogs, newest, shown, crm>>

FindDealServed(k) ==
    /\ Served(k, "findDeal")
    /\ LET d == PickDeal(calls[k].conv.phone) IN
       \/ /\ Succeeds(k) /\ d # None
          /\ calls' = [calls EXCEPT ![k] = [Await(k, "write") EXCEPT !.deal = d]]
       \/ Succeeds(k) /\ d = None /\ End(k)
       \/ Fails(k) /\ End(k)
    /\ UNCHANGED <<events, surface, catalogs, newest, shown, crm>>

\* What the API accepts: an open deal, and a first contact only once.
Accepts(act, d) == deals[d].open /\ (act = "firstContact" => ~deals[d].contacted)

WriteServed(k) ==
    /\ Served(k, "write")
    /\ \/ /\ Succeeds(k) /\ Accepts(calls[k].act, calls[k].deal)
          /\ deals' = IF calls[k].act = "schedule" THEN deals
                      ELSE [deals EXCEPT ![calls[k].deal].contacted = TRUE]
          /\ EndRefreshing(k, current)
       \/ Fails(k) /\ End(k) /\ UNCHANGED <<newest, deals>>
    /\ UNCHANGED <<events, surface, catalogs, shown, contacts>>

-----------------------------------------------------------------------------
(* The create form: contact, then deal *)

\* Mutant: whatever was typed is sent.
AnyPhone(typed) == TRUE

\* The typed phone is None when it cannot be normalised.
ValidPhone(typed) == typed # None

\* An invalid phone is an error and a new lookup.  Without catalogs the handler returns.
SubmitCreate(k, typed) ==
    /\ Event /\ calls[k].at = "idle"
    /\ shown.kind = "create" /\ ~shown.busy
    /\ shown.phone # None => typed = shown.phone
    /\ shown' = [shown EXCEPT !.busy = TRUE]
    /\ \/ ~ValidPhone(typed) /\ Refresh(calls, current)
       \/ ValidPhone(typed) /\ catalogs = None /\ UNCHANGED <<calls, newest>>
       \/ /\ ValidPhone(typed) /\ catalogs # None
          /\ calls' = [calls EXCEPT ![k] = [Idle EXCEPT !.at = "contact", !.stage = "sent",
                                                        !.phone = typed]]
          /\ UNCHANGED newest
    /\ UNCHANGED <<background, surface, catalogs, crm>>

\* A duplicate phone answers with the contact that has it, and the form goes on with that one.
ContactServed(k) ==
    /\ Served(k, "contact")
    /\ \/ /\ Succeeds(k)
          /\ contacts' = contacts \cup {calls[k].phone}
          /\ Go(k, "deal") /\ UNCHANGED newest
       \/ Fails(k) /\ EndRefreshing(k, current) /\ UNCHANGED contacts
    /\ UNCHANGED <<events, surface, catalogs, shown, deals>>

FreshDeal(phone) == [phone |-> phone, open |-> TRUE, contacted |-> FALSE]

NewDeal(phone) == Len(deals) < MaxDeals /\ deals' = Append(deals, FreshDeal(phone))

\* A conversation without a phone gets the phone of the lead just created, also one that was
\* opened after the form was submitted.
DealServed(k) ==
    /\ Served(k, "deal")
    /\ \/ /\ Succeeds(k) /\ NewDeal(calls[k].phone)
          /\ current' = IF current.chat # None /\ current.phone = None
                        THEN [current EXCEPT !.phone = calls[k].phone] ELSE current
       \/ Fails(k) /\ UNCHANGED <<deals, current>>
    /\ EndRefreshing(k, current')
    /\ UNCHANGED <<events, open, polled, catalogs, shown, contacts>>

\* The button of a contact without deals.
PressCreateDeal(k) ==
    /\ Event /\ calls[k].at = "idle"
    /\ shown.kind = "lead" /\ "createDeal" \in shown.offers
    /\ current.phone # None /\ catalogs # None
    /\ calls' = [calls EXCEPT ![k] = [Idle EXCEPT !.at = "findContact", !.stage = "sent",
                                                  !.phone = current.phone]]
    /\ UNCHANGED <<background, surface, catalogs, newest, shown, crm>>

\* Its owner is read from the catalogs after the await: a logout meanwhile ends the handler.
FindContactServed(k) ==
    LET known == calls[k].phone \in contacts /\ catalogs # None IN
    /\ Served(k, "findContact")
    /\ \/ Succeeds(k) /\ known /\ Go(k, "dealForContact")
       \/ Succeeds(k) /\ ~known /\ End(k)
       \/ Fails(k) /\ End(k)
    /\ UNCHANGED <<events, surface, catalogs, newest, shown, crm>>

DealForContactServed(k) ==
    /\ Served(k, "dealForContact")
    /\ \/ Succeeds(k) /\ NewDeal(calls[k].phone) /\ EndRefreshing(k, current)
       \/ Fails(k) /\ End(k) /\ UNCHANGED <<newest, deals>>
    /\ UNCHANGED <<events, surface, catalogs, shown, contacts>>

-----------------------------------------------------------------------------
(* Other clients of the CRM *)

CrmCloses(d) ==
    /\ Event /\ deals[d].open
    /\ deals' = [deals EXCEPT ![d].open = FALSE]
    /\ UNCHANGED <<background, calls, surface, catalogs, newest, shown, contacts>>

CrmReceivesLead(phone) ==
    /\ Event /\ NewDeal(phone)
    /\ contacts' = contacts \cup {phone}
    /\ UNCHANGED <<background, calls, surface, catalogs, newest, shown>>

-----------------------------------------------------------------------------
(* Specification *)

\* mount(): the open chat is read and looked up at once.
Init ==
    /\ session \in Users \cup {None} /\ aged = FALSE /\ popup = "idle" /\ account = None
    /\ notices = 0 /\ events = 0
    /\ open \in Chats \cup {None} /\ polled = open /\ current = Reading(open)
    /\ newest \in Lookups
    /\ calls = [c \in Callers |->
          IF c = newest THEN [Idle EXCEPT !.at = "auth", !.stage = "sent", !.conv = current] ELSE Idle]
    /\ catalogs = None /\ shown = View("blank")
    /\ \/ contacts = {} /\ deals = <<>>
       \/ \E phone \in Phones : contacts = {phone} /\ deals = <<FreshDeal(phone)>>

Popup == \/ (\E u \in Users : Login(u)) \/ LoginAnswered \/ MeAnswered \/ Logout \/ Expire

Worker(c) == GetSession(c) \/ RemoveExpired(c)

Lookup(l) == \/ AuthServed(l) \/ CatalogsServed(l) \/ SearchServed(l)
             \/ DealsServed(l) \/ ActivitiesServed(l)

Handler(k) == \/ FindServed(k) \/ FindDealServed(k) \/ WriteServed(k)
              \/ ContactServed(k) \/ DealServed(k)
              \/ FindContactServed(k) \/ DealForContactServed(k)

Pressed(k) == \/ \E act \in {"log", "schedule", "firstContact"} : Press(k, act)
             \/ \E typed \in Phones \cup {None} : SubmitCreate(k, typed)
             \/ PressCreateDeal(k)

Next ==
    \/ Popup /\ UNCHANGED <<surface, catalogs, newest, shown, crm>>
    \/ \E c \in Callers : Worker(c) /\ UNCHANGED <<surface, catalogs, newest, shown, crm>>
    \/ \E l \in Lookups : Lookup(l)
    \/ \E k \in Clicks : Pressed(k) \/ Handler(k)
    \/ \E chat \in Chats \cup {None} : SwitchChat(chat)
    \/ Poll
    \/ StorageChanged
    \/ \E d \in DOMAIN deals : CrmCloses(d)
    \/ \E phone \in Phones : CrmReceivesLead(phone)

Spec == Init /\ [][Next]_vars

\* sendToBackground always calls back and timers fire; users are not fair.  Nor is StorageChanged:
\* nothing opens chrome.storage.session to the content script that listens.
Fairness ==
    /\ \A c \in Callers : WF_vars(Worker(c) /\ UNCHANGED <<surface, catalogs, newest, shown, crm>>)
    /\ \A l \in Lookups : WF_vars(Lookup(l))
    /\ \A k \in Clicks : WF_vars(Handler(k))
    /\ WF_vars(Poll)

FairSpec == Spec /\ Fairness

-----------------------------------------------------------------------------
(* Properties *)

TypeOK ==
    /\ session \in Users \cup {None} /\ aged \in BOOLEAN /\ notices \in Nat /\ events \in 0..MaxEvents
    /\ popup \in {"idle", "login", "me"} /\ account \in Users \cup {None}
    /\ open \in Chats \cup {None} /\ polled \in Chats \cup {None}
    /\ current \in [chat : Chats \cup {None}, phone : Phones \cup {None}]
    /\ catalogs \in Users \cup {None} /\ newest \in Lookups
    /\ contacts \subseteq Phones
    /\ deals \in Seq([phone : Phones, open : BOOLEAN, contacted : BOOLEAN])
    /\ DOMAIN calls = Callers

\* Once the newest lookup is over, the panel shows its answer for the conversation that is open
\* as far as the poll knows.  A chat whose page has a phone is never shown with another one,
\* whatever lookups, logins and clicks overlapped.  A chat without one is shown with no phone or
\* with that of a lead created from a form; the form may have been that of the chat before
\* (DealServed), so of such a chat it is not said that the lead is its own.
ShownIsCurrent ==
    calls[newest].at = "idle" =>
        /\ shown.kind \notin {"blank", "loading"}
        /\ shown.kind = "noConversation" => polled = None
        /\ shown.kind = "group" => polled \in Groups
        /\ shown.kind \in {"lead", "create"} =>
              /\ polled \in Chats \ Groups
              /\ IF PhoneOf[polled] # None THEN shown.phone = PhoneOf[polled]
                 ELSE /\ shown.phone = current.phone
                      /\ shown.phone # None => DealsOf(shown.phone) # {}

\* The panel never searches for ever.
PanelSettles == shown.kind \in {"blank", "loading"} ~> shown.kind \notin {"blank", "loading"}

\* The create form disables its button and counts on a later render to bring it back.
CreateNotStuck == shown.busy ~> ~shown.busy

\* A lookup that starts when nobody is logged in, the session having ended or expired, makes the
\* panel ask for a login, unless one happens.  Until a lookup starts the panel may keep its card.
SignedOut == session = None \/ aged
AsksToLogIn ==
    SignedOut /\ calls[newest].at = "auth" /\ calls[newest].stage = "sent"
        ~> shown.kind = "loggedOut" \/ ~SignedOut

\* "Resolve the deal currently shown": a click acts on a deal of the contact whose card it was
\* pressed on.
ActsOnShownContact ==
    [][\A k \in Clicks :
          calls[k].at = "findDeal" /\ calls'[k].at = "write" =>
              deals[calls'[k].deal].phone = calls[k].seen]_vars
=============================================================================
