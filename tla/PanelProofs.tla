----------------------------- MODULE PanelProofs ------------------------------
(***************************************************************************)
(* Proofs about ExtPanel, for any number of chats, lookups, clicks and     *)
(* events: when no newer lookup is under way the panel shows the answer    *)
(* for the chat that is open as far as the poll knows.                     *)
(*                                                                         *)
(* ShownIsCurrent speaks of the moment after the newest lookup ended.  To  *)
(* carry it through the lookup, the newest one has to be asking about the  *)
(* conversation that is current (NewestCurrent), a lookup that is past the *)
(* session check has to be about a person's chat (LookupCall), and the     *)
(* conversation has to be the one the poll read, with the phone of the     *)
(* page where the page has one (SurfaceOK).                                *)
(*                                                                         *)
(* Where the page has no phone the conversation's is that of a lead        *)
(* created from a form (TypedPhone), not necessarily a form of this chat.  *)
(***************************************************************************)
EXTENDS ExtPanel, SequenceTheorems, WellFoundedInduction, TLAPS

Conv == [chat : Chats \cup {None}, phone : Phones \cup {None}]
Deal == [phone : Phones, open : BOOLEAN, contacted : BOOLEAN]
Kinds == {"blank", "loading", "loggedOut", "noConversation", "group", "error", "lead", "create"}
Buttons == {"createDeal", "log", "schedule", "firstContact"}
Views == [kind : Kinds, phone : Phones \cup {None}, deal : Nat \cup {None},
          offers : SUBSET Buttons, busy : BOOLEAN]

LookupAt == {"auth", "catalogs", "search", "deals", "activities"}
PhoneAt == {"contact", "deal", "findContact", "dealForContact"}
ClickAt == {"find", "findDeal", "write"} \cup PhoneAt
Call == [at : {"idle"} \cup LookupAt \cup ClickAt, stage : {"none", "sent", "removing", "served"},
         user : Users \cup {None}, conv : Conv, deal : Nat \cup {None}, offers : SUBSET Buttons,
         seen : Phones \cup {None}, act : Buttons \cup {None}, phone : Phones \cup {None}]

\* Past the session check a lookup is about a person's chat, and past the catalogs it has a phone.
LookupCall ==
    {e \in Call : /\ e.at \in {"idle"} \cup LookupAt
                  /\ e.at \in LookupAt \ {"auth"} => e.conv.chat \in Chats \ Groups
                  /\ e.at \in {"search", "deals", "activities"} => e.conv.phone # None}

\* A click that creates a contact or a deal has the phone it is for.
ClickCall ==
    {e \in Call : /\ e.at \in {"idle"} \cup ClickAt
                  /\ e.at \in PhoneAt => e.phone \in Phones}

CallsOK ==
    {cs \in [Callers -> Call] : /\ \A l \in Lookups : cs[l] \in LookupCall
                                /\ \A k \in Clicks : cs[k] \in ClickCall}

BackgroundOK ==
    /\ session \in Users \cup {None} /\ aged \in BOOLEAN /\ notices \in Nat
    /\ popup \in {"idle", "login", "me"} /\ account \in Users \cup {None}

\* The conversation is the poll's; the phone of the page wins over one that was typed.
SurfaceOK ==
    /\ open \in Chats \cup {None} /\ polled \in Chats \cup {None}
    /\ current \in Conv /\ current.chat = polled
    /\ polled \in Chats /\ PhoneOf[polled] # None => current.phone = PhoneOf[polled]

PanelOK == catalogs \in Users \cup {None} /\ newest \in Lookups /\ shown \in Views
CrmOK == contacts \subseteq Phones /\ deals \in Seq(Deal)

\* View v answers a lookup of conversation conv.
Answers(v, conv) ==
    /\ v.kind \notin {"blank", "loading"}
    /\ v.kind = "noConversation" => conv.chat = None
    /\ v.kind = "group" => conv.chat \in Groups
    /\ v.kind \in {"lead", "create"} => conv.chat \in Chats \ Groups /\ v.phone = conv.phone

\* The newest lookup asks about the current conversation; when it is over, its answer is shown.
NewestCurrent ==
    IF calls[newest].at = "idle" THEN Answers(shown, current) ELSE calls[newest].conv = current

Inv == /\ BackgroundOK /\ events \in 0..MaxEvents
       /\ SurfaceOK /\ PanelOK /\ CrmOK /\ calls \in CallsOK /\ NewestCurrent

-----------------------------------------------------------------------------
(* The deal a phone is looked up to *)

\* A set of deals that is not empty has a latest one.
LEMMA LatestThere ==
    ASSUME NEW n \in Nat, NEW ids \in SUBSET (1..n), ids # {}
    PROVE  Latest(ids) \in ids /\ \A e \in ids : e <= Latest(ids)
<1> DEFINE back == {n - d : d \in ids}
           less == OpToRel(<, Nat)
<1>1. back \subseteq Nat /\ back # {}
  OBVIOUS
<1>2. IsWellFoundedOn(less, Nat)
  BY NatLessThanWellFounded, Zenon
<1> HIDE DEF less
<1>3. PICK x \in back : \A y \in back : ~(<<y, x>> \in less)
  BY <1>1, <1>2, WFMin, Zenon
<1>4. PICK d \in ids : x = n - d
  BY <1>3
<1>5. ASSUME NEW e \in ids PROVE e <= d
  <2>1. n - e \in back /\ n - e \in Nat /\ x \in Nat
    BY <1>1, <1>3
  <2>2. ~(<<n - e, x>> \in less)
    BY <1>3, <2>1
  <2>3. ~(n - e < x)
    BY <2>1, <2>2 DEF less, OpToRel
  <2> QED
    BY <1>4, <2>3
<1>6. \E m \in ids : \A e \in ids : e <= m
  BY <1>5
<1> QED
  BY <1>6 DEF Latest

\* The lookup of a phone finds a deal of that phone, an open one when there is one, or none when
\* it has none.
LEMMA PickedDeal ==
    ASSUME CrmOK, NEW phone
    PROVE  /\ PickDeal(phone) \in Nat \cup {None}
           /\ DealsOf(phone) # {} => PickDeal(phone) \in DealsOf(phone)
           /\ OpenDeals(phone) # {} => PickDeal(phone) \in OpenDeals(phone)
<1>1. Len(deals) \in Nat /\ DOMAIN deals = 1..Len(deals)
  BY LenProperties DEF CrmOK
<1>2. /\ DealsOf(phone) \in SUBSET (1..Len(deals))
      /\ OpenDeals(phone) \in SUBSET (1..Len(deals)) /\ OpenDeals(phone) \subseteq DealsOf(phone)
  BY <1>1 DEF DealsOf, OpenDeals
<1>3. /\ DealsOf(phone) # {} => Latest(DealsOf(phone)) \in DealsOf(phone)
      /\ OpenDeals(phone) # {} => Latest(OpenDeals(phone)) \in OpenDeals(phone)
  BY <1>1, <1>2, LatestThere
<1>4. DealsOf(phone) = {} => PickDeal(phone) = None
  BY <1>2 DEF PickDeal, Latest
<1>5. /\ DealsOf(phone) # {} => PickDeal(phone) \in DealsOf(phone)
      /\ OpenDeals(phone) # {} => PickDeal(phone) \in OpenDeals(phone)
  BY <1>2, <1>3 DEF PickDeal
<1> QED
  BY <1>1, <1>2, <1>4, <1>5

-----------------------------------------------------------------------------
(* Calls *)

LEMMA IdleCall == Idle \in Call /\ Idle \in LookupCall /\ Idle \in ClickCall /\ Idle.at = "idle"
<1>1. Reading(None) \in Conv
  BY DEF Reading, Conv
<1>2. Idle \in Call /\ Idle.at = "idle"
  BY <1>1 DEF Idle, Call
<1> QED
  BY <1>2 DEF LookupCall, ClickCall, LookupAt, PhoneAt

LEMMA ReadingConv ==
    ASSUME NEW chat \in Chats \cup {None}
    PROVE  /\ Reading(chat) \in Conv /\ Reading(chat).chat = chat
           /\ chat \in Chats => Reading(chat).phone = PhoneOf[chat]
BY PanelAssumption DEF Reading, Conv

\* A message that is sent; nothing else of the call changes.
LEMMA AwaitCall ==
    ASSUME NEW c \in Callers, calls[c] \in Call, NEW at \in LookupAt \cup ClickAt
    PROVE  LET e == Await(c, at)
           IN  /\ e \in Call /\ e.at = at /\ e.conv = calls[c].conv /\ e.phone = calls[c].phone
BY DEF Await, Call

\* A new lookup takes the place of the newest.
LEMMA Refreshed ==
    ASSUME Inv, NEW base \in CallsOK, NEW conv \in Conv, Refresh(base, conv)
    PROVE  /\ calls' \in CallsOK /\ newest' \in Lookups
           /\ calls'[newest'].at = "auth" /\ calls'[newest'].conv = conv
<1> DEFINE l == CHOOSE c \in Free(Lookups) : TRUE
           e == [Idle EXCEPT !.at = "auth", !.stage = "sent", !.conv = conv]
<1>1. calls' = [base EXCEPT ![l] = e] /\ newest' = l
  BY DEF Refresh
<1>2. l \in Lookups /\ l \in Callers /\ l \notin Clicks
  <2>1. \E c \in Free(Lookups) : TRUE
    BY DEF Refresh
  <2>2. l \in Free(Lookups)
    BY <2>1
  <2> QED
    BY <2>2, PanelAssumption DEF Free
<1>3. e \in LookupCall /\ e.at = "auth" /\ e.conv = conv
  <2>1. e \in Call /\ e.at = "auth" /\ e.conv = conv
    BY IdleCall DEF Call, LookupAt
  <2> HIDE DEF e
  <2> QED
    BY <2>1 DEF LookupCall, LookupAt
<1> HIDE DEF l, e
<1>4. calls' \in CallsOK
  <2>1. e \in Call
    BY <1>3 DEF LookupCall
  <2> QED
    BY <1>1, <1>2, <1>3, <2>1, PanelAssumption DEF CallsOK
<1>5. calls'[l] = e
  BY <1>1, <1>2 DEF CallsOK
<1> QED
  BY <1>1, <1>2, <1>3, <1>4, <1>5 DEF CallsOK

-----------------------------------------------------------------------------
(* What a step leaves of the newest lookup *)

\* A new one about what is then the current conversation.
LEMMA RefreshedCurrent ==
    ASSUME Inv, NEW base \in CallsOK, Refresh(base, current'), current' \in Conv
    PROVE  calls' \in CallsOK /\ newest' \in Lookups /\ NewestCurrent'
<1>1. /\ calls' \in CallsOK /\ newest' \in Lookups
      /\ calls'[newest'].at = "auth" /\ calls'[newest'].conv = current'
  BY Refreshed
<1> QED
  BY <1>1 DEF NewestCurrent

\* A call that goes on as it was.
LEMMA SameCall ==
    ASSUME Inv, NEW c \in Callers, NEW e \in Call, calls' = [calls EXCEPT ![c] = e],
           e.at = calls[c].at, e.conv = calls[c].conv, e.phone = calls[c].phone,
           UNCHANGED <<current, newest, shown>>
    PROVE  calls' \in CallsOK /\ NewestCurrent'
<1>1. calls \in CallsOK /\ newest \in Lookups /\ newest \in Callers
  BY PanelAssumption DEF Inv, PanelOK
<1>2. calls' \in CallsOK
  BY <1>1, PanelAssumption DEF CallsOK, LookupCall, ClickCall
<1>3. \A d \in Callers : d # c => calls'[d] = calls[d]
  BY <1>1 DEF CallsOK
<1>4. calls'[newest].at = calls[newest].at /\ calls'[newest].conv = calls[newest].conv
  BY <1>1, <1>3 DEF CallsOK
<1>5. NewestCurrent'
  BY <1>4 DEF Inv, NewestCurrent
<1> QED
  BY <1>2, <1>5

\* A click goes on or ends; a lead or a form stays what it is.
LEMMA ClickGoesOn ==
    ASSUME Inv, NEW k \in Clicks, NEW e \in ClickCall, calls' = [calls EXCEPT ![k] = e],
           UNCHANGED <<current, newest>>, shown'.kind = shown.kind, shown'.phone = shown.phone
    PROVE  calls' \in CallsOK /\ NewestCurrent'
<1>1. /\ calls \in CallsOK /\ newest \in Callers /\ newest # k /\ k \in Callers /\ k \notin Lookups
      /\ e \in Call
  BY PanelAssumption DEF Inv, PanelOK, ClickCall
<1>2. calls' \in CallsOK /\ \A d \in Callers : d # k => calls'[d] = calls[d]
  BY <1>1, PanelAssumption DEF CallsOK
<1>3. NewestCurrent'
  BY <1>1, <1>2 DEF Inv, NewestCurrent, Answers
<1> QED
  BY <1>2, <1>3

\* A lookup goes on; only the newest may say that it is loading.
LEMMA LookupGoesOn ==
    ASSUME Inv, NEW l \in Lookups, NEW e \in LookupCall, calls' = [calls EXCEPT ![l] = e],
           e.at # "idle", calls[l].at # "idle", e.conv = calls[l].conv,
           UNCHANGED <<current, newest>>,
           shown' = shown \/ (l = newest /\ shown' \in Views)
    PROVE  calls' \in CallsOK /\ NewestCurrent' /\ shown' \in Views
<1>1. /\ calls \in CallsOK /\ newest \in Callers /\ l \in Callers /\ l \notin Clicks
      /\ e \in Call
  BY PanelAssumption DEF Inv, PanelOK, LookupCall
<1>2. calls' \in CallsOK /\ calls'[l] = e /\ \A d \in Callers : d # l => calls'[d] = calls[d]
  BY <1>1, PanelAssumption DEF CallsOK
<1>3. NewestCurrent'
  BY <1>1, <1>2 DEF Inv, NewestCurrent
<1> QED
  BY <1>2, <1>3 DEF Inv, PanelOK

\* A lookup ends with a view that answers it.
LEMMA LookupEnds ==
    ASSUME Inv, NEW l \in Lookups, calls[l].at # "idle", NEW v \in Views,
           l = newest => Answers(v, calls[l].conv),
           End(l), shown' = IF l = newest THEN v ELSE shown, UNCHANGED <<current, newest>>
    PROVE  calls' \in CallsOK /\ NewestCurrent' /\ shown' \in Views
<1>1. calls \in CallsOK /\ newest \in Callers /\ l \in Callers /\ l \notin Clicks
  BY PanelAssumption DEF Inv, PanelOK
<1>2. calls' \in CallsOK /\ calls'[l] = Idle /\ \A d \in Callers : d # l => calls'[d] = calls[d]
  BY <1>1, PanelAssumption, IdleCall DEF CallsOK, End
<1>3. CASE l = newest
  <2>1. calls[newest].conv = current /\ calls'[newest'].at = "idle"
    BY <1>2, <1>3, IdleCall DEF Inv, NewestCurrent
  <2>2. Answers(v, current) /\ shown' = v
    BY <1>3, <2>1
  <2>3. NewestCurrent'
    BY <2>1, <2>2 DEF NewestCurrent
  <2> QED
    BY <1>2, <2>2, <2>3
<1>4. CASE l # newest
  BY <1>1, <1>2, <1>4 DEF Inv, NewestCurrent, PanelOK
<1> QED
  BY <1>3, <1>4

-----------------------------------------------------------------------------
(* The background *)

LEMMA Removes ==
    ASSUME BackgroundOK, RemoveSession, UNCHANGED <<popup, account>>
    PROVE  BackgroundOK'
<1>1. notices' \in Nat
  BY DEF BackgroundOK, RemoveSession
<1>2. session' \in Users \cup {None} /\ aged' \in BOOLEAN
  BY DEF BackgroundOK, RemoveSession
<1> QED
  BY <1>1, <1>2 DEF BackgroundOK

LEMMA Answered ==
    ASSUME BackgroundOK, NEW c, Fails(c) \/ Succeeds(c)
    PROVE  BackgroundOK'
<1>1. CASE UNCHANGED background
  BY <1>1 DEF BackgroundOK, background
<1>2. CASE RemoveSession /\ UNCHANGED <<popup, account>>
  BY <1>2, Removes
<1>3. UNCHANGED background \/ (RemoveSession /\ UNCHANGED <<popup, account>>)
  BY DEF Fails, Succeeds, background, store
<1> QED
  BY <1>1, <1>2, <1>3

LEMMA EventCounted ==
    ASSUME events \in 0..MaxEvents, Event
    PROVE  events' \in 0..MaxEvents
BY BackgroundAssumption DEF Event

\* The popup logs in and out; nothing of the panel changes with it.
LEMMA PopupKeeps ==
    ASSUME Inv, Popup, UNCHANGED <<surface, catalogs, newest, shown, crm>>
    PROVE  Inv'
<1>1. BackgroundOK /\ events \in 0..MaxEvents
  BY DEF Inv
<1>2. ASSUME NEW u \in Users, Login(u)
      PROVE  BackgroundOK' /\ events' \in 0..MaxEvents /\ calls' = calls
  BY <1>1, <1>2, EventCounted DEF Login, BackgroundOK, store
<1>3. ASSUME LoginAnswered
      PROVE  BackgroundOK' /\ events' \in 0..MaxEvents /\ calls' = calls
  BY <1>1, <1>3 DEF LoginAnswered, BackgroundOK, store
<1>4. ASSUME MeAnswered
      PROVE  BackgroundOK' /\ events' \in 0..MaxEvents /\ calls' = calls
  <2>1. CASE SetSession(account)
    <3>1. notices' \in Nat
      BY <1>1, <2>1 DEF BackgroundOK, SetSession
    <3>2. session' \in Users \cup {None} /\ aged' \in BOOLEAN
      BY <1>1, <2>1 DEF BackgroundOK, SetSession
    <3> QED
      BY <1>1, <1>4, <3>1, <3>2 DEF MeAnswered, BackgroundOK
  <2>2. CASE UNCHANGED store
    BY <1>1, <1>4, <2>2 DEF MeAnswered, BackgroundOK, store
  <2> QED
    BY <1>4, <2>1, <2>2 DEF MeAnswered
<1>5. ASSUME Logout
      PROVE  BackgroundOK' /\ events' \in 0..MaxEvents /\ calls' = calls
  BY <1>1, <1>5, EventCounted, Removes DEF Logout
<1>6. ASSUME Expire
      PROVE  BackgroundOK' /\ events' \in 0..MaxEvents /\ calls' = calls
  BY <1>1, <1>6, EventCounted DEF Expire, BackgroundOK
<1>7. BackgroundOK' /\ events' \in 0..MaxEvents /\ calls' = calls
  BY <1>2, <1>3, <1>4, <1>5, <1>6 DEF Popup
<1> QED
  BY <1>7 DEF Inv, SurfaceOK, PanelOK, CrmOK, NewestCurrent, surface, crm

\* The service worker reads the session for a message.
LEMMA WorkerKeeps ==
    ASSUME Inv, NEW c \in Callers, Worker(c), UNCHANGED <<surface, catalogs, newest, shown, crm>>
    PROVE  Inv'
<1>1. calls \in [Callers -> Call] /\ calls[c] \in Call /\ BackgroundOK
  BY DEF Inv, CallsOK
<1>2. PICK e \in Call : /\ calls' = [calls EXCEPT ![c] = e]
                        /\ e.at = calls[c].at /\ e.conv = calls[c].conv /\ e.phone = calls[c].phone
  <2>1. CASE GetSession(c)
    <3>1. CASE session # None /\ aged
      <4> DEFINE e == [calls[c] EXCEPT !.stage = "removing"]
      <4>1. /\ e \in Call /\ e.at = calls[c].at /\ e.conv = calls[c].conv
            /\ e.phone = calls[c].phone
        BY <1>1 DEF Call
      <4>2. calls' = [calls EXCEPT ![c] = e]
        BY <1>1, <2>1, <3>1 DEF GetSession
      <4> QED
        BY <4>1, <4>2
    <3>2. CASE ~(session # None /\ aged)
      <4> DEFINE e == [calls[c] EXCEPT !.stage = "served", !.user = session]
      <4>1. /\ e \in Call /\ e.at = calls[c].at /\ e.conv = calls[c].conv
            /\ e.phone = calls[c].phone
        BY <1>1 DEF Call, BackgroundOK
      <4>2. calls' = [calls EXCEPT ![c] = e]
        BY <1>1, <2>1, <3>2 DEF GetSession
      <4> QED
        BY <4>1, <4>2
    <3> QED
      BY <3>1, <3>2
  <2>2. CASE RemoveExpired(c)
    <3> DEFINE e == [calls[c] EXCEPT !.stage = "served"]
    <3>1. /\ e \in Call /\ e.at = calls[c].at /\ e.conv = calls[c].conv
          /\ e.phone = calls[c].phone
      BY <1>1 DEF Call
    <3>2. calls' = [calls EXCEPT ![c] = e]
      BY <1>1, <2>2 DEF RemoveExpired
    <3> QED
      BY <3>1, <3>2
  <2> QED
    BY <2>1, <2>2 DEF Worker
<1>3. UNCHANGED <<current, newest, shown>>
  BY DEF surface
<1>4. calls' \in CallsOK /\ NewestCurrent'
  BY <1>2, <1>3, SameCall
<1>5. BackgroundOK' /\ events' = events
  <2>1. CASE GetSession(c)
    BY <1>1, <2>1 DEF GetSession, BackgroundOK, background
  <2>2. CASE RemoveExpired(c)
    BY <1>1, <2>2, Removes DEF RemoveExpired
  <2> QED
    BY <2>1, <2>2 DEF Worker
<1> QED
  BY <1>4, <1>5 DEF Inv, SurfaceOK, PanelOK, CrmOK, surface, crm

-----------------------------------------------------------------------------
(* What starts a lookup *)

LEMMA SwitchChatKeeps ==
    ASSUME Inv, NEW chat \in Chats \cup {None}, SwitchChat(chat)
    PROVE  Inv'
<1>1. /\ UNCHANGED <<background, calls, polled, current, catalogs, newest, shown, crm>>
      /\ open' \in Chats \cup {None} /\ events' \in 0..MaxEvents
  BY EventCounted DEF SwitchChat, Inv
<1> QED
  BY <1>1 DEF Inv, BackgroundOK, SurfaceOK, PanelOK, CrmOK, NewestCurrent, background, crm

LEMMA PollKeeps ==
    ASSUME Inv, Poll
    PROVE  Inv'
<1>1. /\ UNCHANGED <<background, events, open, catalogs, shown, crm>>
      /\ polled' = open /\ current' = Reading(open) /\ Refresh(calls, current')
  BY DEF Poll
<1>2. /\ open \in Chats \cup {None} /\ calls \in CallsOK
  BY DEF Inv, SurfaceOK
<1>3. /\ current' \in Conv /\ current'.chat = open
      /\ open \in Chats => current'.phone = PhoneOf[open]
  BY <1>1, <1>2, ReadingConv
<1>4. calls' \in CallsOK /\ newest' \in Lookups /\ NewestCurrent'
  BY <1>1, <1>2, <1>3, RefreshedCurrent
<1> QED
  BY <1>1, <1>3, <1>4 DEF Inv, BackgroundOK, SurfaceOK, PanelOK, CrmOK, background, crm

LEMMA StorageChangedKeeps ==
    ASSUME Inv, StorageChanged
    PROVE  Inv'
<1>1. /\ UNCHANGED <<session, aged, popup, account, events, surface, shown, crm>>
      /\ notices > 0 /\ notices' = notices - 1 /\ catalogs' = None /\ Refresh(calls, current)
  BY DEF StorageChanged
<1>2. calls \in CallsOK /\ current \in Conv /\ current' = current
  BY <1>1 DEF Inv, SurfaceOK, surface
<1>3. calls' \in CallsOK /\ newest' \in Lookups /\ NewestCurrent'
  BY <1>1, <1>2, RefreshedCurrent
<1> QED
  BY <1>1, <1>3 DEF Inv, BackgroundOK, SurfaceOK, PanelOK, CrmOK, surface, crm

-----------------------------------------------------------------------------
(* The steps of a lookup *)

LEMMA ViewOf ==
    ASSUME NEW kind \in Kinds
    PROVE  /\ View(kind) \in Views /\ View(kind).kind = kind /\ View(kind).phone = None
BY DEF View, Views

LEMMA CreateViewOf ==
    ASSUME NEW phone \in Phones \cup {None}
    PROVE  /\ CreateView(phone) \in Views /\ CreateView(phone).kind = "create"
           /\ CreateView(phone).phone = phone
BY DEF CreateView, View, Views, Kinds

LEMMA LeadViewOf ==
    ASSUME NEW e \in Call
    PROVE  /\ LeadView(e) \in Views /\ LeadView(e).kind = "lead"
           /\ LeadView(e).phone = e.conv.phone
BY DEF LeadView, View, Views, Kinds, Call, Conv

LEMMA OffersOf ==
    ASSUME NEW d
    PROVE  Offers(d) \in SUBSET Buttons
BY DEF Offers, Buttons

\* What is known of a lookup that is under way.
LEMMA LookupThere ==
    ASSUME Inv, NEW l \in Lookups, NEW at \in LookupAt, Served(l, at)
    PROVE  /\ calls[l] \in LookupCall /\ calls[l] \in Call /\ calls[l].at = at
           /\ calls[l].at # "idle" /\ calls[l].conv \in Conv /\ l \in Callers
<1>1. calls[l] \in LookupCall /\ l \in Callers /\ calls[l].at = at
  BY PanelAssumption DEF Inv, CallsOK, Served
<1>2. calls[l] \in Call
  BY <1>1 DEF LookupCall
<1> QED
  BY <1>1, <1>2 DEF Call, LookupAt

\* What the steps of a lookup keep of the invariant.
CallsStep == calls' \in CallsOK /\ NewestCurrent' /\ shown' \in Views

\* A lookup that ends with a view that speaks of no chat.
LEMMA EndsPlain ==
    ASSUME Inv, NEW l \in Lookups, calls[l].at # "idle", NEW kind \in {"loggedOut", "error"},
           Render(l, View(kind)), UNCHANGED <<current, newest>>
    PROVE  CallsStep
<1>1. /\ View(kind) \in Views /\ View(kind).kind = kind /\ kind \in Kinds
  BY ViewOf DEF Kinds
<1>2. Answers(View(kind), calls[l].conv)
  BY <1>1 DEF Answers
<1> QED
  BY <1>1, <1>2, LookupEnds DEF Render, CallsStep

\* A lookup that ends with a view it was about.
LEMMA EndsAnswered ==
    ASSUME Inv, NEW l \in Lookups, calls[l].at # "idle", NEW v \in Views,
           l = newest => Answers(v, calls[l].conv),
           Render(l, v), UNCHANGED <<current, newest>>
    PROVE  CallsStep
BY LookupEnds DEF Render, CallsStep

\* A lookup that is overtaken ends in silence.
LEMMA EndsOvertaken ==
    ASSUME Inv, NEW l \in Lookups, calls[l].at # "idle", l # newest, End(l),
           UNCHANGED <<shown, current, newest>>
    PROVE  CallsStep
<1>1. shown \in Views /\ shown' = IF l = newest THEN shown ELSE shown
  BY DEF Inv, PanelOK
<1> QED
  BY <1>1, LookupEnds DEF CallsStep

\* A lookup that sends its next request.
LEMMA GoesOn ==
    ASSUME Inv, NEW l \in Lookups, NEW from \in LookupAt, Served(l, from),
           NEW at \in LookupAt \ {"auth"}, Go(l, at), UNCHANGED <<current, newest>>,
           shown' = shown \/ (l = newest /\ shown' \in Views),
           calls[l].conv.chat \in Chats \ Groups,
           at \in {"search", "deals", "activities"} => calls[l].conv.phone # None
    PROVE  CallsStep
<1>1. calls[l] \in Call /\ calls[l].at # "idle" /\ l \in Callers
  BY LookupThere
<1> DEFINE e == Await(l, at)
<1>2. e \in Call /\ e.at = at /\ e.conv = calls[l].conv
  BY <1>1, AwaitCall, Zenon
<1>3. calls' = [calls EXCEPT ![l] = e]
  BY DEF Go
<1> HIDE DEF e
<1>4. e \in LookupCall /\ e.at # "idle"
  BY <1>2 DEF LookupCall, LookupAt
<1> QED
  BY <1>1, <1>2, <1>3, <1>4, LookupGoesOn DEF CallsStep

\* After the catalogs.
LEMMA AfterCatalogsKeeps ==
    ASSUME Inv, NEW l \in Lookups, NEW from \in LookupAt, Served(l, from), l = newest,
           AfterCatalogs(l), UNCHANGED <<current, newest>>, calls[l].conv.chat \in Chats \ Groups
    PROVE  CallsStep
<1>1. calls[l] \in Call /\ calls[l].at # "idle" /\ l \in Callers /\ calls[l].conv \in Conv
  BY LookupThere
<1>2. CASE calls[l].conv.phone = None
  <2>1. /\ CreateView(None) \in Views /\ CreateView(None).kind = "create"
        /\ CreateView(None).phone = None
    BY CreateViewOf
  <2>2. Answers(CreateView(None), calls[l].conv)
    BY <1>2, <2>1 DEF Answers
  <2> QED
    BY <1>1, <1>2, <2>1, <2>2, EndsAnswered DEF AfterCatalogs
<1>3. CASE calls[l].conv.phone # None
  <2>1. Go(l, "search") /\ shown' = View("loading") /\ View("loading") \in Views
    BY <1>3, ViewOf DEF AfterCatalogs, Kinds
  <2>2. "search" \in LookupAt \ {"auth"}
    BY DEF LookupAt
  <2> QED
    BY <1>3, <2>1, <2>2, GoesOn
<1> QED
  BY <1>2, <1>3

LEMMA AuthServedKeeps ==
    ASSUME Inv, NEW l \in Lookups, AuthServed(l)
    PROVE  Inv'
<1>1. UNCHANGED <<background, events, surface, catalogs, newest, crm>> /\ Served(l, "auth")
  BY DEF AuthServed
<1>2. UNCHANGED <<current, newest>> /\ "auth" \in LookupAt
  BY <1>1 DEF surface, LookupAt
<1>3. calls[l] \in Call /\ calls[l].at # "idle" /\ l \in Callers /\ calls[l].conv \in Conv
  BY <1>1, <1>2, LookupThere
<1>4. ASSUME Render(l, View("loggedOut")) PROVE CallsStep
  BY <1>2, <1>3, <1>4, EndsPlain
<1>5. ASSUME l # newest /\ End(l) /\ UNCHANGED shown PROVE CallsStep
  BY <1>2, <1>3, <1>5, EndsOvertaken
<1>6. ASSUME l = newest /\ Answer(l) PROVE CallsStep
  <2> DEFINE conv == calls[l].conv
  <2>1. CASE conv.chat = None
    <3>1. View("noConversation") \in Views /\ View("noConversation").kind = "noConversation"
      BY ViewOf DEF Kinds
    <3>2. Answers(View("noConversation"), conv) /\ Render(l, View("noConversation"))
      BY <1>6, <2>1, <3>1 DEF Answers, Answer
    <3> QED
      BY <1>2, <1>3, <3>1, <3>2, EndsAnswered
  <2>2. CASE conv.chat # None /\ conv.chat \in Groups
    <3>1. View("group") \in Views /\ View("group").kind = "group"
      BY ViewOf DEF Kinds
    <3>2. Answers(View("group"), conv) /\ Render(l, View("group"))
      BY <1>6, <2>2, <3>1 DEF Answers, Answer
    <3> QED
      BY <1>2, <1>3, <3>1, <3>2, EndsAnswered
  <2>3. CASE conv.chat # None /\ conv.chat \notin Groups
    <3>1. conv.chat \in Chats \ Groups
      BY <1>3, <2>3 DEF Conv
    <3>2. CASE catalogs = None
      <4>1. Go(l, "catalogs") /\ shown' = View("loading") /\ View("loading") \in Views
        BY <1>6, <2>3, <3>2, ViewOf DEF Answer, Kinds
      <4>2. "catalogs" \in LookupAt \ {"auth"}
        BY DEF LookupAt
      <4> QED
        BY <1>1, <1>2, <1>6, <3>1, <4>1, <4>2, GoesOn
    <3>3. CASE catalogs # None
      <4>1. AfterCatalogs(l)
        BY <1>6, <2>3, <3>3 DEF Answer
      <4> QED
        BY <1>1, <1>2, <1>6, <3>1, <4>1, AfterCatalogsKeeps
    <3> QED
      BY <3>2, <3>3
  <2> QED
    BY <2>1, <2>2, <2>3
<1>7. CallsStep
  BY <1>4, <1>5, <1>6 DEF AuthServed
<1> QED
  BY <1>1, <1>7 DEF Inv, BackgroundOK, SurfaceOK, PanelOK, CrmOK, CallsStep, background,
                    surface, crm

LEMMA CatalogsServedKeeps ==
    ASSUME Inv, NEW l \in Lookups, CatalogsServed(l)
    PROVE  Inv'
<1>1. UNCHANGED <<events, surface, newest, crm>> /\ Served(l, "catalogs")
  BY DEF CatalogsServed
<1>2. UNCHANGED <<current, newest>> /\ "catalogs" \in LookupAt
  BY <1>1 DEF surface, LookupAt
<1>3. /\ calls[l] \in LookupCall /\ calls[l] \in Call /\ calls[l].at = "catalogs"
      /\ calls[l].at # "idle" /\ l \in Callers
  BY <1>1, <1>2, LookupThere
<1>4. calls[l].conv.chat \in Chats \ Groups /\ calls[l].user \in Users \cup {None}
  BY <1>3 DEF LookupCall, LookupAt, Call
<1>5. ASSUME l = newest, AfterCatalogs(l) PROVE CallsStep
  BY <1>1, <1>2, <1>4, <1>5, AfterCatalogsKeeps
<1>6. ASSUME l # newest, End(l), UNCHANGED shown PROVE CallsStep
  BY <1>2, <1>3, <1>6, EndsOvertaken
<1>7. ASSUME Render(l, View("error")) PROVE CallsStep
  BY <1>2, <1>3, <1>7, EndsPlain
<1>8. CallsStep /\ catalogs' \in Users \cup {None}
  BY <1>4, <1>5, <1>6, <1>7 DEF CatalogsServed, Inv, PanelOK
<1>9. BackgroundOK'
  BY Answered DEF CatalogsServed, Inv
<1> QED
  BY <1>1, <1>8, <1>9 DEF Inv, SurfaceOK, PanelOK, CrmOK, CallsStep, surface, crm

LEMMA SearchServedKeeps ==
    ASSUME Inv, NEW l \in Lookups, SearchServed(l)
    PROVE  Inv'
<1>1. UNCHANGED <<events, surface, catalogs, newest, crm>> /\ Served(l, "search")
  BY DEF SearchServed
<1>2. UNCHANGED <<current, newest>> /\ "search" \in LookupAt
  BY <1>1 DEF surface, LookupAt
<1>3. /\ calls[l] \in LookupCall /\ calls[l] \in Call /\ calls[l].at = "search"
      /\ calls[l].at # "idle" /\ l \in Callers /\ calls[l].conv \in Conv
  BY <1>1, <1>2, LookupThere
<1>4. calls[l].conv.chat \in Chats \ Groups /\ calls[l].conv.phone # None
  BY <1>3 DEF LookupCall, LookupAt
<1>5. ASSUME Go(l, "deals"), UNCHANGED shown PROVE CallsStep
  <2>1. "deals" \in LookupAt \ {"auth"}
    BY DEF LookupAt
  <2> QED
    BY <1>1, <1>2, <1>4, <1>5, <2>1, GoesOn
<1>6. ASSUME Render(l, CreateView(calls[l].conv.phone)) PROVE CallsStep
  <2> DEFINE v == CreateView(calls[l].conv.phone)
  <2>1. calls[l].conv.phone \in Phones \cup {None}
    BY <1>3 DEF Conv
  <2>2. v \in Views /\ v.kind = "create" /\ v.phone = calls[l].conv.phone
    BY <2>1, CreateViewOf
  <2>3. Answers(v, calls[l].conv)
    BY <1>4, <2>2 DEF Answers
  <2> QED
    BY <1>2, <1>3, <1>6, <2>2, <2>3, EndsAnswered
<1>7. ASSUME Render(l, View("error")) PROVE CallsStep
  BY <1>2, <1>3, <1>7, EndsPlain
<1>8. CallsStep
  BY <1>5, <1>6, <1>7 DEF SearchServed
<1>9. BackgroundOK'
  BY Answered DEF SearchServed, Inv
<1> QED
  BY <1>1, <1>8, <1>9 DEF Inv, SurfaceOK, PanelOK, CrmOK, CallsStep, surface, crm

\* The card of a lead answers the lookup that gathered it.
LEMMA LeadAnswers ==
    ASSUME Inv, NEW l \in Lookups, calls[l].at # "idle", NEW e \in Call, e.conv = calls[l].conv,
           calls[l].conv.chat \in Chats \ Groups, Render(l, LeadView(e)),
           UNCHANGED <<current, newest>>
    PROVE  CallsStep
<1>1. /\ LeadView(e) \in Views /\ LeadView(e).kind = "lead"
      /\ LeadView(e).phone = calls[l].conv.phone
  BY LeadViewOf
<1>2. Answers(LeadView(e), calls[l].conv)
  BY <1>1 DEF Answers
<1> QED
  BY <1>1, <1>2, EndsAnswered

LEMMA DealsServedKeeps ==
    ASSUME Inv, NEW l \in Lookups, DealsServed(l)
    PROVE  Inv'
<1>1. UNCHANGED <<events, surface, catalogs, newest, crm>> /\ Served(l, "deals")
  BY DEF DealsServed
<1>2. UNCHANGED <<current, newest>> /\ "deals" \in LookupAt
  BY <1>1 DEF surface, LookupAt
<1>3. /\ calls[l] \in LookupCall /\ calls[l] \in Call /\ calls[l].at = "deals"
      /\ calls[l].at # "idle" /\ l \in Callers
  BY <1>1, <1>2, LookupThere
<1>4. calls[l].conv.chat \in Chats \ Groups /\ calls[l].conv.phone # None
  BY <1>3 DEF LookupCall, LookupAt
<1> DEFINE d == PickDeal(calls[l].conv.phone)
           found == [Await(l, "activities") EXCEPT !.deal = d, !.offers = Offers(d)]
<1>5. /\ found \in Call /\ found.at = "activities" /\ found.conv = calls[l].conv
  <2>1. d \in Nat \cup {None} /\ Offers(d) \in SUBSET Buttons
    BY PickedDeal, OffersOf DEF Inv
  <2>2. /\ Await(l, "activities") \in Call /\ Await(l, "activities").at = "activities"
        /\ Await(l, "activities").conv = calls[l].conv
    <3>1. "activities" \in LookupAt \cup ClickAt
      BY DEF LookupAt
    <3> QED
      BY <1>3, <3>1, AwaitCall, Zenon
  <2> HIDE DEF d
  <2> QED
    BY <2>1, <2>2 DEF Call
<1>6. \/ Succeeds(l) /\ d = None /\ Render(l, LeadView(found))
      \/ Succeeds(l) /\ d # None /\ calls' = [calls EXCEPT ![l] = found] /\ UNCHANGED shown
      \/ Fails(l) /\ Render(l, View("error"))
  BY <1>1 DEF DealsServed
<1> HIDE DEF d, found
<1>7. ASSUME Render(l, LeadView(found)) PROVE CallsStep
  BY <1>2, <1>3, <1>4, <1>5, <1>7, LeadAnswers
<1>8. ASSUME calls' = [calls EXCEPT ![l] = found], UNCHANGED shown PROVE CallsStep
  <2>1. found \in LookupCall /\ found.at # "idle"
    BY <1>4, <1>5 DEF LookupCall, LookupAt
  <2> QED
    BY <1>2, <1>3, <1>5, <1>8, <2>1, LookupGoesOn DEF CallsStep
<1>9. ASSUME Render(l, View("error")) PROVE CallsStep
  BY <1>2, <1>3, <1>9, EndsPlain
<1>10. CallsStep
  BY <1>6, <1>7, <1>8, <1>9
<1>11. BackgroundOK'
  BY <1>6, Answered DEF Inv
<1> QED
  BY <1>1, <1>10, <1>11 DEF Inv, SurfaceOK, PanelOK, CrmOK, CallsStep, surface, crm

LEMMA ActivitiesServedKeeps ==
    ASSUME Inv, NEW l \in Lookups, ActivitiesServed(l)
    PROVE  Inv'
<1>1. UNCHANGED <<events, surface, catalogs, newest, crm>> /\ Served(l, "activities")
      /\ Render(l, LeadView(calls[l]))
  BY DEF ActivitiesServed
<1>2. UNCHANGED <<current, newest>> /\ "activities" \in LookupAt
  BY <1>1 DEF surface, LookupAt
<1>3. /\ calls[l] \in LookupCall /\ calls[l] \in Call /\ calls[l].at = "activities"
      /\ calls[l].at # "idle" /\ l \in Callers
  BY <1>1, <1>2, LookupThere
<1>4. calls[l].conv.chat \in Chats \ Groups
  BY <1>3 DEF LookupCall, LookupAt
<1>5. CallsStep
  BY <1>1, <1>2, <1>3, <1>4, LeadAnswers
<1>6. BackgroundOK'
  BY Answered DEF ActivitiesServed, Inv
<1> QED
  BY <1>1, <1>5, <1>6 DEF Inv, SurfaceOK, PanelOK, CrmOK, CallsStep, surface, crm

-----------------------------------------------------------------------------
(* The steps of a click *)

LEMMA ClickThere ==
    ASSUME Inv, NEW k \in Clicks
    PROVE  calls[k] \in ClickCall /\ calls[k] \in Call /\ k \in Callers /\ k \notin Lookups
<1>1. calls[k] \in ClickCall /\ k \in Callers /\ k \notin Lookups
  BY PanelAssumption DEF Inv, CallsOK
<1> QED
  BY <1>1 DEF ClickCall

\* A click that leaves the card and the form as they are.
ClickStep == calls' \in CallsOK /\ newest' \in Lookups /\ NewestCurrent'

LEMMA ClickEnds ==
    ASSUME Inv, NEW k \in Clicks, End(k), UNCHANGED <<current, newest, shown>>
    PROVE  ClickStep
<1>1. calls' = [calls EXCEPT ![k] = Idle] /\ Idle \in ClickCall
  BY IdleCall DEF End
<1> QED
  BY <1>1, ClickGoesOn DEF ClickStep, Inv, PanelOK

LEMMA ClickSends ==
    ASSUME Inv, NEW k \in Clicks, NEW at \in ClickAt, Go(k, at),
           UNCHANGED <<current, newest, shown>>, at \in PhoneAt => calls[k].phone \in Phones
    PROVE  ClickStep
<1> DEFINE e == Await(k, at)
<1>1. calls[k] \in Call /\ k \in Callers
  BY ClickThere
<1>2. e \in Call /\ e.at = at /\ e.phone = calls[k].phone
  BY <1>1, AwaitCall, Zenon
<1>3. calls' = [calls EXCEPT ![k] = e]
  BY DEF Go
<1> HIDE DEF e
<1>4. e \in ClickCall
  BY <1>2 DEF ClickCall
<1> QED
  BY <1>3, <1>4, ClickGoesOn DEF ClickStep, Inv, PanelOK

LEMMA ClickRefreshes ==
    ASSUME Inv, NEW k \in Clicks, EndRefreshing(k, current'), current' \in Conv
    PROVE  ClickStep
<1> DEFINE base == [calls EXCEPT ![k] = Idle]
<1>1. calls \in CallsOK /\ k \in Callers /\ k \notin Lookups
  BY ClickThere DEF Inv
<1>2. base \in CallsOK
  BY <1>1, IdleCall, PanelAssumption DEF CallsOK
<1>3. Refresh(base, current')
  BY DEF EndRefreshing
<1> HIDE DEF base
<1> QED
  BY <1>2, <1>3, RefreshedCurrent DEF ClickStep

\* A click that starts with a record of its own.
LEMMA ClickStarts ==
    ASSUME Inv, NEW k \in Clicks, NEW e \in ClickCall, calls' = [calls EXCEPT ![k] = e],
           UNCHANGED <<current, newest>>, shown'.kind = shown.kind, shown'.phone = shown.phone
    PROVE  ClickStep
BY ClickGoesOn DEF ClickStep, Inv, PanelOK

LEMMA PressKeeps ==
    ASSUME Inv, NEW k \in Clicks, NEW act \in {"log", "schedule", "firstContact"}, Press(k, act)
    PROVE  Inv'
<1> DEFINE e == [Idle EXCEPT !.at = "find", !.stage = "sent", !.act = act, !.conv = current,
                             !.seen = shown.phone]
<1>1. /\ UNCHANGED <<background, surface, catalogs, newest, shown, crm>>
      /\ calls' = [calls EXCEPT ![k] = e] /\ Event
  BY DEF Press
<1>2. current \in Conv /\ shown.phone \in Phones \cup {None} /\ act \in Buttons
  BY DEF Inv, SurfaceOK, PanelOK, Views, Buttons
<1>3. e \in Call /\ e.at = "find"
  BY <1>2, IdleCall DEF Call, ClickAt
<1> HIDE DEF e
<1>4. e \in ClickCall
  BY <1>3 DEF ClickCall, ClickAt, PhoneAt
<1>5. ClickStep
  BY <1>1, <1>4, ClickStarts DEF surface
<1>6. events' \in 0..MaxEvents
  BY <1>1, EventCounted DEF Inv
<1> QED
  BY <1>1, <1>5, <1>6 DEF Inv, BackgroundOK, SurfaceOK, PanelOK, CrmOK, ClickStep, background,
                          surface, crm

LEMMA SubmitCreateKeeps ==
    ASSUME Inv, NEW k \in Clicks, NEW typed \in Phones \cup {None}, SubmitCreate(k, typed)
    PROVE  Inv'
<1> DEFINE e == [Idle EXCEPT !.at = "contact", !.stage = "sent", !.phone = typed]
<1>1. /\ UNCHANGED <<background, surface, catalogs, crm>> /\ Event
      /\ shown' = [shown EXCEPT !.busy = TRUE]
  BY DEF SubmitCreate
<1>2. \/ Refresh(calls, current)
      \/ UNCHANGED <<calls, newest>>
      \/ typed # None /\ calls' = [calls EXCEPT ![k] = e] /\ UNCHANGED newest
  BY DEF SubmitCreate, ValidPhone
<1>3. shown' \in Views /\ shown'.kind = shown.kind /\ shown'.phone = shown.phone
  BY <1>1 DEF Inv, PanelOK, Views
<1>4. current \in Conv /\ current' = current /\ calls \in CallsOK
  BY <1>1 DEF Inv, SurfaceOK, surface
<1>5. ASSUME Refresh(calls, current) PROVE ClickStep
  BY <1>4, <1>5, RefreshedCurrent DEF ClickStep
<1>6. ASSUME UNCHANGED <<calls, newest>> PROVE ClickStep
  BY <1>3, <1>4, <1>6 DEF ClickStep, Inv, PanelOK, NewestCurrent, Answers
<1>7. ASSUME typed # None, calls' = [calls EXCEPT ![k] = e], UNCHANGED newest PROVE ClickStep
  <2>1. e \in Call /\ e.at = "contact" /\ e.phone \in Phones
    BY <1>7, IdleCall DEF Call, ClickAt, PhoneAt
  <2> HIDE DEF e
  <2>2. e \in ClickCall
    BY <2>1 DEF ClickCall, ClickAt, PhoneAt
  <2> QED
    BY <1>3, <1>4, <1>7, <2>2, ClickStarts
<1>8. ClickStep
  BY <1>2, <1>5, <1>6, <1>7
<1>9. events' \in 0..MaxEvents
  BY <1>1, EventCounted DEF Inv
<1> QED
  BY <1>1, <1>3, <1>8, <1>9 DEF Inv, BackgroundOK, SurfaceOK, PanelOK, CrmOK, ClickStep,
                                background, surface, crm

LEMMA PressCreateDealKeeps ==
    ASSUME Inv, NEW k \in Clicks, PressCreateDeal(k)
    PROVE  Inv'
<1> DEFINE e == [Idle EXCEPT !.at = "findContact", !.stage = "sent", !.phone = current.phone]
<1>1. /\ UNCHANGED <<background, surface, catalogs, newest, shown, crm>>
      /\ calls' = [calls EXCEPT ![k] = e] /\ Event /\ current.phone # None
  BY DEF PressCreateDeal
<1>2. current.phone \in Phones
  BY <1>1 DEF Inv, SurfaceOK, Conv
<1>3. e \in Call /\ e.at = "findContact" /\ e.phone \in Phones
  BY <1>2, IdleCall DEF Call, ClickAt, PhoneAt
<1> HIDE DEF e
<1>4. e \in ClickCall
  BY <1>3 DEF ClickCall, ClickAt, PhoneAt
<1>5. ClickStep
  BY <1>1, <1>4, ClickStarts DEF surface
<1>6. events' \in 0..MaxEvents
  BY <1>1, EventCounted DEF Inv
<1> QED
  BY <1>1, <1>5, <1>6 DEF Inv, BackgroundOK, SurfaceOK, PanelOK, CrmOK, ClickStep, background,
                          surface, crm

LEMMA FindServedKeeps ==
    ASSUME Inv, NEW k \in Clicks, FindServed(k)
    PROVE  Inv'
<1>1. UNCHANGED <<events, surface, catalogs, newest, shown, crm>>
  BY DEF FindServed
<1>2. ASSUME Go(k, "findDeal") PROVE ClickStep
  <2>1. "findDeal" \in ClickAt /\ "findDeal" \notin PhoneAt
    BY DEF ClickAt, PhoneAt
  <2> QED
    BY <1>1, <1>2, <2>1, ClickSends DEF surface
<1>3. ASSUME End(k) PROVE ClickStep
  BY <1>1, <1>3, ClickEnds DEF surface
<1>4. ClickStep
  BY <1>2, <1>3 DEF FindServed
<1>5. BackgroundOK'
  BY Answered DEF FindServed, Inv
<1> QED
  BY <1>1, <1>4, <1>5 DEF Inv, SurfaceOK, PanelOK, CrmOK, ClickStep, surface, crm

LEMMA FindDealServedKeeps ==
    ASSUME Inv, NEW k \in Clicks, FindDealServed(k)
    PROVE  Inv'
<1> DEFINE d == PickDeal(calls[k].conv.phone)
           e == [Await(k, "write") EXCEPT !.deal = d]
<1>1. UNCHANGED <<events, surface, catalogs, newest, shown, crm>>
  BY DEF FindDealServed
<1>2. /\ \/ calls' = [calls EXCEPT ![k] = e]
         \/ End(k)
      /\ Succeeds(k) \/ Fails(k)
  BY DEF FindDealServed
<1>3. e \in Call /\ e.at = "write"
  <2>1. d \in Nat \cup {None}
    BY PickedDeal DEF Inv
  <2>2. "write" \in LookupAt \cup ClickAt
    BY DEF ClickAt
  <2>3. Await(k, "write") \in Call /\ Await(k, "write").at = "write"
    BY <2>2, ClickThere, AwaitCall
  <2> HIDE DEF d
  <2> QED
    BY <2>1, <2>3 DEF Call
<1> HIDE DEF e, d
<1>4. e \in ClickCall
  BY <1>3 DEF ClickCall, ClickAt, PhoneAt
<1>5. ASSUME calls' = [calls EXCEPT ![k] = e] PROVE ClickStep
  BY <1>1, <1>4, <1>5, ClickStarts DEF surface
<1>6. ASSUME End(k) PROVE ClickStep
  BY <1>1, <1>6, ClickEnds DEF surface
<1>7. ClickStep
  BY <1>2, <1>5, <1>6
<1>8. BackgroundOK'
  BY <1>2, Answered DEF Inv
<1> QED
  BY <1>1, <1>7, <1>8 DEF Inv, SurfaceOK, PanelOK, CrmOK, ClickStep, surface, crm

LEMMA WriteServedKeeps ==
    ASSUME Inv, NEW k \in Clicks, WriteServed(k)
    PROVE  Inv'
<1>1. UNCHANGED <<events, surface, catalogs, shown, contacts>>
  BY DEF WriteServed
<1>2. \/ Succeeds(k) /\ EndRefreshing(k, current)
      \/ Fails(k) /\ End(k) /\ UNCHANGED newest
  BY DEF WriteServed
<1>3. current \in Conv /\ current' = current
  BY <1>1 DEF Inv, SurfaceOK, surface
<1>4. ASSUME EndRefreshing(k, current) PROVE ClickStep
  BY <1>3, <1>4, ClickRefreshes
<1>5. ASSUME End(k), UNCHANGED newest PROVE ClickStep
  BY <1>1, <1>3, <1>5, ClickEnds
<1>6. ClickStep
  BY <1>2, <1>4, <1>5
<1>7. BackgroundOK'
  BY <1>2, Answered DEF Inv
<1>8. deals' \in Seq(Deal)
  <2>1. deals \in Seq(Deal) /\ Len(deals) \in Nat /\ DOMAIN deals = 1..Len(deals)
    BY LenProperties DEF Inv, CrmOK
  <2>2. \A d \in 1..Len(deals) : deals[d] \in Deal
    BY <2>1, ElementOfSeq
  <2>3. CASE deals' = deals
    BY <2>1, <2>3
  <2>4. CASE deals' = [deals EXCEPT ![calls[k].deal].contacted = TRUE]
    <3>1. DOMAIN deals' = 1..Len(deals) /\ deals' = [d \in 1..Len(deals) |-> deals'[d]]
      BY <2>1, <2>4
    <3>2. ASSUME NEW d \in 1..Len(deals) PROVE deals'[d] \in Deal
      <4>1. \/ deals'[d] = deals[d]
            \/ deals'[d] = [deals[d] EXCEPT !.contacted = TRUE]
        BY <2>1, <2>4
      <4>2. [deals[d] EXCEPT !.contacted = TRUE] \in Deal
        BY <2>2 DEF Deal
      <4> QED
        BY <2>2, <4>1, <4>2
    <3> QED
      BY <2>1, <3>1, <3>2
  <2> QED
    BY <2>3, <2>4 DEF WriteServed
<1> QED
  BY <1>1, <1>6, <1>7, <1>8 DEF Inv, SurfaceOK, PanelOK, CrmOK, ClickStep, surface

LEMMA DealAdded ==
    ASSUME deals \in Seq(Deal), NEW phone \in Phones, NewDeal(phone)
    PROVE  deals' \in Seq(Deal)
<1>1. FreshDeal(phone) \in Deal
  BY DEF FreshDeal, Deal
<1> QED
  BY <1>1 DEF NewDeal

LEMMA ContactServedKeeps ==
    ASSUME Inv, NEW k \in Clicks, ContactServed(k)
    PROVE  Inv'
<1>1. UNCHANGED <<events, surface, catalogs, shown, deals>> /\ calls[k].at = "contact"
  BY DEF ContactServed, Served
<1>2. \/ /\ Succeeds(k) /\ contacts' = contacts \cup {calls[k].phone}
         /\ Go(k, "deal") /\ UNCHANGED newest
      \/ Fails(k) /\ EndRefreshing(k, current) /\ UNCHANGED contacts
  BY DEF ContactServed
<1>3. current \in Conv /\ current' = current /\ contacts \subseteq Phones
  BY <1>1 DEF Inv, SurfaceOK, CrmOK, surface
<1>4. calls[k].phone \in Phones
  BY <1>1, ClickThere DEF ClickCall, PhoneAt
<1>5. ASSUME Go(k, "deal"), UNCHANGED newest PROVE ClickStep
  <2>1. "deal" \in ClickAt
    BY DEF ClickAt, PhoneAt
  <2> QED
    BY <1>1, <1>3, <1>4, <1>5, <2>1, ClickSends
<1>6. ASSUME EndRefreshing(k, current) PROVE ClickStep
  BY <1>3, <1>6, ClickRefreshes
<1>7. ClickStep /\ contacts' \subseteq Phones
  BY <1>2, <1>3, <1>4, <1>5, <1>6
<1>8. BackgroundOK'
  BY <1>2, Answered DEF Inv
<1> QED
  BY <1>1, <1>7, <1>8 DEF Inv, SurfaceOK, PanelOK, CrmOK, ClickStep, surface

LEMMA DealServedKeeps ==
    ASSUME Inv, NEW k \in Clicks, DealServed(k)
    PROVE  Inv'
<1>1. /\ UNCHANGED <<events, open, polled, catalogs, shown, contacts>>
      /\ calls[k].at = "deal" /\ EndRefreshing(k, current')
  BY DEF DealServed, Served
<1>2. \/ /\ Succeeds(k) /\ NewDeal(calls[k].phone)
         /\ current' = IF current.chat # None /\ current.phone = None
                       THEN [current EXCEPT !.phone = calls[k].phone] ELSE current
      \/ Fails(k) /\ UNCHANGED <<deals, current>>
  BY DEF DealServed
<1>3. /\ current \in Conv /\ current.chat = polled /\ deals \in Seq(Deal)
      /\ polled \in Chats /\ PhoneOf[polled] # None => current.phone = PhoneOf[polled]
  BY DEF Inv, SurfaceOK, CrmOK
<1>4. calls[k].phone \in Phones
  BY <1>1, ClickThere DEF ClickCall, PhoneAt
<1>5. /\ current' \in Conv /\ current'.chat = polled
      /\ polled \in Chats /\ PhoneOf[polled] # None => current'.phone = PhoneOf[polled]
  BY <1>2, <1>3, <1>4 DEF Conv
<1>6. ClickStep
  BY <1>1, <1>5, ClickRefreshes
<1>7. deals' \in Seq(Deal)
  BY <1>2, <1>3, <1>4, DealAdded
<1>8. BackgroundOK'
  BY <1>2, Answered DEF Inv
<1> QED
  BY <1>1, <1>5, <1>6, <1>7, <1>8 DEF Inv, SurfaceOK, PanelOK, CrmOK, ClickStep

LEMMA FindContactServedKeeps ==
    ASSUME Inv, NEW k \in Clicks, FindContactServed(k)
    PROVE  Inv'
<1>1. /\ UNCHANGED <<events, surface, catalogs, newest, shown, crm>>
      /\ calls[k].at = "findContact"
  BY DEF FindContactServed, Served
<1>2. calls[k].phone \in Phones
  BY <1>1, ClickThere DEF ClickCall, PhoneAt
<1>3. ASSUME Go(k, "dealForContact") PROVE ClickStep
  <2>1. "dealForContact" \in ClickAt
    BY DEF ClickAt, PhoneAt
  <2> QED
    BY <1>1, <1>2, <1>3, <2>1, ClickSends DEF surface
<1>4. ASSUME End(k) PROVE ClickStep
  BY <1>1, <1>4, ClickEnds DEF surface
<1>5. ClickStep
  BY <1>3, <1>4 DEF FindContactServed
<1>6. BackgroundOK'
  BY Answered DEF FindContactServed, Inv
<1> QED
  BY <1>1, <1>5, <1>6 DEF Inv, SurfaceOK, PanelOK, CrmOK, ClickStep, surface, crm

LEMMA DealForContactServedKeeps ==
    ASSUME Inv, NEW k \in Clicks, DealForContactServed(k)
    PROVE  Inv'
<1>1. /\ UNCHANGED <<events, surface, catalogs, shown, contacts>>
      /\ calls[k].at = "dealForContact"
  BY DEF DealForContactServed, Served
<1>2. \/ Succeeds(k) /\ NewDeal(calls[k].phone) /\ EndRefreshing(k, current)
      \/ Fails(k) /\ End(k) /\ UNCHANGED <<newest, deals>>
  BY DEF DealForContactServed
<1>3. current \in Conv /\ current' = current /\ deals \in Seq(Deal)
  BY <1>1 DEF Inv, SurfaceOK, CrmOK, surface
<1>4. calls[k].phone \in Phones
  BY <1>1, ClickThere DEF ClickCall, PhoneAt
<1>5. ASSUME EndRefreshing(k, current) PROVE ClickStep
  BY <1>3, <1>5, ClickRefreshes
<1>6. ASSUME End(k), UNCHANGED newest PROVE ClickStep
  BY <1>1, <1>3, <1>6, ClickEnds
<1>7. ClickStep
  BY <1>2, <1>5, <1>6
<1>8. deals' \in Seq(Deal)
  BY <1>2, <1>3, <1>4, DealAdded
<1>9. BackgroundOK'
  BY <1>2, Answered DEF Inv
<1> QED
  BY <1>1, <1>7, <1>8, <1>9 DEF Inv, SurfaceOK, PanelOK, CrmOK, ClickStep, surface

-----------------------------------------------------------------------------
(* Other clients of the CRM *)

LEMMA CrmClosesKeeps ==
    ASSUME Inv, NEW d \in DOMAIN deals, CrmCloses(d)
    PROVE  Inv'
<1>1. /\ UNCHANGED <<background, calls, surface, catalogs, newest, shown, contacts>> /\ Event
      /\ deals' = [deals EXCEPT ![d].open = FALSE]
  BY DEF CrmCloses
<1>2. /\ deals \in Seq(Deal) /\ Len(deals) \in Nat /\ DOMAIN deals = 1..Len(deals)
      /\ deals[d] \in Deal
  BY LenProperties, ElementOfSeq DEF Inv, CrmOK
<1>3. [deals[d] EXCEPT !.open = FALSE] \in Deal /\ deals' = [deals EXCEPT ![d] = [deals[d] EXCEPT !.open = FALSE]]
  BY <1>1, <1>2 DEF Deal
<1>4. deals' \in Seq(Deal)
  BY <1>2, <1>3, ExceptSeq
<1>5. events' \in 0..MaxEvents
  BY <1>1, EventCounted DEF Inv
<1> QED
  BY <1>1, <1>4, <1>5 DEF Inv, BackgroundOK, SurfaceOK, PanelOK, CrmOK, NewestCurrent,
                          background, surface

LEMMA CrmReceivesLeadKeeps ==
    ASSUME Inv, NEW phone \in Phones, CrmReceivesLead(phone)
    PROVE  Inv'
<1>1. /\ UNCHANGED <<background, calls, surface, catalogs, newest, shown>> /\ Event
      /\ NewDeal(phone) /\ contacts' = contacts \cup {phone}
  BY DEF CrmReceivesLead
<1>2. CrmOK'
  BY <1>1, DealAdded DEF Inv, CrmOK
<1>3. events' \in 0..MaxEvents
  BY <1>1, EventCounted DEF Inv
<1> QED
  BY <1>1, <1>2, <1>3 DEF Inv, BackgroundOK, SurfaceOK, PanelOK, NewestCurrent, background,
                          surface

LEMMA StutterKeeps ==
    ASSUME Inv, UNCHANGED vars
    PROVE  Inv'
BY DEF Inv, BackgroundOK, SurfaceOK, PanelOK, CrmOK, NewestCurrent, vars, background, surface, crm

-----------------------------------------------------------------------------
(* The panel *)

LEMMA InitInv == Init => Inv
<1> SUFFICES ASSUME Init PROVE Inv
  OBVIOUS
<1> DEFINE e == [Idle EXCEPT !.at = "auth", !.stage = "sent", !.conv = current]
<1>1. /\ open \in Chats \cup {None} /\ polled = open /\ current = Reading(open)
      /\ newest \in Lookups /\ catalogs = None /\ shown = View("blank") /\ events = 0
      /\ calls = [c \in Callers |-> IF c = newest THEN e ELSE Idle]
  BY DEF Init
<1>2. BackgroundOK
  BY DEF Init, BackgroundOK
<1>3. events \in 0..MaxEvents
  BY <1>1, BackgroundAssumption
<1>4. SurfaceOK /\ current \in Conv
  BY <1>1, ReadingConv DEF SurfaceOK
<1>5. PanelOK
  BY <1>1, ViewOf DEF PanelOK, Kinds
<1>6. CrmOK
  <2>1. CASE contacts = {} /\ deals = <<>>
    BY <2>1 DEF CrmOK
  <2>2. ASSUME NEW phone \in Phones, contacts = {phone}, deals = <<FreshDeal(phone)>>
        PROVE  CrmOK
    BY <2>2 DEF CrmOK, FreshDeal, Deal
  <2> QED
    BY <2>1, <2>2 DEF Init
<1>7. e \in Call /\ e.at = "auth" /\ e.conv = current
  BY <1>4, IdleCall DEF Call, LookupAt
<1> HIDE DEF e
<1>8. e \in LookupCall
  BY <1>7 DEF LookupCall, LookupAt
<1>9. calls \in CallsOK
  BY <1>1, <1>7, <1>8, IdleCall, PanelAssumption DEF CallsOK
<1>10. NewestCurrent
  <2>1. calls[newest] = e
    BY <1>1, PanelAssumption
  <2> QED
    BY <1>7, <2>1 DEF NewestCurrent
<1> QED
  BY <1>2, <1>3, <1>4, <1>5, <1>6, <1>9, <1>10 DEF Inv

\* Every step keeps the invariant.
LEMMA NextInv == Inv /\ [Next]_vars => Inv'
<1> SUFFICES ASSUME Inv, [Next]_vars PROVE Inv'
  OBVIOUS
<1>1. CASE Popup /\ UNCHANGED <<surface, catalogs, newest, shown, crm>>
  BY <1>1, PopupKeeps
<1>2. ASSUME NEW c \in Callers, Worker(c), UNCHANGED <<surface, catalogs, newest, shown, crm>>
      PROVE  Inv'
  BY <1>2, WorkerKeeps
<1>3. ASSUME NEW l \in Lookups, Lookup(l) PROVE Inv'
  BY <1>3, AuthServedKeeps, CatalogsServedKeeps, SearchServedKeeps, DealsServedKeeps,
     ActivitiesServedKeeps DEF Lookup
<1>4. ASSUME NEW k \in Clicks, Pressed(k) PROVE Inv'
  BY <1>4, PressKeeps, SubmitCreateKeeps, PressCreateDealKeeps DEF Pressed
<1>5. ASSUME NEW k \in Clicks, Handler(k) PROVE Inv'
  BY <1>5, FindServedKeeps, FindDealServedKeeps, WriteServedKeeps, ContactServedKeeps,
     DealServedKeeps, FindContactServedKeeps, DealForContactServedKeeps DEF Handler
<1>6. ASSUME NEW chat \in Chats \cup {None}, SwitchChat(chat) PROVE Inv'
  BY <1>6, SwitchChatKeeps
<1>7. CASE Poll
  BY <1>7, PollKeeps
<1>8. CASE StorageChanged
  BY <1>8, StorageChangedKeeps
<1>9. ASSUME NEW d \in DOMAIN deals, CrmCloses(d) PROVE Inv'
  BY <1>9, CrmClosesKeeps
<1>10. ASSUME NEW phone \in Phones, CrmReceivesLead(phone) PROVE Inv'
  BY <1>10, CrmReceivesLeadKeeps
<1>11. CASE UNCHANGED vars
  BY <1>11, StutterKeeps
<1> QED
  BY <1>1, <1>2, <1>3, <1>4, <1>5, <1>6, <1>7, <1>8, <1>9, <1>10, <1>11 DEF Next

\* The inductive invariant of the panel: content.ts with the buttons of panel.ts, over the
\* service worker of background.ts, never leave it.
THEOREM PanelInv == Spec => []Inv
<1>1. Init => Inv
  BY InitInv
<1>2. Inv /\ [Next]_vars => Inv'
  BY NextInv
<1> QED
  BY <1>1, <1>2, PTL DEF Spec

\* The variables keep their types: a deal has a phone, and the conversation is a reading of a chat.
THEOREM PanelTypeOK == Spec => []TypeOK
<1>1. Inv => TypeOK
  BY DEF Inv, TypeOK, BackgroundOK, SurfaceOK, PanelOK, CrmOK, CallsOK, Conv, Deal
<1> QED
  BY <1>1, PanelInv, PTL

-----------------------------------------------------------------------------
(* The phone of a conversation *)

\* The phone of the conversation is the page's, or some deal has it.
TypedPhone ==
    current.phone # None => \/ current.chat \in Chats /\ current.phone = PhoneOf[current.chat]
                            \/ DealsOf(current.phone) # {}

\* Deals are neither removed nor given another phone.
PhonesKept ==
    \A d \in DOMAIN deals : d \in DOMAIN deals' /\ deals'[d].phone = deals[d].phone

LEMMA KeptPhone ==
    ASSUME TypedPhone, PhonesKept, UNCHANGED current
    PROVE  TypedPhone'
BY DEF TypedPhone, PhonesKept, DealsOf

LEMMA AddedPhone ==
    ASSUME CrmOK, NEW phone, NewDeal(phone)
    PROVE  PhonesKept /\ \E d \in DOMAIN deals' : deals'[d].phone = phone
<1>1. Len(deals) \in Nat /\ DOMAIN deals = 1..Len(deals)
  BY LenProperties DEF CrmOK
<1>2. /\ DOMAIN deals' = 1..Len(deals) + 1
      /\ \A d \in 1..Len(deals) : deals'[d] = deals[d]
      /\ deals'[Len(deals) + 1] = FreshDeal(phone)
  BY <1>1, AppendProperties DEF NewDeal, CrmOK, FreshDeal
<1>3. PhonesKept
  BY <1>1, <1>2 DEF PhonesKept
<1>4. Len(deals) + 1 \in DOMAIN deals' /\ deals'[Len(deals) + 1].phone = phone
  BY <1>1, <1>2 DEF FreshDeal
<1> QED
  BY <1>3, <1>4

\* Every step but the answer to a create form and the poll leaves the conversation alone.
LEMMA TypedPhoneStep == Inv /\ TypedPhone /\ [Next]_vars => TypedPhone'
<1> SUFFICES ASSUME Inv, TypedPhone, [Next]_vars PROVE TypedPhone'
  OBVIOUS
<1>0. deals' = deals => PhonesKept
  BY DEF PhonesKept
<1>1. ASSUME UNCHANGED <<current, deals>> PROVE TypedPhone'
  BY <1>0, <1>1, KeptPhone
<1>2. CASE \/ Popup /\ UNCHANGED <<surface, catalogs, newest, shown, crm>>
           \/ \E c \in Callers : Worker(c) /\ UNCHANGED <<surface, catalogs, newest, shown, crm>>
           \/ StorageChanged \/ UNCHANGED vars
           \/ \E chat \in Chats \cup {None} : SwitchChat(chat)
  BY <1>1, <1>2 DEF StorageChanged, SwitchChat, vars, surface, crm
<1>3. ASSUME NEW l \in Lookups, Lookup(l) PROVE TypedPhone'
  BY <1>1, <1>3 DEF Lookup, AuthServed, CatalogsServed, SearchServed, DealsServed,
                    ActivitiesServed, surface, crm
<1>4. ASSUME NEW k \in Clicks, Pressed(k) PROVE TypedPhone'
  BY <1>1, <1>4 DEF Pressed, Press, SubmitCreate, PressCreateDeal, surface, crm
<1>5. ASSUME NEW k \in Clicks, Handler(k) PROVE TypedPhone'
  <2>1. CASE FindServed(k) \/ FindDealServed(k) \/ ContactServed(k) \/ FindContactServed(k)
    BY <1>1, <2>1 DEF FindServed, FindDealServed, ContactServed, FindContactServed, surface, crm
  <2>2. CASE WriteServed(k)
    <3>1. PhonesKept
      <4>1. CASE deals' = deals
        BY <1>0, <4>1
      <4>2. CASE deals' = [deals EXCEPT ![calls[k].deal].contacted = TRUE]
        <5>1. \A d \in DOMAIN deals : deals[d] \in Deal
          BY ElementOfSeq, LenProperties DEF Inv, CrmOK
        <5> QED
          BY <4>2, <5>1 DEF PhonesKept, Deal
      <4> QED
        BY <2>2, <4>1, <4>2 DEF WriteServed
    <3> QED
      BY <2>2, <3>1, KeptPhone DEF WriteServed, surface
  <2>3. CASE DealServed(k)
    <3>1. CASE UNCHANGED <<deals, current>>
      BY <1>1, <3>1
    <3>2. CASE /\ NewDeal(calls[k].phone)
               /\ current' \in {current, [current EXCEPT !.phone = calls[k].phone]}
      <4>1. PhonesKept /\ \E d \in DOMAIN deals' : deals'[d].phone = calls[k].phone
        BY <3>2, AddedPhone DEF Inv
      <4>2. CASE current' = [current EXCEPT !.phone = calls[k].phone]
        <5>1. current'.phone = calls[k].phone
          BY <4>2 DEF Inv, SurfaceOK, Conv
        <5>2. DealsOf(current.phone)' # {}
          BY <4>1, <5>1 DEF DealsOf
        <5> QED
          BY <5>2 DEF TypedPhone
      <4> QED
        BY <3>2, <4>1, <4>2, KeptPhone
    <3> QED
      BY <2>3, <3>1, <3>2 DEF DealServed
  <2>4. CASE DealForContactServed(k)
    <3>1. current' = current /\ (deals' = deals \/ NewDeal(calls[k].phone))
      BY <2>4 DEF DealForContactServed, surface
    <3> QED
      BY <1>1, <3>1, AddedPhone, KeptPhone DEF Inv
  <2> QED
    BY <1>5, <2>1, <2>2, <2>3, <2>4 DEF Handler
<1>6. CASE Poll
  BY <1>6 DEF Poll, Reading, TypedPhone, Inv, SurfaceOK
<1>7. ASSUME NEW d \in DOMAIN deals, CrmCloses(d) PROVE TypedPhone'
  <2>1. /\ deals' = [deals EXCEPT ![d].open = FALSE] /\ current' = current
        /\ \A e \in DOMAIN deals : deals[e] \in Deal
    BY <1>7, ElementOfSeq, LenProperties DEF CrmCloses, Inv, CrmOK, surface
  <2> QED
    BY <2>1, KeptPhone DEF PhonesKept, Deal
<1>8. ASSUME NEW phone \in Phones, CrmReceivesLead(phone) PROVE TypedPhone'
  BY <1>8, AddedPhone, KeptPhone DEF CrmReceivesLead, surface, Inv
<1> QED
  BY <1>2, <1>3, <1>4, <1>5, <1>6, <1>7, <1>8 DEF Next

\* Once the newest lookup is over, the panel shows its answer for the conversation that is open
\* as far as the poll knows, however many lookups, clicks, logins and lost answers overlapped
\* (the lookupSeq checks of refresh() in content.ts): a chat with a phone on its page is never
\* shown with another one.  A chat without one is shown with no phone or that of a created lead,
\* which may be the lead of a form submitted before the chat was opened.
THEOREM OpenChatShown == Spec => []ShownIsCurrent
<1>1. Inv /\ TypedPhone => ShownIsCurrent
  <2> SUFFICES ASSUME Inv, TypedPhone, calls[newest].at = "idle"
               PROVE  /\ shown.kind \notin {"blank", "loading"}
                      /\ shown.kind = "noConversation" => polled = None
                      /\ shown.kind = "group" => polled \in Groups
                      /\ shown.kind \in {"lead", "create"} =>
                            /\ polled \in Chats \ Groups
                            /\ IF PhoneOf[polled] # None THEN shown.phone = PhoneOf[polled]
                               ELSE /\ shown.phone = current.phone
                                    /\ shown.phone # None => DealsOf(shown.phone) # {}
    BY DEF ShownIsCurrent
  <2>1. Answers(shown, current)
    BY DEF Inv, NewestCurrent
  <2>2. /\ current.chat = polled
        /\ polled \in Chats /\ PhoneOf[polled] # None => current.phone = PhoneOf[polled]
    BY DEF Inv, SurfaceOK
  <2> QED
    BY <2>1, <2>2 DEF Answers, TypedPhone
<1>2. Init => TypedPhone
  BY DEF Init, TypedPhone, Reading
<1> QED
  BY <1>1, <1>2, TypedPhoneStep, PanelInv, PTL DEF Spec
=============================================================================
