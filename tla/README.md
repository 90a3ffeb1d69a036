# Verification of the sales CRM platform

TLA+ modules, TLC configurations and TLAPS proofs about the program in `src/`: a
sales CRM whose back end (`03-backend`, FastAPI, SQLAlchemy async, PostgreSQL) serves
a web client (`04-frontend`), a Chrome extension (`whatsapp-extension`) and a public
lead webhook. The back end keeps all durable state; almost every rule worth checking
is a rule about a deal, and the difficulty lies in requests that overlap.

## 1. Inventory

| Component | Source | State | Operations | Must hold |
|---|---|---|---|---|
| Deal lifecycle | `services/deals.py`, `api/deals.py`, DDL `0001` | deal row, `deal_stage_history` | create, move, won, lost, reopen, delete | outcome agrees with status, closed deals locked, gates on entry, history contiguous |
| Queue, ownership, tasks | `services/deals.py`, `api/tasks.py` | owner, tasks | claim, reassign, task create/update/delete | one claim wins, open tasks come along |
| Contact log | `services/deals.py`, `api/activities.py` | first contact, activities | first contact, correction, quick log, note | first contact write-once, last activity monotone |
| Cycles, win-back | `services/cycles.py`, `reopen_in_cycle` | cycles, cycle of a deal, rescue receipts | activate, rollover, rescue, CRUD | one active cycle, closed deals stay put, one rescue per deal |
| Request session | `db/session.py` | identity map, transaction | begin, read, flush, commit, roll back | nothing of a failed request remains |
| Webhook, contacts | `services/webhook.py`, `services/contacts.py` | contacts, delivery log | lead, create, edit, delete | no accepted lead is lost, one contact per phone |
| Pipelines, stages | `api/pipelines.py` | stages, flags | CRUD | one default pipeline, one won-stage, none removed while used |
| Sources | `services/sources.py` | catalog | resolve, CRUD | normalisation idempotent, unknown source never refused |
| Sessions, users | `services/auth.py`, `api/auth.py`, `api/users.py`, `lib/api/client.ts` | refresh tokens, access token per tab | login, refresh, logout, password, deactivate | tokens single-use, a valid session survives, requests end |
| Rate limiter | `core/rate_limit.py` | hits per key | allow | never above the limit in a window |
| My day, board query, reports | `api/my_day.py`, `api/deals.py`, `services/reports.py` | none (queries) | read | a deal in one section, urgent deals inside the cap, totals add up |
| Board | `kanban-board.tsx`, `missing-fields-dialog.tsx`, `useMoveDeal` | cached cards, moves and saves in flight, dialogs | drag, rollback, gate dialog, refetch | board ends equal to the server |
| Web cache and screens | `hooks/*.ts`, components, pages | query cache, mutations in flight, drafts | mutate, fetch, merge, invalidate, mount, edit | at rest no screen lacks what its user did; no editor takes newer values back |
| Extension panel | `content.ts`, `background.ts` | conversation, catalogs, shown deal | lookup, act, login/logout | shows and acts on the open conversation |
| Catalogs, settings | units, reasons, goals, templates... | one row each | CRUD | uniqueness (in the database) |

Interaction is by shared tables: every handler opens a session, reads, checks and
writes the same `deals`, `tasks` and `cycles` rows; triggers write
`deal_stage_history` and `last_activity_at` behind the handlers' backs. Clients retry
and click twice. What is hard: isolation is READ COMMITTED and no handler locks what it
reads, so a check may be stale when its write commits; the ORM writes columns, not
rows, so two writes may combine into a row neither request intended; `now()` is the
start of the transaction, so timestamps are not in commit order; handlers that read
twice see two states. In the clients it is the same at another place: every answer, poll,
timer and storage event finds a state other than the one its request left. Tabs share
one cookie that is good for one refresh; optimistic writes, refetches and merged answers
overwrite each other; the extension's lookups overlap with chat switches, clicks and
logins. `PROJECT.json` lists every hazard at its line.

## 2. Modules

`DealStore` holds the tables and the session; the others extend it with the handlers of
one area each, and `Deals` composes them into one next-state relation. They are layers
and not instances because the handlers share the tables and the session.

| Module | Models |
|---|---|
| `DealStore` | rows, sessions, `Begin`, `Load`, `Abort`, the flush (`Column`, `Flush`), CHECKs, triggers, `Update`, `Save`, `Insert`, `Init` |
| `DealLifecycle` | `CreateDeal`, `StartCapture`/`FinishCapture` (webhook), `MoveStage`, `MarkWon`, `MarkLost`, `Reopen`, `DeleteDeal` |
| `DealOwnership` | `Claim`, `ChangeOwner`, `FinishTakeOver`, `UpdateDeal`, `CreateTask`, `LoadTask`, `UpdateTask`, `DeleteTask` |
| `DealContact` | `RegisterFirstContact`, `CorrectFirstContact`, `QuickLog`, `AddNote` |
| `DealCycles` | `StartActivate`/`FinishActivate`, `StartRollover`/`FinishRollover`, `StartRescue`/`FinishRescue` |
| `Deals` | `Next`, `Spec`, the properties |
| `DealPromise` | abstract: what the rules at the head of `services/deals.py` promise about status and stage |
| `StageTrail` | abstract: the append-only, time-ordered trail the reports rely on |
| `MCDeals` | the small pipeline and the symmetry of the runs |
| `Sessions` | refresh rotation on the server, `api()`, `tryRefresh`, the auth provider, in several tabs |
| `ExtBackground` | the extension's service worker: stored session, expiry, popup login, serving of messages |
| `ExtPanel` | the extension's panel: poll, lookups, clicks, create form, views |
| `Board` | drags, optimistic cards, rollback, gate dialog and its saves, next-contact prompt, refetch |
| `TabApi` | responses and requests of the web client as sets of facts |
| `TabQueries` | the cached queries |
| `TabHooks` | the mutation hooks: requests, invalidations, merges |
| `TabScreens` | pages, dialogs and settings tabs: queries read, mutations started |
| `Tab` | the cache entry, mutations in flight, drafts, navigation |
| `MCSessions`, `MCPanel`, `MCBoard`, `MCTab` | small instances of these |
| `DealsProofs`, `HistoryProofs`, `ContactProofs`, `SerialProofs`; `SessionsProofs`, `PanelProofs`, `BoardProofs`, `TabProofs` | theorems |

### The back end: state and steps

`deals`, `history`, `tasks`, `cycles` are the tables, restricted to the columns some rule
reads. `rescues[d]` is the set of deals named by the `reopened_in_cycle` activities of
`d`. `tx[w]` is the request that connection `w` serves: its phase, start time, user, and
the rows it read. `clock` counts transactions; a timestamp is the number of the
transaction that wrote it (`now()` is fixed at BEGIN), 0 is NULL.

A request takes three steps or more: `Begin` fixes `now()`; `Load` reads the deal under
the caller's scope and keeps the row as the identity map does; the handler's action
checks the *loaded* row, flushes against the *table's* row and commits. A handler that
reads again before it writes takes one more step per read (`capturing`, `rescuing`,
`rolling`, `activating`, and `owning`, in which the deal's row is already locked).
Everything from the first UPDATE to the commit is one step where the code reads nothing
that another request could change: the row is locked and the writes are invisible.
`Abort` may end any request at any time: a 4xx, a refused write, a lost connection.
The database's refusals are guards of `Update`: a step that violates a CHECK, the
write-once trigger or the partial unique index does not exist, `Abort` takes its place.

`Flush` is SQLAlchemy's UPDATE: a column is written when the handler gave it a value
other than the one loaded, otherwise the table's current value stays. With a stale row
this is what makes two requests combine.

### The back end: abstractions

- One pipeline; stages do not change while deals exist (pipeline editing is not modelled).
- Titles, values, units, sources, lost reasons, objections and `next_contact_at` are
  left out: no property reads them. `lostAt` stands for both `lost_at` and
  `lost_reason_id`, which are always set and cleared together.
- Application clocks (`datetime.now` for `won_at`, `lost_at` and the first contact) are
  read as the start of the request; no property compares them with `now()`.
- Enrollment data is the set of keys filled. Whether a value counts as filled is
  `_is_filled`'s business and abstracted into membership.
- The webhook's contact and delivery log are left out here; `StartCapture` covers an
  active cycle, which always exists here (`OneActiveCycle`). The fallback cycle needs a
  database without one.
- Users exist and are active throughout.

### Sessions

`jar` is the browser's refresh cookie, `live` the tokens neither used nor revoked,
numbered in order of issue. A tab has an access `token`, a `flow` (what
`auth-provider.tsx` is doing) and a `refresh` (the promise of `tryRefresh`). A refresh
takes three steps because two may overlap anywhere: `RefreshChecked` is the test of
`revoked_at` in `services/auth.py`, `RefreshCommitted` the rotation, `RefreshAnswered`
the answer, whose cookie only then enters the jar, or which is lost (with or without the
cookie). A call that meets a 401 joins the refresh of its tab, and is sent once more
(`resent`). `ended` is a history variable: a logout, a revocation or a lost answer has
happened.

### The extension

A caller is one asynchronous activity of the content script: a lookup (`refresh()`) or a
click. Each `await` of the code is a message that is `sent`, then given the session by
the worker (`GetSession`, with `RemoveExpired` in an await of its own), then `served`;
the action `...Served` is the code from that await to the next. `newest` is `lookupSeq`,
and `Render` the test of it. `notices` counts the storage events; each is handled or
never comes (see Fairness). `polled` and `current` are the poll's last key and
`currentConversation`.

### The board

`deals` is the API, `shown` the cached board, `moves` the mutations in flight with the
snapshot `onMutate` took and whether the board still listens (`heard`), `saves` the gate
dialog's saves with the requests still to do. Answers come in any order. A failed fetch
replaces the board by an error page; its dialogs go with it.

### The tab

The question here is not what a screen shows but what it fails to show. `TabApi` names the
facts a response shows and a request changes; `TabHooks` has one record per mutation hook,
`TabQueries` one per query, `TabScreens` one per component, joined into pages as the JSX
does (`++` joins two tables: the provers do not expand TLC's `@@`). `Tab` follows one
cache entry: `lacks` is the set of calls whose effect its data miss, `missed` those served
since its fetch began. Entries do not influence each other, so a property of the watched
one, chosen in `Init` among all, is a property of every one. The cache library (TanStack
Query) is outside `src/` and modelled from its use: it is marked external in the map.

Two sets keep `FreshAtRest` honest. `Gaps` names the pairs (mutation, query) in which the
hook changes what the query shows and does not refresh it: the code's omissions, listed
by hand from what TLC reported. `lapses` collects the calls whose notice got lost on a
path the model can name: an answer lost after the server acted, an older answer merged
over newer data, a mark removed by a fetch or merge that lacks the call, a My Day
refresh held back by a component that is gone. Everything else must be fresh.

### The clients: abstractions

- Wording, layout, filters, formatting, validation and the DOM scraping are left out.
- Facts and fields stand for values; two writers of one fact are told apart by who wrote.
- In `Board` required fields are only filled, never cleared, and no other user moves a card:
  nothing refetches the board for those, and the board does not promise to show them.
- Window-focus refetches and cache ageing are the nondeterministic fetch at mount.

## 3. Runs

| Run | Instance | Shows |
|---|---|---|
| `deals_serial` | 1 connection, 1 deal, admin and consultant, 2 required fields, 6 requests | `OutcomeMatchesStatus`, `LockedUntilReopen`, `GateOnEntry`, `PromiseKept` (refinement of `DealPromise`), `AbsentKeysPreserved` over every sequence of requests |
| `deals_race` | 2 connections, 1 deal, 3 cycles, 4 requests | `HistoryMatchesStage`, `HistoryContiguous`, `ActivityCoversHistory`, `OneActiveCycle`, `LastActivityMonotone`, `FirstContactWriteOnce`, `StageTrailKept` (refinement of `StageTrail`) under every overlap |
| `deals_queue` | 1 connection, 3 deals, 1 task, 2 cycles, 4 requests | `TypeOK`, `RescuedOnce`, `ClaimTakesFromQueue`, `RolloverMovesOpenDeals` |
| `locked_race` | 2 connections, won and lost | violated: a closed deal changes its outcome |
| `claim_race` | 2 connections, claim | violated: the second claim takes the deal from its new owner |
| `rescue_race` | 2 connections, rescue | violated: two deals for one lost one |
| `patch_race` | 2 connections, patch | violated: a key absent from the body is lost |
| `sessions` | 2 tabs, 3 calls (two share a tab), 5 events | `JarAlive`, `RefusalIsARace`; liveness `CallsEnd`, `FlowsEnd` |
| `panel` | 2 lookups, 1 click, chats with phone, without, and a group, 1 account, 2 events | `ShownIsCurrent`; liveness `PanelSettles`, `CreateNotStuck`, `AsksToLogIn` |
| `panel_wrong_deal` | as `panel`, two chats with phones, 3 events | violated: a click acts on the deal of another contact than the card's |
| `board` | 2 deals, 3 stages (one gated by three fields), 4 events | `BoardAtRest`, `CompletedMeansFilled`; liveness `Converges` |
| `tab` | 24 queries, every page and settings tab, 2 mutations, 1 navigation, 1 other user | `FreshAtRest`, `RevertsOnlyKnown` |

Each passing run of a client also checks its module's `TypeOK`. `Traffic` names the endpoints the clients of a run call, so that a run spends its states
on the question it asks; `MaxTx` bounds the requests of a behaviour and is the only
bound on time. Between them the passing runs take every action.

*Bounds.* A history rule needs two overlapping writers of one deal: one deal, two
connections, and four requests (create, two that overlap, one more in another order).
`OneActiveCycle` needs three cycles: one active, two activated at once. The serial run
has six requests, enough for create, won, reopen, lost, reopen, move. `deals_queue` needs
three deals because a rescue mints one and a second call would mint another. Symmetry
over connections, deals and cycles is sound: no definition names one.

In the clients, *events* are what nobody is obliged to do: users, the clock, other clients,
lost answers. What follows from them is not bounded. `sessions`: two events open the tabs
and three are left for two calls and an expiry, which is what two refreshes in each tab's
reach take. `panel`: two lookups are the least that race and the most the code tells
apart (newest or not); two events are a switch and a logout, or a click and a switch;
the violation needs a second chat with a phone. `board`: two drags and either two faults
or a save and another user; two deals because a snapshot undoes another card's move. A
free lookup or click is also a bound: no third one starts while two run. `tab`: one
mutation of every kind on every page that starts it, and a second, overlapping one
(`Later`), the quick log, which touches the most entries; a navigation follows the first
mutation, since `Init` starts on any page, and goes from or to a page with the watched
query, since others do not touch it. The role is admin: its pages include the consultant's.
The queries not watched are six reports no hook refreshes, the summary (refreshed like
`cac`, which is watched) and the fixed field catalog.

*Deadlock* is not checked: a behaviour ends when its requests or events are used up.
*Fairness*: the runs of the back end assume none, their properties are safety. The
clients' liveness assumes weak fairness of what settles by itself: `fetch()` resolves or
rejects, `chrome.runtime` messages call back, timers fire. It does not assume that
storage events arrive: `content.ts` listens to `chrome.storage.session`, which Chrome
keeps from content scripts unless somebody calls `setAccessLevel`, and nobody does.
`StorageChanged` may therefore happen and need not. Nothing is assumed of users, the
clock, other clients or the network: an answer may always be an error. `BoardAtRest`,
`FreshAtRest` and `ShownIsCurrent` are about states at rest; `Converges` and
`PanelSettles` say that rest is reached. (`Tab` has no liveness: its fetches are those
of `Board`.)

### What the overlaps show

The split between the first and the other runs is the main result. What the database
enforces (triggers, CHECKs, unique indexes) holds under every overlap, and is proved to.
What only the handlers check holds when requests do not overlap, and TLC breaks it with
two connections. Four of the broken properties contradict a sentence of the source and
are recorded as findings: `_ensure_open`, the claim, the receipt of the rescue and the
merging PATCH all test or merge a row that another request may have changed. The other
three can be seen by giving their run a second connection: a won deal outside the
won-stage (`mark_won` beside `move_stage`), a stage entered without its fields (a move
beside a PATCH that clears one), a closed deal moved by a rollover. A row lock on read
(`SELECT ... FOR UPDATE` in `get_deal_scoped`) or a version column would restore the
serial behaviour, which the proofs below then cover.

In the clients the picture is different: what the code guards (the single flight, the
sequence number of lookups, the refetch after every move) holds under every overlap, and
the weak points are elsewhere. The panel's clicks are not guarded by the sequence number
(`panel_wrong_deal`), and neither is the end of the create form: it puts the phone it
submitted on the conversation that is open by then, if that has none
(`content.ts:299-301`). `ShownIsCurrent` is therefore stronger for chats whose page has
a phone; of the others it only says that some deal has the phone shown. A logout reaches
the panel with the next lookup (`AsksToLogIn`). Nothing promises that the logout itself
starts one: the extension's README (line 139) and the comment at `content.ts:363` say it
does, lines 137-138 expect no such thing of a login, and without the assumption that
storage events arrive TLC refutes "a logout makes the panel ask for login". A refused
tab does not try again with the cookie another tab brought, although `RefusalIsARace`
shows it would succeed. The cache's invalidations are lists kept by hand, and `Gaps` is
what they leave out: the sidebar's rescue count after most mutations, the timeline after
a move, the count beside a rollover. Nine of the fifteen editors copy their row once,
when mounted or opened, and send the copy back.

## 4. Proofs

All theorems hold for every value of the constants that the named assumptions allow. For
the back end (`PipelineAssumption`, `PeopleAssumption`, `IdAssumption`,
`BoundAssumption`, `CarriedAssumption`) that is any number of connections, deals, users
and stages and any `Traffic`; for the clients (`SessionsAssumption`,
`BackgroundAssumption`, `PanelAssumption`, `BoardAssumption`, `ScopeAssumption`,
`BoundsAssumption`) any number of tabs, calls, chats, lookups, deals, mutations and
events. The assumptions say that NULL is no name, that what is chosen is chosen from
what there is, and that bounds are numbers.

| Theorem | Says |
|---|---|
| `DealsProofs!InvHolds`, `TypeCorrect`, `ActiveCycle` | `[]Inv`, `[]TypeOK`, `[]OneActiveCycle` |
| `HistoryProofs!HistoryFollowsStage` | `[]HistoryMatchesStage`: the one open stay is for the deal's stage, also of a deleted deal |
| `HistoryProofs!HistoryJoins`, `ActivityCovers` | `[]HistoryContiguous`, `[]ActivityCoversHistory` |
| `HistoryProofs!ActivityMonotone` | `LastActivityMonotone` |
| `HistoryProofs!HistoryIsTrail` | `Spec => Trail!Spec` |
| `ContactProofs!ContactWriteOnce` | `FirstContactWriteOnce` |
| `SerialProofs!SerialOutcome`, `SerialLocked`, `SerialGate` | `[]OutcomeMatchesStatus`, `LockedUntilReopen`, `GateOnEntry`, each assuming `Serial` |
| `SerialProofs!SerialPromise` | `Spec => Promise!Spec`, assuming `Serial` |
| `SerialProofs!SerialRescuedOnce` | `[]RescuedOnce`, assuming `Serial` |
| `SerialProofs!SerialClaim`, `SerialMerge`, `SerialRollover` | `ClaimTakesFromQueue`, `AbsentKeysPreserved`, `RolloverMovesOpenDeals`, each assuming `Serial` |
| `SessionsProofs!SessionsInv`, `SessionsTypes` | `[]Inv`, `[]TypeOK` of `Sessions` |
| `SessionsProofs!SessionSurvivesRaces` | `[]JarAlive`: races alone never end a session |
| `SessionsProofs!RefusalsExplained` | `[]RefusalIsARace` |
| `PanelProofs!PanelInv`, `PanelTypeOK` | `[]Inv`, `[]TypeOK` of `ExtPanel` |
| `PanelProofs!OpenChatShown` | `[]ShownIsCurrent`: overtaken lookups never put another phone on a chat that has one |
| `BoardProofs!BoardInv`, `BoardTypeOK` | `[]Inv`, `[]TypeOK` of `Board` |
| `BoardProofs!RestShowsApi` | `[]BoardAtRest` |
| `BoardProofs!CompletedFilled` | `[]CompletedMeansFilled` |
| `TabProofs!TabInv`, `TabTypeOK` | `[]Inv`, `[]TypeOK` of `Tab` |
| `TabProofs!FreshWhenAtRest` | `[]FreshAtRest`: `Gaps` and `lapses` are all there is |
| `TabProofs!RevertsKnown` | `[]RevertsOnlyKnown` |

*The invariant.* `TypeOK` alone is not inductive: a session that read a deal writes it
back later, so what it kept must still make sense. `Inv` adds `TablesOK` (existing deals
have a stage, tasks belong to existing deals) and `SessionOK` (start times are over, a
kept deal exists and its kept row has a stage, a pending new owner changes neither
status nor stage nor first contact). It says nothing about the kept row being current:
that is false.

*The argument.* `EveryStep` sums up what any of the handlers does to a deal: nothing,
or one insertion, or one column-wise write with its trigger (`DealStep`). All the history
theorems follow from that lemma and never look at a handler again. The order of
timestamps rests on `HistoryChecks`: the table's CHECK refuses a stay that would end
before it began, so commits out of order abort and what remains is ordered.
`EveryWrite` lists the writes once more with their guards, for the first contact.

*Serial.* `Serial` says that all connections are one. `FreshStep` shows that a session's
row then equals the table's; `EveryOutcome` reduces each step to birth, move, win, loss,
reopening, deletion or none of these, and the theorems on outcome, lock, gate and promise
read off that list. A claim, a change of owner and a rollover take two steps: what the
first read is needed in the second. `NothingStale` says that it is still what the tables
hold (the tasks a new owner takes along are the open ones nobody has, the deals of a
rollover are open); with it the guards of `Claim` and `FinishRollover` speak of the tables
and not of a memory. The assumption is needed: `locked_race`, `claim_race`, `rescue_race`
and `patch_race` are its counterexamples.

*Sessions.* The theorems hold for any number of tabs and calls (`SessionsAssumption`).
`JarAlive` is not inductive: a tab that is answered replaces the jar, and another may use
up the token it brings. The strengthening is `GotIsSecret`: the token of an answer under
way is live (or the session was ended), is nobody's cookie, not the jar's, and no other
answer's, so nobody can have used it. With it each step of a refresh
preserves `JarAlive` and `RefusalIsARace`; every other step leaves refreshes and tokens
alone, issues a token nobody has, or sets `ended`.

*Panel.* `ShownIsCurrent` speaks of the moment after the newest lookup ended. To carry
it through a lookup, the newest one must be asking about `current` (`NewestCurrent`):
every assignment of `currentConversation` is followed by a new lookup in the same step
of `content.ts`, which is what the proof checks action by action (`onManualPhone`, which
nothing in the panel calls, is left out of the model). `LookupCall` says what a lookup
knows at each await (past the session check its chat is a person's), and `SurfaceOK`
that `current` is the poll's chat, with the page's phone where there is one.
`TypedPhone`, a second invariant, is for chats without: a phone the conversation did not
get from its page is that of a deal, since `DealServed` adds the deal with the phone and
no step removes a deal or changes its phone. A step of a lookup that is not the newest
cannot `Render`, so it leaves `shown` alone.

*Board.* `BoardAtRest` says nothing of a board that is waiting, and a fetch that was read
before the last move was served would bring old cards. `FetchCurrent` says that there is
none: once no move waits for its answer, a fetch that was read holds what the API has,
since `onSettled` of every move replaces the fetch. Snapshots need no invariant: a
rollback to an old one is always followed by such a fetch. `SavesHonest` gives
`CompletedMeansFilled`: each field a save was asked to fill is filled or still to do, and
fields are not emptied.

*Tab.* `FreshAtRest` says nothing of a busy tab. `AllCovered` says why a busy tab will be
fresh: whatever a served call left the entry lacking, and was to tell it, is on its way
by one of six means (its own answer, the end of a move, the prompt My Day waits for, a
fetch that began later, the mark of an entry not mounted, a failed fetch), or is in
`lapses`. Each action that takes one of these away must provide another. `FailedMarked`
is needed because a merge clears the failure and the mark together; `RowDraft` (a draft
that follows its row lacks nothing the row has) gives `RevertsOnlyKnown`. That nothing but
`Gaps` is missing where the mutation was made (`HomeOnly`) rests on `EveryScreen`, a fact
about the tables: for every page, every mutation it starts and every query it reads, the
hook tells the query, does not touch it, or the pair is listed. `EveryHook` and
`EveryEditor` are its counterparts for hooks and drafts. So the list of gaps is complete,
also for the queries and page changes the run has no room for.

*Model-checked only.* Liveness: `CallsEnd`, `FlowsEnd`, `PanelSettles`, `CreateNotStuck`,
`AsksToLogIn`, `Converges`. Its proofs need ENABLED, which is out of the prover's
reach. Every invariant and action property of a passing run, and both refinements, are
proved.

## 5. Not modelled, and what is left

Not modelled: the webhook's contact dedupe, delivery log and fallback cycle; contacts as
rows; pipeline and stage editing; the sources catalog, rate limiter and user
administration on the server; My Day, board and report queries (no state of their own);
catalog CRUD (one row, uniqueness in the database); rendering, forms and validation; DOM
scraping; the extension's configuration; seeds and migrations other than the DDL used
here. `PROJECT.json` says for each hazard without a property why it has none.

Left, in this order:

1. `Intake`: webhook, dedupe with its rollback, fallback cycle, delivery log, contact
   deletion. Abstract: every delivery answered as accepted has its deal and log.
2. `Pipelines`: won flag, default flag, stage removal beside deals that move.
3. Proofs: a hypothesis weaker than `Serial` (requests on *one deal* do not overlap), and
   the theorems of 1 and 2.
