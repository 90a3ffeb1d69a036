------------------------------ MODULE DealStore ------------------------------
(***************************************************************************)
(* The PostgreSQL tables the deal handlers share, and the request session  *)
(* through which every handler reaches them (app/db/session.py).           *)
(*                                                                         *)
(* A request runs on one connection: its transaction begins, it reads rows *)
(* into the SQLAlchemy identity map, the handler checks and assigns the    *)
(* loaded objects, and the flush writes back the columns whose value       *)
(* differs from the one loaded.  The isolation level is READ COMMITTED and *)
(* no handler locks what it reads, so other requests may commit between    *)
(* the read and the flush.  From its first UPDATE to its commit a request  *)
(* holds the row's lock and its writes are invisible: flush and commit are *)
(* one step here, except where the code reads again while it holds the     *)
(* lock (DealOwnership).                                                   *)
(*                                                                         *)
(* Columns that no rule of these modules reads (title, value, unit, source,*)
(* next_contact_at and the like) are left out.  A timestamp is the number  *)
(* of the transaction that wrote it and 0 stands for NULL.                 *)
(***************************************************************************)
EXTENDS Naturals, Sequences, FiniteSets

CONSTANTS
    Workers,        \* connections of the pool, each serving one request at a time
    Deals,          \* deal ids, used or not yet used
    Users, Admins,  \* accounts, and those with the ADMIN role
    Stages,         \* stages of the one pipeline
    FirstStage,     \* the stage with the smallest sort_order
    WonStage,       \* the stage with is_won_stage
    Keys,           \* deal fields a stage may require
    Required,       \* stage -> keys its required_fields lists
    Tasks,          \* task ids, used or not yet used
    Cycles,         \* sales cycles
    None,           \* NULL
    Traffic,        \* endpoints the clients call
    MaxTx           \* bound: transactions a behaviour begins

ASSUME PipelineAssumption ==
    /\ FirstStage \in Stages /\ WonStage \in Stages /\ None \notin Stages
    /\ Required \in [Stages -> SUBSET Keys]

ASSUME PeopleAssumption == Admins \subseteq Users /\ None \notin Users

ASSUME IdAssumption == None \notin Deals \cup Tasks \cup Cycles

ASSUME BoundAssumption == MaxTx \in Nat

VARIABLES
    deals,      \* deal id -> row
    history,    \* deal id -> rows of deal_stage_history, oldest first
    tasks,      \* task id -> row
    cycles,     \* cycle id -> "inactive" or "active"
    rescues,    \* deal id -> deals its reopened_in_cycle activities name
    tx,         \* worker -> the session of the request it serves
    clock       \* transactions begun so far: now() of the latest one

tables == <<deals, history, tasks, cycles, rescues>>
vars == <<tables, tx, clock>>

-----------------------------------------------------------------------------
(* Rows and sessions *)

Closed == {"won", "lost"}

Row == [status : {"absent", "open"} \cup Closed,
        stage : Stages \cup {None},
        owner : Users \cup {None},
        cycle : Cycles \cup {None},
        wonAt : Nat, lostAt : Nat, firstContact : Nat,
        enrollment : SUBSET Keys,
        lastActivity : Nat,
        deleted : BOOLEAN]

NoDeal == [status |-> "absent", stage |-> None, owner |-> None, cycle |-> None,
           wonAt |-> 0, lostAt |-> 0, firstContact |-> 0,
           enrollment |-> {}, lastActivity |-> 0, deleted |-> FALSE]

HistoryRow == [stage : Stages, entered : Nat, left : Nat]

TaskRow == [state : {"absent", "todo", "done", "deleted"},
            deal : Deals \cup {None},
            assignee : Users \cup {None}]

NoTask == [state |-> "absent", deal |-> None, assignee |-> None]

\* "loaded" and "task": a deal or a task was read.  From "capturing" on: second
\* phase of a handler that reads once more, or reads something else.
Session == [phase : {"idle", "begun", "loaded", "task", "capturing", "owning",
                     "rescuing", "rolling", "activating"},
            start : Nat,
            user : Users \cup {None},
            deal : Deals \cup {None}, row : Row, assigned : Row,
            task : Tasks \cup {None}, taskRow : TaskRow,
            taskSet : SUBSET Tasks,
            cycle : Cycles \cup {None}, dealSet : SUBSET Deals,
            cycleSet : SUBSET Cycles]

Idle == [phase |-> "idle", start |-> 0, user |-> None,
         deal |-> None, row |-> NoDeal, assigned |-> NoDeal,
         task |-> None, taskRow |-> NoTask, taskSet |-> {},
         cycle |-> None, dealSet |-> {}, cycleSet |-> {}]

Exists(d) == deals[d].status # "absent"
IsAdmin(u) == u \in Admins
IsActive(c) == cycles[c] = "active"

TypeOK ==
    /\ deals \in [Deals -> Row]
    /\ history \in [Deals -> Seq(HistoryRow)]
    /\ tasks \in [Tasks -> TaskRow]
    /\ cycles \in [Cycles -> {"inactive", "active"}]
    /\ rescues \in [Deals -> SUBSET Deals]
    /\ tx \in [Workers -> Session]
    /\ clock \in Nat

-----------------------------------------------------------------------------
(* Sessions *)

\* Scope of every read of a deal: own deals and the unassigned queue, or all.
Visible(u, row) ==
    /\ row.status # "absent" /\ ~row.deleted
    /\ IsAdmin(u) \/ row.owner \in {u, None}

CanEdit(u, row) == IsAdmin(u) \/ row.owner = u

\* BEGIN: now() is fixed here, at the request's first statement.
Begin(w) ==
    /\ tx[w].phase = "idle"
    /\ clock < MaxTx
    /\ clock' = clock + 1
    /\ tx' = [tx EXCEPT ![w] = [Idle EXCEPT !.phase = "begun", !.start = clock + 1]]
    /\ UNCHANGED tables

\* The handler reads the deal it was called for: the row stays in the
\* identity map and is not read again.
Load(w) ==
    /\ tx[w].phase = "begun"
    /\ \E u \in Users, d \in Deals :
          /\ Visible(u, deals[d])
          /\ tx' = [tx EXCEPT ![w].phase = "loaded", ![w].user = u,
                              ![w].deal = d, ![w].row = deals[d]]
    /\ UNCHANGED <<tables, clock>>

\* The handler raised (a 4xx of its guards, a CHECK, trigger or unique index
\* that refused the write, a lost connection): the session rolls back.
Abort(w) ==
    /\ tx[w].phase # "idle"
    /\ tx' = [tx EXCEPT ![w] = Idle]
    /\ UNCHANGED <<tables, clock>>

Finish(w) == tx' = [tx EXCEPT ![w] = Idle] /\ UNCHANGED clock

\* A request in its second phase has written the deal's row and holds its lock.
LockedByOther(w, d) ==
    \E v \in Workers \ {w} : tx[v].phase = "owning" /\ tx[v].deal = d

-----------------------------------------------------------------------------
(* Writes: the ORM's column-wise UPDATE, the CHECKs and the triggers *)

Later(a, b) == IF a >= b THEN a ELSE b

\* SQLAlchemy's UPDATE carries a column only if the handler gave it a value
\* other than the one loaded; every other column keeps what the table holds.
Column(now, loaded, assigned) == IF assigned = loaded THEN now ELSE assigned

Flush(now, loaded, assigned) ==
    [status |-> Column(now.status, loaded.status, assigned.status),
     stage |-> Column(now.stage, loaded.stage, assigned.stage),
     owner |-> Column(now.owner, loaded.owner, assigned.owner),
     cycle |-> Column(now.cycle, loaded.cycle, assigned.cycle),
     wonAt |-> Column(now.wonAt, loaded.wonAt, assigned.wonAt),
     lostAt |-> Column(now.lostAt, loaded.lostAt, assigned.lostAt),
     firstContact |-> Column(now.firstContact, loaded.firstContact, assigned.firstContact),
     enrollment |-> Column(now.enrollment, loaded.enrollment, assigned.enrollment),
     lastActivity |-> now.lastActivity,
     deleted |-> Column(now.deleted, loaded.deleted, assigned.deleted)]

\* ck_deals_lost_requires_reason, ck_deals_won_requires_won_at and
\* ck_deals_open_has_no_outcome; lostAt stands for the reason and the date.
OutcomeChecks(row) ==
    /\ row.status = "lost" => row.lostAt # 0
    /\ row.status = "won" => row.wonAt # 0
    /\ row.status = "open" => row.wonAt = 0 /\ row.lostAt = 0

\* Mutant: the write-once trigger is missing.
FirstContactUnguarded(now, new) == TRUE

\* trg_deals_first_contact_write_once
FirstContactKept(now, new) ==
    now.firstContact # 0 => new.firstContact = now.firstContact

\* The trigger's UPDATE ... SET left_at = now() WHERE left_at IS NULL.
LeaveOpenRows(h, t) ==
    [i \in DOMAIN h |-> IF h[i].left = 0 THEN [h[i] EXCEPT !.left = t] ELSE h[i]]

\* record_deal_stage_history: close the open row, open one for stage s, both
\* at the start time t of the writing transaction.
RecordEntry(h, s, t) ==
    Append(LeaveOpenRows(h, t), [stage |-> s, entered |-> t, left |-> 0])

\* Mutant: the table without its CHECK and its partial unique index.
HistoryUnchecked(h) == TRUE

\* The CHECK on left_at and ux_dsh_one_open_per_deal.
HistoryChecks(h) ==
    /\ \A i \in DOMAIN h : h[i].left # 0 => h[i].left >= h[i].entered
    /\ \A i, j \in DOMAIN h : h[i].left = 0 /\ h[j].left = 0 => i = j

\* Mutant: the trigger without GREATEST.
TouchWithNow(row, t) == [row EXCEPT !.lastActivity = t]

\* touch_deal_last_activity, fired by every activity the handler logs.
Touch(row, t) == [row EXCEPT !.lastActivity = Later(@, t)]

\* Mutants: a trigger on INSERT only, and one without IS DISTINCT FROM.
HistoryOnInsertOnly(d, now, new, t) == history[d]
HistoryOnEveryUpdate(d, now, new, t) == RecordEntry(history[d], new.stage, t)

\* deal_stage_history after an UPDATE takes the row of d from `now' to `new'.
HistoryAfter(d, now, new, t) ==
    IF new.stage = now.stage THEN history[d] ELSE RecordEntry(history[d], new.stage, t)

\* The UPDATE of one deal that a request makes and commits: `assigned' is the
\* loaded object after the handler's assignments, `logs' tells whether it
\* logs an activity.  The step is impossible when the database refuses it.
Update(w, assigned, logs) ==
    LET d == tx[w].deal
        t == tx[w].start
        new == Flush(deals[d], tx[w].row, assigned)
        h == HistoryAfter(d, deals[d], new, t)
    IN /\ ~LockedByOther(w, d)
       /\ OutcomeChecks(new)
       /\ HistoryChecks(h)
       /\ deals' = [deals EXCEPT ![d] = IF logs THEN Touch(new, t) ELSE new]
       /\ history' = [history EXCEPT ![d] = h]

\* The same for every request that has not set the first-contact override.
Save(w, assigned, logs) ==
    /\ FirstContactKept(deals[tx[w].deal],
                        Flush(deals[tx[w].deal], tx[w].row, assigned))
    /\ Update(w, assigned, logs)

\* INSERT of a deal, with its deal_created activity and the history trigger.
Insert(w, d, row) ==
    LET t == tx[w].start
    IN /\ ~Exists(d)
       /\ deals' = [deals EXCEPT ![d] = [row EXCEPT !.lastActivity = t]]
       /\ history' = [history EXCEPT ![d] = RecordEntry(<<>>, row.stage, t)]

Init ==
    /\ deals = [d \in Deals |-> NoDeal]
    /\ history = [d \in Deals |-> <<>>]
    /\ tasks = [t \in Tasks |-> NoTask]
    /\ cycles \in {[c \in Cycles |-> IF c = a THEN "active" ELSE "inactive"] : a \in Cycles}
    /\ rescues = [d \in Deals |-> {}]
    /\ tx = [w \in Workers |-> Idle]
    /\ clock = 0
=============================================================================
