----------------------------- MODULE AuditTrail -----------------------------
(***************************************************************************)
(* The audit log and who writes it.  A trigger chains every audit_event    *)
(* row to its predecessor by a hash, under an advisory lock that the       *)
(* inserting transaction keeps until it ends (migrations 017, 018, 020;    *)
(* audit-chain.ts verifies).  The writers are workflow transitions         *)
(* (workflow.ts), which hold the application's row lock when they insert;  *)
(* SLA scans on several instances (sla-checker.ts), which want that row    *)
(* lock after they have inserted; single statements; and the retention job *)
(* that deletes telemetry rows (telemetry-retention.ts).                   *)
(*                                                                         *)
(* The hash of a row is represented by the row's chain position, which     *)
(* nextval never gives twice; 0 stands for GENESIS.                        *)
(***************************************************************************)
EXTENDS Naturals, FiniteSets, Sequences, FiniteSetsExt, SequencesExt

CONSTANTS
  App,        \* applications, each with one task at a time
  Writer,     \* requests that execute a transition
  Scanner,    \* instances that run the SLA scan
  EventsAfter,\* bound: the positions after which a single statement writes
  MaxFailures,\* bound on the transactions that fail
  MaxTasks,   \* bound on the tasks all applications go through
  None        \* no holder

Kind == {"STATE_CHANGED", "SLA_BREACHED", "CLIENT_CACHE_TELEMETRY"}
Process == Writer \cup Scanner

ASSUME ProcessAssumption == Writer \cap Scanner = {} /\ None \notin Process
ASSUME AppAssumption == IsFiniteSet(App)

VARIABLES
  log,       \* the committed rows of audit_event
  position,  \* audit_chain_position_seq; the gaps that rollbacks leave in
             \* it are left out, for they change no order
  advisory,  \* the transaction that holds advisory lock 982451653
  task,      \* the current task of each application
  tx,        \* the transactions under way
  failures   \* how many have failed

vars == <<log, position, advisory, task, tx, failures>>

TaskNo == 1 .. MaxTasks
Row == [pos : Nat, prev : Nat, kind : Kind, app : App \cup {None}, task : Nat]
Task == [no : Nat, open : BOOLEAN, overdue : BOOLEAN]
Idle == [pc |-> "idle"]
TxState ==
  {Idle}
  \cup [pc : {"locked", "audited"}, app : App, rows : SUBSET Row]
  \cup [pc : {"read", "inserted"}, batch : SUBSET (App \X Nat),
        rows : SUBSET Row]

Init ==
  /\ log = {} /\ position = 0 /\ advisory = None
  /\ task = [a \in App |-> [no |-> 1, open |-> TRUE, overdue |-> FALSE]]
  /\ tx = [p \in Process |-> Idle]
  /\ failures = 0

Begin(p, t) == tx' = [tx EXCEPT ![p] = t]

(***************************************************************************)
(* The insert trigger.                                                     *)
(***************************************************************************)
Positions(rows) == {r.pos : r \in rows}
LastOf(positions) == Max({0} \cup positions)

\* Fault: the predecessor is looked for among rows below a position that was
\* drawn earlier, as the column default of migration 018 did.
ChainedTooEarly(seen, pos, kind, a, no) ==
  [pos |-> pos, prev |-> LastOf({x \in seen : x + 1 < pos}),
   kind |-> kind, app |-> a, task |-> no]

\* set_audit_event_hash_chain_v1: position and predecessor under the lock, the
\* latter among the positions of the rows it sees.
Chained(seen, pos, kind, a, no) ==
  [pos |-> pos, prev |-> LastOf(seen), kind |-> kind, app |-> a, task |-> no]

\* One INSERT ... SELECT: the trigger of its i-th row sees the rows before it,
\* the statement's own included.
ChainedBatch(batch) ==
  LET order == SetToSeq(batch)
      seen(i) == Positions(log) \cup (position + 1 .. position + i - 1)
  IN {Chained(seen(i), position + i, "SLA_BREACHED", order[i][1], order[i][2]) :
        i \in DOMAIN order}

(***************************************************************************)
(* Transitions.                                                            *)
(***************************************************************************)
\* No transition has the application FOR UPDATE.
RowFree(a) ==
  \A w \in Writer : tx[w].pc \in {"locked", "audited"} => tx[w].app # a

\* executeTransition: BEGIN, the application FOR UPDATE, its writes.
BeginTransition(w, a) ==
  /\ tx[w] = Idle /\ RowFree(a) /\ task[a].open
  /\ Begin(w, [pc |-> "locked", app |-> a, rows |-> {}])
  /\ UNCHANGED <<log, position, advisory, task, failures>>

\* ... its audit event, last of all ...
WriteAudit(w) ==
  /\ tx[w].pc = "locked" /\ advisory = None
  /\ advisory' = w
  /\ Begin(w, [tx[w] EXCEPT !.pc = "audited",
       !.rows = {Chained(Positions(log), position + 1, "STATE_CHANGED", None, 0)}])
  /\ UNCHANGED <<log, position, task, failures>>

TasksMade == MapThenSumSet(LAMBDA b : task[b].no, App)

\* ... and COMMIT: the task is completed and, unless the application is
\* decided, followed by the next one.
CommitTransition(w) ==
  LET a == tx[w].app
      no == task[a].no
  IN /\ tx[w].pc = "audited"
     /\ log' = log \cup tx[w].rows /\ position' = position + 1
     /\ \/ task' = [task EXCEPT ![a].open = FALSE]
        \/ /\ TasksMade < MaxTasks
           /\ task' = [task EXCEPT ![a] =
                         [no |-> no + 1, open |-> TRUE, overdue |-> FALSE]]
     /\ advisory' = None
     /\ Begin(w, Idle)
     /\ UNCHANGED failures

\* sla_due_at passes.
BecomesOverdue(a) ==
  /\ task[a].open /\ ~task[a].overdue
  /\ task' = [task EXCEPT ![a].overdue = TRUE]
  /\ UNCHANGED <<log, position, advisory, tx, failures>>

(***************************************************************************)
(* The SLA scan.                                                           *)
(***************************************************************************)
BreachLogged(rows, a, no) ==
  \E r \in rows : r.kind = "SLA_BREACHED" /\ r.app = a /\ r.task = no

Late(a) ==
  task[a].open /\ task[a].overdue /\ ~BreachLogged(log, a, task[a].no)

\* Fault: an application is reported late once, whichever task is late.
OverdueOnce == {<<a, task[a].no>> : a \in {b \in App :
  Late(b) /\ ~\E r \in log : r.kind = "SLA_BREACHED" /\ r.app = b}}

Overdue == {<<a, task[a].no>> : a \in {b \in App : Late(b)}}

\* detectSLABreaches selects the tasks before its transaction begins.
Scan(s) ==
  /\ tx[s] = Idle /\ Overdue # {}
  /\ Begin(s, [pc |-> "read", batch |-> Overdue, rows |-> {}])
  /\ UNCHANGED <<log, position, advisory, task, failures>>

\* Fault: no unique index on the breach events.
NeverCollides(batch) == FALSE

\* idx_audit_sla_breach_unique refuses a second event for one task, and with
\* it the whole statement.
Collides(batch) == \E t \in batch : BreachLogged(log, t[1], t[2])

InsertBreaches(s) ==
  LET batch == tx[s].batch
  IN /\ tx[s].pc = "read" /\ advisory = None
     /\ IF Collides(batch)
          THEN Begin(s, Idle) /\ UNCHANGED advisory
          ELSE /\ advisory' = s
               /\ Begin(s, [tx[s] EXCEPT !.pc = "inserted",
                                         !.rows = ChainedBatch(batch)])
     /\ UNCHANGED <<log, position, task, failures>>

\* The notifications, whose foreign key locks the applications' rows, the
\* remark on the tasks and COMMIT.
CommitScan(s) ==
  /\ tx[s].pc = "inserted"
  /\ \A t \in tx[s].batch : RowFree(t[1])
  /\ log' = log \cup tx[s].rows
  /\ position' = position + Cardinality(tx[s].batch)
  /\ advisory' = None
  /\ Begin(s, Idle)
  /\ UNCHANGED <<task, failures>>

(***************************************************************************)
(* The rest.                                                               *)
(***************************************************************************)
\* ROLLBACK gives up every lock and every row.
RolledBack(p) ==
  /\ advisory' = IF advisory = p THEN None ELSE advisory
  /\ Begin(p, Idle)
  /\ UNCHANGED <<log, position, task>>

\* A crash, a lock timeout, a lost connection.
Fails(p) ==
  /\ failures < MaxFailures
  /\ tx[p].pc \in {"locked", "audited", "inserted"}
  /\ failures' = failures + 1
  /\ RolledBack(p)

\* A transition waits for the advisory lock of a scan that waits for its row;
\* PostgreSQL aborts one of them.
Deadlocked(w, s) ==
  /\ tx[w].pc = "locked" /\ advisory = s /\ tx[s].pc = "inserted"
  /\ \E t \in tx[s].batch : t[1] = tx[w].app

BreakDeadlock(w, s) ==
  /\ Deadlocked(w, s)
  /\ RolledBack(w) \/ RolledBack(s)
  /\ UNCHANGED failures

\* One statement outside any transaction; a login or a stored document is
\* recorded like client telemetry.
AppendEvent ==
  /\ position \in EventsAfter /\ advisory = None
  /\ log' = log \cup
       {Chained(Positions(log), position + 1, "CLIENT_CACHE_TELEMETRY", None, 0)}
  /\ position' = position + 1
  /\ UNCHANGED <<advisory, task, tx, failures>>

\* Fault: the age alone decides.
Expired(rows, limit) == {r \in rows : r.pos <= limit}

\* cleanupClientTelemetryEvents: telemetry older than the cutoff.
Purgeable(rows, limit) ==
  {r \in rows : r.kind = "CLIENT_CACHE_TELEMETRY" /\ r.pos <= limit}

Purge(limit) ==
  /\ log' = log \ Purgeable(log, limit)
  /\ log' # log
  /\ UNCHANGED <<position, advisory, task, tx, failures>>

\* The rows in the order the verification reads them.
Before(rows, r) == {x \in rows : x.pos < r.pos}
InOrder(rows) == [i \in 1 .. Cardinality(rows) |->
                   CHOOSE r \in rows : Cardinality(Before(rows, r)) = i - 1]
Ordered == InOrder(log)

\* verifyAuditChainIntegrity: each row was hashed with the one before it.
Verifies ==
  \A i \in DOMAIN Ordered :
    Ordered[i].prev = IF i = 1 THEN 0 ELSE Ordered[i - 1].pos

ScanStep(s) == InsertBreaches(s) \/ CommitScan(s)
WriteStep(w) == WriteAudit(w) \/ CommitTransition(w)

Next ==
  \/ \E w \in Writer : WriteStep(w) \/ \E a \in App : BeginTransition(w, a)
  \/ \E a \in App : BecomesOverdue(a)
  \/ \E s \in Scanner : Scan(s) \/ ScanStep(s)
  \/ \E p \in Process : Fails(p)
  \/ \E w \in Writer, s \in Scanner : BreakDeadlock(w, s)
  \/ AppendEvent
  \/ \E limit \in 1 .. position : Purge(limit)

Spec == Init /\ [][Next]_vars

\* The jobs run periodically, PostgreSQL serves the waiters of a lock in
\* order and breaks deadlocks, and a transaction goes on once it has its locks.
FairSpec ==
  /\ Spec
  /\ \A s \in Scanner : WF_vars(Scan(s)) /\ SF_vars(ScanStep(s))
  /\ \A w \in Writer : SF_vars(WriteStep(w))
  /\ \A w \in Writer, s \in Scanner : WF_vars(BreakDeadlock(w, s))

(***************************************************************************)
(* Properties.                                                             *)
(***************************************************************************)
\* Events, transactions and tasks have the shape the code gives them; who
\* has inserted and not yet ended holds the advisory lock.
TypeOK ==
  /\ log \in SUBSET Row /\ position \in Nat
  /\ advisory \in Process \cup {None}
  /\ task \in [App -> Task]
  /\ tx \in [Process -> TxState]
  /\ \A p \in Process :
       advisory = p <=> tx[p].pc \in {"audited", "inserted"}

\* The trigger never forks the chain and never links past a row: whatever
\* commits, rolls back or is purged, no event stands between an event and
\* the one its hash was computed from.
ChainIsLinear ==
  \A r, x \in log : ~(r.prev < x.pos /\ x.pos < r.pos)

\* Two scans of the same overdue task log one breach, and so notify the
\* applicant once.
OneBreachPerTask ==
  \A a \in App, no \in TaskNo :
    Cardinality({r \in log :
      r.kind = "SLA_BREACHED" /\ r.app = a /\ r.task = no}) <= 1

\* Whenever it runs, the verification accepts the chain.
AuditChainVerifies == Verifies

\* The audit log is append-only but for purged telemetry: events appear in
\* the order of their positions, although positions are drawn before commit.
Log == INSTANCE AppendOnlyLog WITH
  Removable <- {"CLIENT_CACHE_TELEMETRY"}, entries <- Ordered
ImplementsLog == Log!Spec

\* An overdue task is logged as breached in the end, unless the application
\* moves on first; deadlocks with transitions and scans that collide only
\* delay it.
OverdueIsNoticed == \A a \in App : Late(a) ~> ~Late(a)
=============================================================================
