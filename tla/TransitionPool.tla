--------------------------- MODULE TransitionPool ---------------------------
(***************************************************************************)
(* One transition of executeTransition (workflow.ts) seen from the         *)
(* database: the connections of the pool it holds and waits for (db.ts),   *)
(* the row lock, the statements whose failure the code swallows, and the   *)
(* notification written after COMMIT (notifications.ts).  The transition   *)
(* moves an application one state further, records a decision with its     *)
(* notice, and creates the next task with an inspection, as a pack's       *)
(* transitions do; which state it is WorkflowEngine tells.                 *)
(*                                                                         *)
(* A request holds its own connection from Connect until it is answered,   *)
(* and asks the pool for a second one twice: for the holidays of the due   *)
(* date, and for the notification.  Other users of the pool only make it   *)
(* smaller.                                                                *)
(***************************************************************************)
EXTENDS Naturals, FiniteSets

CONSTANTS
  App,       \* applications
  Request,   \* requests under way at once
  PoolMax,   \* DB_POOL_MAX
  MaxMoves,  \* bound on the transitions of an application
  MaxWork,   \* bound on the requests accepted
  None       \* no request

ASSUME PoolAssumption == None \notin Request

VARIABLES
  row,    \* applications with the rows that hang on them, counted
  lock,   \* the request that has the row FOR UPDATE
  inbox,  \* notifications written, by application and transition
  told,   \* history: requests that were told their transition happened
  req,    \* requests under way
  served  \* requests accepted

vars == <<row, lock, inbox, told, req, served>>

Move == 0 .. MaxMoves - 1  \* a transition, named by the state it leaves
Idle == [pc |-> "idle"]
Guarded == {"notice", "inspection"}
Rows == Guarded \cup {"task", "audit"}
Working == {"decide", "assign", "due", "insert", "audit"}
Step == {"connect", "lock", "notify", "store", "send"} \cup Working
Work == [pc : Step, app : App, from : Move, rows : SUBSET Rows, aborted : BOOLEAN]

\* createApplication
NewRow == [state |-> 0, notice |-> 0, inspection |-> 0, task |-> 0, audit |-> 0]

Init ==
  /\ row = [a \in App |-> NewRow]
  /\ lock = [a \in App |-> None]
  /\ inbox = [a \in App |-> [s \in Move |-> 0]] /\ told = inbox
  /\ req = [r \in Request |-> Idle] /\ served = 0

(***************************************************************************)
(* The pool.                                                               *)
(***************************************************************************)
\* The connection of the request, and that of a notification being stored.
Busy == {r \in Request : req[r].pc \notin {"idle", "connect"}}
Second == {r \in Request : req[r].pc = "store"}
Free == Cardinality(Busy) + Cardinality(Second) < PoolMax

\* Fault: connectionTimeoutMillis is not set; pg-pool then waits for ever.
NeverTimesOut == FALSE

\* connectionTimeoutMillis: two seconds without a free connection.
TimesOut == ~Free

Goto(r, pc) == req' = [req EXCEPT ![r].pc = pc] /\ UNCHANGED served
Answer(r) == req' = [req EXCEPT ![r] = Idle] /\ UNCHANGED served

\* ROLLBACK frees the row, if it was locked by this request.
Unlocked(r) == [a \in App |-> IF lock[a] = r THEN None ELSE lock[a]]

\* The catch block: success FALSE.
Fail(r) == Answer(r) /\ lock' = Unlocked(r) /\ UNCHANGED <<row, inbox, told>>

\* An officer acts on an application in a state he has seen.
Accept(r, a, s) ==
  /\ req[r] = Idle /\ served < MaxWork /\ s <= row[a].state
  /\ req' = [req EXCEPT ![r] = [pc |-> "connect", app |-> a, from |-> s,
                                rows |-> {}, aborted |-> FALSE]]
  /\ served' = served + 1
  /\ UNCHANGED <<row, lock, inbox, told>>

Connect(r) ==
  /\ req[r].pc = "connect"
  /\ \/ Free /\ Goto(r, "lock")
     \/ TimesOut /\ Answer(r)
  /\ UNCHANGED <<row, lock, inbox, told>>

(***************************************************************************)
(* The transaction.                                                        *)
(***************************************************************************)
\* INVALID_STATE: transition.fromStateId is not the state of the row.
StillThere(q) == row[q.app].state = q.from

\* SELECT ... FOR UPDATE
LockRow(r) ==
  LET q == req[r]
  IN /\ q.pc = "lock" /\ lock[q.app] = None /\ StillThere(q)
     /\ lock' = [lock EXCEPT ![q.app] = r]
     /\ Goto(r, "decide")
     /\ UNCHANGED <<row, inbox, told>>

\* Refused, or lock_timeout.
Refuse(r) ==
  /\ req[r].pc = "lock"
  /\ lock[req[r].app] # None \/ ~StillThere(req[r])
  /\ Fail(r)

\* Fault: a swallowed failure leaves the transaction as it was.
Swallowed(q, to) == [q EXCEPT !.pc = to]

\* PostgreSQL refuses every later statement of the transaction.
Aborted(q, to) == [q EXCEPT !.pc = to, !.aborted = TRUE]

\* A statement within try and catch writes its row, or fails and is logged.
Try(r, kind, to) ==
  LET q == req[r]
  IN /\ req' = [req EXCEPT ![r] = IF q.aborted THEN [q EXCEPT !.pc = to]
                                  ELSE [q EXCEPT !.pc = to, !.rows = @ \cup {kind}]]
        \/ req' = [req EXCEPT ![r] = Aborted(q, to)]
     /\ UNCHANGED <<row, lock, inbox, told, served>>

\* RECORD_DECISION with its notice.
Decide(r) == req[r].pc = "decide" /\ Try(r, "notice", "assign")

\* ASSIGN_NEXT_TASK reads the authority, then its holidays; in an aborted
\* transaction the first read fails and the task falls due by the calendar.
AskHolidays(r) ==
  /\ req[r].pc = "assign" /\ Goto(r, IF req[r].aborted THEN "insert" ELSE "due")
  /\ UNCHANGED <<row, lock, inbox, told>>

\* calculateSLADueDate on a second connection, or without it.
ComputeDue(r) ==
  /\ req[r].pc = "due" /\ (Free \/ TimesOut) /\ Goto(r, "insert")
  /\ UNCHANGED <<row, lock, inbox, told>>

\* INSERT INTO task, then maybeCreateInspectionForTask.
InsertTask(r) ==
  /\ req[r].pc = "insert"
  /\ \/ req[r].aborted /\ Fail(r)
     \/ /\ ~req[r].aborted
        /\ LET q == [req[r] EXCEPT !.rows = @ \cup {"task"}]
           IN \/ req' = [req EXCEPT ![r] = [q EXCEPT !.pc = "audit", !.rows = @ \cup {"inspection"}]]
              \/ req' = [req EXCEPT ![r] = Aborted(q, "audit")]
        /\ UNCHANGED <<row, lock, inbox, told, served>>

\* The rows of the transaction, and the state.
Committed(q) ==
  [row EXCEPT ![q.app] =
     [k \in DOMAIN @ |-> @[k] + (IF k = "state" \/ k \in q.rows \cup {"audit"} THEN 1 ELSE 0)]]

\* INSERT INTO audit_event, which fails when its own lock times out, and COMMIT.
Commit(r) ==
  LET q == req[r]
  IN /\ q.pc = "audit"
     /\ \/ Fail(r)
        \/ /\ ~q.aborted
           /\ row' = Committed(q) /\ lock' = Unlocked(r)
           /\ Goto(r, "notify")
           /\ UNCHANGED <<inbox, told>>

(***************************************************************************)
(* After the commit, with the connection still held.                       *)
(***************************************************************************)
\* createNotification: success FALSE although the transition happened.
Notify(r) ==
  /\ req[r].pc = "notify"
  /\ \/ Free /\ Goto(r, "store")
     \/ TimesOut /\ Answer(r)
  /\ UNCHANGED <<row, lock, inbox, told>>

\* The foreign key waits for the application's row.
Store(r) ==
  LET q == req[r]
  IN /\ q.pc = "store" /\ lock[q.app] = None
     /\ inbox' = [inbox EXCEPT ![q.app][q.from] = @ + 1]
     /\ Goto(r, "send")
     /\ UNCHANGED <<row, lock, told>>

\* The transports; their failures are logged.
Send(r) ==
  LET q == req[r]
  IN /\ q.pc = "send"
     /\ \/ Free /\ told' = [told EXCEPT ![q.app][q.from] = @ + 1]
        \/ TimesOut /\ UNCHANGED told
     /\ Answer(r)
     /\ UNCHANGED <<row, lock, inbox>>

\* The process ends; the server rolls its transactions back.
Dies(r) == req[r] # Idle /\ Fail(r)

Serve(r) ==
  \/ Connect(r) \/ LockRow(r) \/ Refuse(r) \/ Decide(r) \/ AskHolidays(r) \/ ComputeDue(r)
  \/ InsertTask(r) \/ Commit(r) \/ Notify(r) \/ Store(r) \/ Send(r)

Next == \E r \in Request :
  \/ \E a \in App, s \in Move : Accept(r, a, s)
  \/ Serve(r) \/ Dies(r)

Spec == Init /\ [][Next]_vars
FairSpec == Spec /\ \A r \in Request : WF_vars(Serve(r))

(***************************************************************************)
(* Properties.                                                             *)
(***************************************************************************)
TypeOK ==
  /\ row \in [App -> [{"state", "notice", "inspection", "task", "audit"} -> Nat]]
  /\ lock \in [App -> Request \cup {None}]
  /\ inbox \in [App -> [Move -> Nat]] /\ told \in [App -> [Move -> Nat]] /\ served \in Nat
  /\ req \in [Request -> Work \cup {Idle}]

\* A transition is made with its decision's notice, the task, the inspection
\* and the audit entry or not at all, although the code goes on when some of
\* these statements fail; and what is answered as done was done, once, and
\* the applicant can read of it: requests that repeat a transition, because
\* they raced or were answered with a failure, are never told that they made it.
AllOrNothing ==
  /\ \A a \in App : \A k \in Rows : row[a][k] = row[a].state
  /\ \A a \in App, s \in Move :
       told[a][s] <= inbox[a][s] /\ inbox[a][s] <= (IF s < row[a].state THEN 1 ELSE 0)

\* Requests that hold a connection, or a row, and wait for another always end.
EveryRequestEnds == \A r \in Request : req[r] # Idle ~> req[r] = Idle
=============================================================================
