------------------------ MODULE TransitionPoolProofs ------------------------
(***************************************************************************)
(* Proofs about the transaction of executeTransition for any number of     *)
(* requests, applications and connections: whichever of its statements     *)
(* fail, whoever waits for whom, and wherever a request dies.              *)
(***************************************************************************)
EXTENDS TransitionPool, TLAPS

(***************************************************************************)
(* What a step does to the request that takes it.                          *)
(***************************************************************************)
Within == {"lock", "decide", "assign", "due", "insert", "audit"}
After == {"notify", "store", "send"}
Column == {"state", "notice", "inspection", "task", "audit"}

\* The request that a step continues, with what its transaction has made.
LEMMA WorkMoves ==
  ASSUME NEW q \in Work, NEW pc \in Step
  PROVE  LET w == [q EXCEPT !.pc = pc]
         IN /\ w \in Work /\ w.pc = pc /\ w.app = q.app /\ w.from = q.from
            /\ w.rows = q.rows /\ w.aborted = q.aborted
BY DEF Work

LEMMA WorkAborts ==
  ASSUME NEW q \in Work, NEW pc \in Step
  PROVE  LET w == Aborted(q, pc)
         IN /\ w \in Work /\ w.pc = pc /\ w.app = q.app /\ w.from = q.from
            /\ w.rows = q.rows /\ w.aborted
BY DEF Work, Aborted

LEMMA InProgress ==
  ASSUME TypeOK, NEW r \in Request, req[r].pc # "idle"
  PROVE  req[r] \in Work /\ req[r] # Idle
BY DEF TypeOK, Idle

(***************************************************************************)
(* The inductive invariant.                                                *)
(***************************************************************************)

\* The rows a transaction that is not aborted has made so far.
Written(q) ==
  q.aborted \/ /\ q.pc \in {"assign", "due", "insert"} => "notice" \in q.rows
               /\ q.pc = "audit" => Rows \ {"audit"} \subseteq q.rows

\* Who works in a transaction has the application's row, in the state it saw.
WorksUnderLock ==
  \A r \in Request : req[r].pc \in Working =>
    /\ lock[req[r].app] = r /\ row[req[r].app].state = req[r].from
    /\ Written(req[r])

RowsComplete == \A a \in App : \A k \in Rows : row[a][k] = row[a].state

\* Who has committed has made its transition, of which nobody was told yet.
Announces(r) ==
  LET a == req[r].app
      s == req[r].from
  IN req[r].pc \in After =>
       /\ s < row[a].state /\ told[a][s] = 0
       /\ inbox[a][s] = IF req[r].pc = "send" THEN 1 ELSE 0

\* ... and is the only one who has.
Alone(r, p) ==
  req[r].pc \in After /\ req[p].pc \in After /\ r # p =>
    req[r].app # req[p].app \/ req[r].from # req[p].from

ToldIsTrue ==
  \A a \in App, s \in Move :
    told[a][s] <= inbox[a][s] /\ inbox[a][s] <= (IF s < row[a].state THEN 1 ELSE 0)

Inv ==
  /\ TypeOK /\ WorksUnderLock /\ RowsComplete /\ ToldIsTrue
  /\ \A r \in Request : Announces(r)
  /\ \A r, p \in Request : Alone(r, p)

(***************************************************************************)
(* The actions, by what they change.                                       *)
(***************************************************************************)
Becomes(r, w) == req' = [req EXCEPT ![r] = w]

Ends(r) ==
  /\ Becomes(r, Idle) /\ lock' \in {lock, Unlocked(r)}
  /\ UNCHANGED <<row, inbox, told, served>>

Starts(r, w) ==
  /\ Becomes(r, w) /\ w \in Work /\ w.pc = "connect" /\ served' \in Nat
  /\ UNCHANGED <<row, lock, inbox, told>>

\* The request goes on, about the same transition of the same application.
GoesOn(r, w) ==
  /\ Becomes(r, w) /\ UNCHANGED served
  /\ req[r] \in Work /\ w \in Work /\ w.app = req[r].app /\ w.from = req[r].from

Moves(r, w) ==
  /\ GoesOn(r, w) /\ UNCHANGED <<row, lock, inbox, told>>
  /\ \/ w.pc = "lock"
     \/ req[r].pc = "notify" /\ w.pc = "store"
     \/ req[r].pc \in Working /\ w.pc \in Working /\ Written(w)

Locks(r, w) ==
  /\ GoesOn(r, w) /\ w.pc = "decide" /\ UNCHANGED <<row, inbox, told>>
  /\ lock[w.app] = None /\ lock' = [lock EXCEPT ![w.app] = r]
  /\ row[w.app].state = w.from

Commits(r, w) ==
  /\ GoesOn(r, w) /\ req[r].pc = "audit" /\ w.pc = "notify" /\ ~req[r].aborted
  /\ row' = Committed(req[r]) /\ lock' = Unlocked(r) /\ UNCHANGED <<inbox, told>>

Stores(r, w) ==
  /\ GoesOn(r, w) /\ req[r].pc = "store" /\ w.pc = "send"
  /\ inbox' = [inbox EXCEPT ![w.app][w.from] = @ + 1]
  /\ UNCHANGED <<row, lock, told>>

Tells(r) ==
  /\ Becomes(r, Idle) /\ req[r] \in Work /\ req[r].pc = "send" /\ UNCHANGED served
  /\ told' = [told EXCEPT ![req[r].app][req[r].from] = @ + 1]
  /\ UNCHANGED <<row, lock, inbox>>

Shape(r) ==
  \/ Ends(r) \/ Tells(r)
  \/ \E w \in Work : Starts(r, w) \/ Moves(r, w) \/ Locks(r, w) \/ Commits(r, w) \/ Stores(r, w)

LEMMA AcceptShape ==
  ASSUME Inv, NEW r \in Request, NEW a \in App, NEW s \in Move, Accept(r, a, s)
  PROVE  Shape(r)
<1> DEFINE w == [pc |-> "connect", app |-> a, from |-> s, rows |-> {}, aborted |-> FALSE]
<1>1. w \in Work /\ w.pc = "connect"
  BY DEF Work, Step
<1>2. Becomes(r, w) /\ served' \in Nat /\ UNCHANGED <<row, lock, inbox, told>>
  BY DEF Accept, Becomes, Inv, TypeOK
<1> HIDE DEF w
<1> QED BY <1>1, <1>2 DEF Shape, Starts

\* Going on with another program counter alone.
LEMMA GotoShape ==
  ASSUME Inv, NEW r \in Request, req[r].pc # "idle", NEW pc \in Step, Goto(r, pc)
  PROVE  LET w == [req[r] EXCEPT !.pc = pc]
         IN /\ GoesOn(r, w) /\ w \in Work /\ w.pc = pc
            /\ w.rows = req[r].rows /\ w.aborted = req[r].aborted
<1>1. req[r] \in Work
  BY InProgress DEF Inv
<1>2. req' = [req EXCEPT ![r] = [req[r] EXCEPT !.pc = pc]] /\ UNCHANGED served
  BY DEF Goto
<1> QED BY <1>1, <1>2, WorkMoves DEF GoesOn, Becomes

LEMMA FailShape ==
  ASSUME NEW r \in Request, Fail(r)
  PROVE  Shape(r)
BY DEF Fail, Answer, Shape, Ends, Becomes

LEMMA ConnectShape ==
  ASSUME Inv, NEW r \in Request, Connect(r)
  PROVE  Shape(r)
<1>1. CASE Goto(r, "lock")
  BY <1>1, GotoShape DEF Connect, Shape, Moves, Step
<1>2. CASE Answer(r)
  BY <1>2 DEF Connect, Answer, Shape, Ends, Becomes
<1> QED BY <1>1, <1>2 DEF Connect

LEMMA LockRowShape ==
  ASSUME Inv, NEW r \in Request, LockRow(r)
  PROVE  Shape(r)
<1> DEFINE w == [req[r] EXCEPT !.pc = "decide"]
<1>1. GoesOn(r, w) /\ w \in Work /\ w.pc = "decide"
  BY GotoShape DEF LockRow, Step, Working
<1>2. /\ lock[req[r].app] = None /\ lock' = [lock EXCEPT ![req[r].app] = r]
      /\ row[req[r].app].state = req[r].from /\ UNCHANGED <<row, inbox, told>>
  BY DEF LockRow, StillThere
<1> HIDE DEF w
<1>3. Locks(r, w)
  BY <1>1, <1>2 DEF Locks, GoesOn
<1> QED BY <1>1, <1>3 DEF Shape

\* One of the statements whose failure is logged and ignored.
LEMMA DecideShape ==
  ASSUME Inv, NEW r \in Request, Decide(r)
  PROVE  Shape(r)
<1> DEFINE q == req[r]
<1>1. q \in Work /\ q.pc = "decide"
  BY InProgress DEF Inv, Decide
<1>2. PICK w \in Work :
        /\ Becomes(r, w) /\ w.pc = "assign" /\ w.app = q.app /\ w.from = q.from
        /\ w.aborted \/ "notice" \in w.rows
  <2> "assign" \in Step /\ "notice" \in Rows
    BY DEF Step, Working, Rows, Guarded
  <2>1. CASE Becomes(r, Aborted(q, "assign"))
    <3> DEFINE v == Aborted(q, "assign")
    <3>1. v \in Work /\ v.pc = "assign" /\ v.app = q.app /\ v.from = q.from /\ v.aborted
      BY <1>1, WorkAborts
    <3> HIDE DEF v
    <3> QED BY <2>1, <3>1 DEF v
  <2>2. CASE q.aborted /\ Becomes(r, [q EXCEPT !.pc = "assign"])
    <3> DEFINE v == [q EXCEPT !.pc = "assign"]
    <3>1. /\ v \in Work /\ v.pc = "assign" /\ v.app = q.app /\ v.from = q.from
          /\ v.aborted = q.aborted
      BY <1>1, WorkMoves
    <3> HIDE DEF v
    <3> QED BY <2>2, <3>1 DEF v
  <2>3. CASE Becomes(r, [q EXCEPT !.pc = "assign", !.rows = @ \cup {"notice"}])
    <3> DEFINE v == [q EXCEPT !.pc = "assign", !.rows = @ \cup {"notice"}]
    <3>1. /\ v \in Work /\ v.pc = "assign" /\ v.app = q.app /\ v.from = q.from
          /\ "notice" \in v.rows
      BY <1>1 DEF Work
    <3> HIDE DEF v
    <3> QED BY <2>3, <3>1 DEF v
  <2> QED BY <2>1, <2>2, <2>3 DEF Decide, Try, Becomes
<1>3. UNCHANGED <<row, lock, inbox, told, served>>
  BY DEF Decide, Try
<1>4. Moves(r, w)
  BY <1>1, <1>2, <1>3 DEF Moves, GoesOn, Working, Written
<1> QED BY <1>4 DEF Shape

LEMMA AskHolidaysShape ==
  ASSUME Inv, NEW r \in Request, AskHolidays(r) \/ ComputeDue(r)
  PROVE  Shape(r)
<1>1. req[r].pc \in {"assign", "due"} /\ Written(req[r])
  BY DEF AskHolidays, ComputeDue, Inv, WorksUnderLock, Working
<1>2. PICK pc \in {"due", "insert"} : Goto(r, pc)
  BY DEF AskHolidays, ComputeDue
<1> DEFINE w == [req[r] EXCEPT !.pc = pc]
<1>3. /\ GoesOn(r, w) /\ w \in Work /\ w.pc = pc
      /\ w.rows = req[r].rows /\ w.aborted = req[r].aborted
  BY <1>1, <1>2, GotoShape DEF Step, Working
<1>4. UNCHANGED <<row, lock, inbox, told>>
  BY DEF AskHolidays, ComputeDue
<1> HIDE DEF w
<1>5. Moves(r, w)
  BY <1>1, <1>2, <1>3, <1>4 DEF Moves, Working, Written
<1> QED BY <1>3, <1>5 DEF Shape

LEMMA InsertTaskShape ==
  ASSUME Inv, NEW r \in Request, InsertTask(r)
  PROVE  Shape(r)
<1> DEFINE q == req[r]
           t == [q EXCEPT !.rows = @ \cup {"task"}]
<1>1. q \in Work /\ q.pc = "insert" /\ Written(q)
  BY InProgress DEF Inv, InsertTask, WorksUnderLock, Working
<1>2. CASE Fail(r)
  BY <1>2, FailShape
<1>3. CASE ~q.aborted /\ ~Fail(r)
  <2>1. /\ t \in Work /\ t.app = q.app /\ t.from = q.from
        /\ t.rows = q.rows \cup {"task"} /\ "notice" \in q.rows
    BY <1>1, <1>3 DEF Work, Written, Rows, Guarded
  <2>2. \/ Becomes(r, [t EXCEPT !.pc = "audit", !.rows = @ \cup {"inspection"}])
        \/ Becomes(r, Aborted(t, "audit"))
    BY <1>3 DEF InsertTask, Becomes
  <2>3. UNCHANGED <<row, lock, inbox, told, served>>
    BY <1>3 DEF InsertTask
  <2> HIDE DEF t
  <2>4. PICK w \in Work :
          /\ Becomes(r, w) /\ w.pc = "audit" /\ w.app = q.app /\ w.from = q.from
          /\ w.aborted \/ Rows \ {"audit"} \subseteq w.rows
    <3> "audit" \in Step /\ "inspection" \in Rows
      BY DEF Step, Working, Rows, Guarded
    <3>1. CASE Becomes(r, [t EXCEPT !.pc = "audit", !.rows = @ \cup {"inspection"}])
      <4> DEFINE v == [t EXCEPT !.pc = "audit", !.rows = @ \cup {"inspection"}]
      <4>1. /\ v \in Work /\ v.pc = "audit" /\ v.app = q.app /\ v.from = q.from
            /\ v.rows = q.rows \cup {"task"} \cup {"inspection"}
        BY <2>1 DEF Work
      <4> HIDE DEF v
      <4>2. Rows \ {"audit"} \subseteq v.rows
        BY <2>1, <4>1 DEF Rows, Guarded
      <4>3. Becomes(r, v)
        BY <3>1 DEF v
      <4> QED BY <4>1, <4>2, <4>3
    <3>2. CASE Becomes(r, Aborted(t, "audit"))
      BY <2>1, <3>2, WorkAborts
    <3> QED BY <2>2, <3>1, <3>2
  <2>5. Moves(r, w)
    BY <1>1, <2>3, <2>4 DEF Moves, GoesOn, Working, Written
  <2> QED BY <2>5 DEF Shape
<1> QED BY <1>2, <1>3 DEF InsertTask

LEMMA CommitShape ==
  ASSUME Inv, NEW r \in Request, Commit(r)
  PROVE  Shape(r)
<1>1. CASE Fail(r)
  BY <1>1, FailShape
<1>2. CASE ~Fail(r)
  <2> DEFINE w == [req[r] EXCEPT !.pc = "notify"]
  <2>1. Goto(r, "notify") /\ req[r].pc = "audit"
    BY <1>2 DEF Commit
  <2>2. GoesOn(r, w) /\ w \in Work /\ w.pc = "notify"
    BY <2>1, GotoShape DEF Step
  <2> HIDE DEF w
  <2>3. Commits(r, w)
    BY <1>2, <2>1, <2>2 DEF Commit, Commits
  <2> QED BY <2>2, <2>3 DEF Shape
<1> QED BY <1>1, <1>2

LEMMA NotifyShape ==
  ASSUME Inv, NEW r \in Request, Notify(r)
  PROVE  Shape(r)
<1>1. CASE Goto(r, "store")
  BY <1>1, GotoShape DEF Notify, Shape, Moves, Step
<1>2. CASE Answer(r)
  BY <1>2 DEF Notify, Answer, Shape, Ends, Becomes
<1> QED BY <1>1, <1>2 DEF Notify

LEMMA StoreShape ==
  ASSUME Inv, NEW r \in Request, Store(r)
  PROVE  Shape(r)
<1> DEFINE w == [req[r] EXCEPT !.pc = "send"]
<1>1. GoesOn(r, w) /\ w \in Work /\ w.pc = "send"
  BY GotoShape DEF Store, Step
<1> HIDE DEF w
<1>2. Stores(r, w)
  BY <1>1 DEF Store, Stores, GoesOn
<1> QED BY <1>1, <1>2 DEF Shape

LEMMA SendShape ==
  ASSUME Inv, NEW r \in Request, Send(r)
  PROVE  Shape(r)
<1>1. req[r] \in Work /\ req[r].pc = "send"
  BY InProgress DEF Inv, Send
<1> QED BY <1>1 DEF Send, Answer, Shape, Ends, Tells, Becomes

LEMMA NextShape ==
  ASSUME Inv, Next
  PROVE  \E r \in Request : Shape(r)
BY AcceptShape, ConnectShape, LockRowShape, DecideShape, AskHolidaysShape, InsertTaskShape,
   CommitShape, NotifyShape, StoreShape, SendShape, FailShape
DEF Next, Serve, Refuse, Dies

(***************************************************************************)
(* Each part of the invariant is kept.                                     *)
(***************************************************************************)
\* The request of somebody else.
LEMMA OthersWait ==
  ASSUME Inv, NEW r \in Request, Shape(r), NEW p \in Request, p # r
  PROVE  req'[p] = req[p]
BY DEF Shape, Ends, Tells, Starts, Moves, Locks, Commits, Stores, GoesOn, Becomes, Inv, TypeOK

LEMMA StateGrows ==
  ASSUME Inv, NEW r \in Request, Shape(r), NEW a \in App
  PROVE  /\ row'[a] \in [Column -> Nat]
         /\ row[a].state <= row'[a].state
         /\ row'[a] # row[a] => /\ req[r].pc = "audit" /\ req[r].app = a
                               /\ req'[r].pc = "notify"
                               /\ row'[a].state = row[a].state + 1
                               /\ \A k \in Rows : row'[a][k] = row[a][k] + 1
<1>0. row[a] \in [Column -> Nat] /\ row \in [App -> [Column -> Nat]]
  BY DEF Inv, TypeOK, Column
<1>1. CASE row' = row
  BY <1>0, <1>1 DEF Column
<1>2. CASE row' # row
  <2>1. PICK w \in Work : Commits(r, w)
    BY <1>2 DEF Shape, Ends, Tells, Starts, Moves, Locks, Stores
  <2> DEFINE q == req[r]
  <2>2. q \in Work /\ q.pc = "audit" /\ ~q.aborted /\ row' = Committed(q)
    BY <2>1 DEF Commits, GoesOn
  <2>3. Rows \subseteq q.rows \cup {"audit"} /\ q.rows \subseteq Rows
    BY <2>2 DEF Inv, WorksUnderLock, Working, Written, Work
  <2>4. req'[r].pc = "notify"
    BY <2>1 DEF Commits, GoesOn, Becomes, Inv, TypeOK
  <2>5. CASE a = q.app
    <3>1. row'[a] = [k \in Column |-> row[a][k] +
                       (IF k = "state" \/ k \in q.rows \cup {"audit"} THEN 1 ELSE 0)]
      BY <1>0, <2>2, <2>5 DEF Committed, Column
    <3>2. row'[a] = [k \in Column |-> row[a][k] + 1]
      BY <2>3, <3>1 DEF Column, Rows, Guarded
    <3> QED BY <1>0, <2>2, <2>4, <2>5, <3>2 DEF Column, Rows, Guarded
  <2>6. CASE a # q.app
    BY <1>0, <2>2, <2>6 DEF Committed, Column
  <2> QED BY <2>5, <2>6
<1> QED BY <1>1, <1>2

LEMMA NextType ==
  ASSUME Inv, NEW r \in Request, Shape(r)
  PROVE  TypeOK'
<1>1. row' \in [App -> [Column -> Nat]]
  <2>1. row' = row \/ row' = Committed(req[r])
    BY DEF Shape, Ends, Tells, Starts, Moves, Locks, Commits, Stores
  <2>2. DOMAIN row' = App /\ row' = [a \in App |-> row'[a]]
    BY <2>1 DEF Committed, Inv, TypeOK
  <2> QED BY <2>2, StateGrows
<1>2. lock' \in [App -> Request \cup {None}]
  BY DEF Shape, Ends, Tells, Starts, Moves, Locks, Commits, Stores, GoesOn, Unlocked, Inv, TypeOK, Work
<1>3. /\ inbox' \in [App -> [Move -> Nat]] /\ told' \in [App -> [Move -> Nat]]
      /\ served' \in Nat
  <2>1. /\ inbox \in [App -> [Move -> Nat]] /\ told \in [App -> [Move -> Nat]]
        /\ served \in Nat
    BY DEF Inv, TypeOK
  <2>2. CASE UNCHANGED <<inbox, told>> /\ served' \in Nat
    BY <2>1, <2>2
  <2>3. ASSUME NEW w \in Work, Stores(r, w)
        PROVE  inbox' \in [App -> [Move -> Nat]] /\ UNCHANGED <<told, served>>
    <3>1. w.app \in App /\ w.from \in Move /\ UNCHANGED <<told, served>>
      BY <2>3 DEF Stores, GoesOn, Work
    <3> QED BY <2>1, <2>3, <3>1 DEF Stores
  <2>4. ASSUME Tells(r)
        PROVE  told' \in [App -> [Move -> Nat]] /\ UNCHANGED <<inbox, served>>
    <3>1. req[r].app \in App /\ req[r].from \in Move /\ UNCHANGED <<inbox, served>>
      BY <2>4 DEF Tells, Work
    <3> QED BY <2>1, <2>4, <3>1 DEF Tells
  <2> QED
    BY <2>1, <2>2, <2>3, <2>4 DEF Shape, Ends, Starts, Moves, Locks, Commits, GoesOn
<1>4. req' \in [Request -> Work \cup {Idle}]
  BY DEF Shape, Ends, Tells, Starts, Moves, Locks, Commits, Stores, GoesOn, Becomes, Inv, TypeOK
<1> QED BY <1>1, <1>2, <1>3, <1>4 DEF TypeOK, Column

\* The lock of a request that is not the one that moves.
LEMMA LockKept ==
  ASSUME Inv, NEW r \in Request, Shape(r), NEW a \in App, lock[a] \in Request \ {r}
  PROVE  lock'[a] = lock[a]
BY PoolAssumption
DEF Shape, Ends, Tells, Starts, Moves, Locks, Commits, Stores, GoesOn, Unlocked, Inv, TypeOK, Work

LEMMA NextWorksUnderLock ==
  ASSUME Inv, NEW r \in Request, Shape(r)
  PROVE  WorksUnderLock'
<1> SUFFICES ASSUME NEW p \in Request, req'[p].pc \in Working
             PROVE  /\ lock'[req'[p].app] = p /\ row'[req'[p].app].state = req'[p].from
                    /\ Written(req'[p])
  BY DEF WorksUnderLock
<1>1. CASE p # r
  <2>1. req'[p] = req[p] /\ req[p] \in Work
    BY <1>1, OthersWait, InProgress DEF Inv, Working
  <2> DEFINE a == req[p].app
  <2>2. a \in App /\ lock[a] = p /\ row[a].state = req[p].from /\ Written(req[p])
    BY <2>1 DEF Inv, WorksUnderLock, Work
  <2>3. lock'[a] = p
    BY <1>1, <2>2, LockKept
  <2>4. row'[a] = row[a]
    BY <1>1, <2>2, StateGrows DEF Inv, WorksUnderLock, Working
  <2> QED BY <2>1, <2>2, <2>3, <2>4
<1>2. CASE p = r
  <2>1. PICK w \in Work : (Moves(r, w) \/ Locks(r, w)) /\ req'[r] = w /\ w.pc \in Working
    <3>1. ASSUME Ends(r) \/ Tells(r)
          PROVE  req'[r].pc \notin Working
      BY <3>1 DEF Ends, Tells, Becomes, Inv, TypeOK, Idle, Working
    <3>2. ASSUME NEW w \in Work,
                 Starts(r, w) \/ Moves(r, w) \/ Locks(r, w) \/ Commits(r, w) \/ Stores(r, w)
          PROVE  req'[r] = w /\ (w.pc \in Working => Moves(r, w) \/ Locks(r, w))
      BY <3>2 DEF Starts, Moves, Locks, Commits, Stores, GoesOn, Becomes, Inv, TypeOK, Working
    <3> QED BY <1>2, <3>1, <3>2 DEF Shape
  <2>2. CASE Moves(r, w)
    BY <1>2, <2>1, <2>2 DEF Moves, GoesOn, Inv, WorksUnderLock, Working
  <2>3. CASE Locks(r, w)
    BY <1>2, <2>1, <2>3 DEF Locks, GoesOn, Inv, TypeOK, Written, Work
  <2> QED BY <2>1, <2>2, <2>3
<1> QED BY <1>1, <1>2

LEMMA NextRowsComplete ==
  ASSUME Inv, NEW r \in Request, Shape(r)
  PROVE  RowsComplete'
<1> SUFFICES ASSUME NEW a \in App, NEW k \in Rows
             PROVE  row'[a][k] = row'[a].state
  BY DEF RowsComplete
<1>1. row[a][k] = row[a].state
  BY DEF Inv, RowsComplete
<1> QED BY <1>1, StateGrows

\* After its commit a request is alone with its transition.
LEMMA NextAfter ==
  ASSUME Inv, NEW r \in Request, Shape(r), TypeOK'
  PROVE  req'[r].pc \in After =>
           /\ req'[r].app \in App /\ req'[r].from \in Move
           /\ req'[r].app = req[r].app /\ req'[r].from = req[r].from
           /\ \/ req[r].pc \in After
              \/ /\ req[r].pc = "audit" /\ req'[r].pc = "notify"
                 /\ row[req[r].app].state = req[r].from
                 /\ row'[req[r].app].state = req[r].from + 1
                 /\ UNCHANGED <<inbox, told>>
<1>1. ASSUME Ends(r) \/ Tells(r)
      PROVE  req'[r].pc \notin After
  BY <1>1 DEF Ends, Tells, Becomes, Inv, TypeOK, Idle, After
<1>2. ASSUME NEW w \in Work, Starts(r, w) \/ Moves(r, w) \/ Locks(r, w) \/ Stores(r, w)
      PROVE  req'[r].pc \in After =>
           /\ req'[r].app \in App /\ req'[r].from \in Move
           /\ req'[r].app = req[r].app /\ req'[r].from = req[r].from
           /\ req[r].pc \in After
  BY <1>2 DEF Starts, Moves, Locks, Stores, GoesOn, Becomes, Inv, TypeOK, After, Working, Work
<1>3. ASSUME NEW w \in Work, Commits(r, w)
      PROVE  /\ req'[r].app \in App /\ req'[r].from \in Move
             /\ req'[r].app = req[r].app /\ req'[r].from = req[r].from
             /\ req[r].pc = "audit" /\ req'[r].pc = "notify"
             /\ row[req[r].app].state = req[r].from
             /\ row'[req[r].app].state = req[r].from + 1
             /\ UNCHANGED <<inbox, told>>
  <2>1. /\ req'[r] = w /\ w.pc = "notify" /\ req[r].pc = "audit"
        /\ w.app = req[r].app /\ w.from = req[r].from /\ w.app \in App /\ w.from \in Move
        /\ req[r] \in Work /\ UNCHANGED <<inbox, told>> /\ row' = Committed(req[r])
    BY <1>3 DEF Commits, GoesOn, Becomes, Inv, TypeOK, Work
  <2>2. row[w.app].state = w.from /\ row[w.app] \in [Column -> Nat]
    BY <2>1 DEF Inv, WorksUnderLock, Working, TypeOK, Column
  <2>3. row'[w.app].state = row[w.app].state + 1
    BY <2>1, <2>2 DEF Committed, Inv, TypeOK, Column
  <2> QED BY <2>1, <2>2, <2>3
<1> QED BY <1>1, <1>2, <1>3 DEF Shape

\* Where the notifications and the answers change.
LEMMA NotificationSteps ==
  ASSUME Inv, NEW r \in Request, Shape(r), NEW a \in App, NEW s \in Move
  PROVE  /\ inbox[a][s] \in Nat /\ told[a][s] \in Nat
         /\ \/ inbox'[a][s] = inbox[a][s] /\ told'[a][s] = told[a][s]
            \/ /\ req[r].pc = "store" /\ req'[r].pc = "send"
               /\ req[r].app = a /\ req[r].from = s
               /\ inbox'[a][s] = inbox[a][s] + 1 /\ told'[a][s] = told[a][s]
            \/ /\ req[r].pc = "send" /\ req'[r].pc = "idle"
               /\ req[r].app = a /\ req[r].from = s
               /\ inbox'[a][s] = inbox[a][s] /\ told'[a][s] = told[a][s] + 1
<1>1. inbox \in [App -> [Move -> Nat]] /\ told \in [App -> [Move -> Nat]]
  BY DEF Inv, TypeOK
<1>2. CASE UNCHANGED <<inbox, told>>
  BY <1>1, <1>2
<1>3. CASE ~UNCHANGED <<inbox, told>>
  <2>1. ASSUME Tells(r)
        PROVE  /\ req[r].pc = "send" /\ req'[r].pc = "idle" /\ inbox' = inbox
               /\ told' = [told EXCEPT ![req[r].app][req[r].from] = @ + 1]
    BY <2>1 DEF Tells, Becomes, Inv, TypeOK, Idle
  <2>2. ASSUME NEW w \in Work, Stores(r, w)
        PROVE  /\ req[r].pc = "store" /\ req'[r].pc = "send" /\ told' = told
               /\ inbox' = [inbox EXCEPT ![req[r].app][req[r].from] = @ + 1]
    BY <2>2 DEF Stores, GoesOn, Becomes, Inv, TypeOK
  <2>3. CASE Tells(r)
    BY <1>1, <2>1, <2>3
  <2>4. CASE \E w \in Work : Stores(r, w)
    BY <1>1, <2>2, <2>4
  <2> QED BY <1>3, <2>3, <2>4 DEF Shape, Ends, Starts, Moves, Locks, Commits
<1> QED BY <1>2, <1>3

LEMMA NextAlone ==
  ASSUME Inv, NEW r \in Request, Shape(r), TypeOK'
  PROVE  \A p, u \in Request : Alone(p, u)'
<1>1. ASSUME NEW p \in Request, p # r, req'[r].pc \in After, req[p].pc \in After
      PROVE  req'[r].app # req[p].app \/ req'[r].from # req[p].from
  <2>1. CASE req[r].pc \in After
    BY <1>1, <2>1, NextAfter DEF Inv, Alone
  <2>2. CASE req[r].pc \notin After
    <3>1. /\ req'[r].app = req[r].app /\ req'[r].from = req[r].from
          /\ row[req[r].app].state = req[r].from
      BY <1>1, <2>2, NextAfter
    <3>2. req[p].from < row[req[p].app].state /\ req[p].from \in Nat
      BY <1>1, InProgress DEF Inv, Announces, After, Work, Move
    <3> QED BY <3>1, <3>2
  <2> QED BY <2>1, <2>2
<1>2. \A p \in Request \ {r} : req'[p] = req[p]
  BY OthersWait
<1> QED BY <1>1, <1>2 DEF Inv, Alone

LEMMA NextAnnounces ==
  ASSUME Inv, NEW r \in Request, Shape(r), TypeOK', NEW p \in Request
  PROVE  Announces(p)'
<1> SUFFICES ASSUME req'[p].pc \in After
             PROVE  LET a == req'[p].app
                        s == req'[p].from
                    IN /\ s < row'[a].state /\ told'[a][s] = 0
                       /\ inbox'[a][s] = IF req'[p].pc = "send" THEN 1 ELSE 0
  BY DEF Announces
<1> DEFINE a == req'[p].app
           s == req'[p].from
<1>1. CASE p # r
  <2>1. req'[p] = req[p] /\ a \in App /\ s \in Move
    BY <1>1, OthersWait, InProgress DEF Inv, After, Work
  <2>2. /\ s < row[a].state /\ told[a][s] = 0
        /\ inbox[a][s] = IF req[p].pc = "send" THEN 1 ELSE 0
    BY <2>1 DEF Inv, Announces
  <2>3. row[a].state <= row'[a].state /\ row[a].state \in Nat /\ row'[a].state \in Nat
    BY <2>1, StateGrows DEF Column, Inv, TypeOK
  <2>4. ~(req[r].pc \in After /\ req[r].app = a /\ req[r].from = s)
    BY <1>1, <2>1 DEF Inv, Alone
  <2>5. inbox'[a][s] = inbox[a][s] /\ told'[a][s] = told[a][s]
    BY <2>1, <2>4, NotificationSteps DEF After
  <2> QED BY <2>1, <2>2, <2>3, <2>5 DEF Move
<1>2. CASE p = r
  <2>1. /\ a \in App /\ s \in Move /\ a = req[r].app /\ s = req[r].from
    BY <1>2, NextAfter
  <2>2. CASE req[r].pc \in After
    <3>1. /\ s < row[a].state /\ told[a][s] = 0
          /\ inbox[a][s] = IF req[r].pc = "send" THEN 1 ELSE 0
      BY <2>1, <2>2 DEF Inv, Announces
    <3>2. row[a].state <= row'[a].state /\ row[a].state \in Nat /\ row'[a].state \in Nat
      BY <2>1, StateGrows DEF Column, Inv, TypeOK
    <3>3. ~Ends(r) /\ ~Tells(r)
      BY <1>2 DEF Ends, Tells, Becomes, Inv, TypeOK, Idle, After
    <3>4. PICK w \in Work : Moves(r, w) \/ Stores(r, w)
      BY <1>2, <2>2, <3>3 DEF Shape, Starts, Locks, Commits, GoesOn, Becomes, Inv, TypeOK, After
    <3>5. CASE Moves(r, w)
      <4>1. req'[r] = w /\ req[r].pc = "notify" /\ w.pc = "store" /\ UNCHANGED <<inbox, told>>
        BY <1>2, <2>2, <3>5 DEF Moves, GoesOn, Becomes, Inv, TypeOK, After, Working
      <4> QED BY <1>2, <2>1, <3>1, <3>2, <4>1 DEF Move
    <3>6. CASE Stores(r, w)
      <4>1. /\ req'[r] = w /\ req[r].pc = "store" /\ w.pc = "send" /\ UNCHANGED told
            /\ inbox' = [inbox EXCEPT ![a][s] = @ + 1] /\ inbox \in [App -> [Move -> Nat]]
        BY <1>2, <2>1, <3>6 DEF Stores, GoesOn, Becomes, Inv, TypeOK
      <4> HIDE DEF a, s
      <4>2. inbox'[a][s] = 1
        BY <2>1, <3>1, <4>1
      <4> QED BY <1>2, <2>1, <3>1, <3>2, <4>1, <4>2 DEF Move, a, s
    <3> QED BY <3>4, <3>5, <3>6
  <2>3. CASE req[r].pc \notin After
    <3>1. /\ req'[r].pc = "notify" /\ row[a].state = s /\ row'[a].state = s + 1
          /\ UNCHANGED <<inbox, told>>
      BY <1>2, <2>1, <2>3, NextAfter
    <3>2. told[a][s] <= inbox[a][s] /\ inbox[a][s] <= 0
      BY <2>1, <3>1 DEF Inv, ToldIsTrue, Move
    <3> QED BY <1>2, <2>1, <3>1, <3>2, NotificationSteps DEF Move
  <2> QED BY <2>2, <2>3
<1> QED BY <1>1, <1>2

LEMMA NextToldIsTrue ==
  ASSUME Inv, NEW r \in Request, Shape(r)
  PROVE  ToldIsTrue'
<1> SUFFICES ASSUME NEW a \in App, NEW s \in Move
             PROVE  /\ told'[a][s] <= inbox'[a][s]
                    /\ inbox'[a][s] <= (IF s < row'[a].state THEN 1 ELSE 0)
  BY DEF ToldIsTrue
<1>1. /\ told[a][s] <= inbox[a][s] /\ inbox[a][s] <= (IF s < row[a].state THEN 1 ELSE 0)
      /\ row[a].state <= row'[a].state /\ row[a].state \in Nat /\ row'[a].state \in Nat
  BY StateGrows DEF Inv, ToldIsTrue, TypeOK, Column
<1>2. req[r].pc \in After /\ req[r].app = a /\ req[r].from = s =>
        /\ s < row[a].state /\ told[a][s] = 0
        /\ inbox[a][s] = IF req[r].pc = "send" THEN 1 ELSE 0
  BY DEF Inv, Announces
<1> QED BY <1>1, <1>2, NotificationSteps DEF Move, After

(***************************************************************************)
(* The theorems.                                                           *)
(***************************************************************************)
LEMMA InitInv == Init => Inv
BY PoolAssumption
DEF Init, Inv, TypeOK, NewRow, Idle, Column, WorksUnderLock, RowsComplete, ToldIsTrue, Announces,
    Alone, Working, After, Rows, Guarded, Move

LEMMA NextInv == Inv /\ [Next]_vars => Inv'
<1> SUFFICES ASSUME Inv, [Next]_vars PROVE Inv'
  OBVIOUS
<1>1. CASE Next
  <2>1. PICK r \in Request : Shape(r)
    BY <1>1, NextShape
  <2>2. TypeOK'
    BY <2>1, NextType
  <2> QED
    BY <2>1, <2>2, NextWorksUnderLock, NextRowsComplete, NextToldIsTrue, NextAnnounces, NextAlone
    DEF Inv
<1>2. CASE UNCHANGED vars
  BY <1>2 DEF vars, Inv, TypeOK, WorksUnderLock, RowsComplete, ToldIsTrue, Announces, Alone
<1> QED BY <1>1, <1>2

\* Every row, lock, count and request keeps the shape the code gives it.
THEOREM TypeCorrect == Spec => []TypeOK
<1>1. Inv => TypeOK
  BY DEF Inv
<1> QED BY <1>1, InitInv, NextInv, PTL DEF Spec

\* However many connections, transitions and failures: what a transition makes
\* is made whole or not at all, and nobody is told of a transition that was
\* not made, or that another request made.
THEOREM AllOrNothingAlways == Spec => []AllOrNothing
<1>1. Inv => AllOrNothing
  BY DEF Inv, AllOrNothing, RowsComplete, ToldIsTrue
<1> QED BY <1>1, InitInv, NextInv, PTL DEF Spec
=============================================================================
