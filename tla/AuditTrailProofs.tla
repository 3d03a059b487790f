-------------------------- MODULE AuditTrailProofs --------------------------
(***************************************************************************)
(* Proofs about the audit log for any number of applications, transitions  *)
(* and scans, however their transactions interleave, fail and deadlock.    *)
(***************************************************************************)
EXTENDS AuditTrail, FiniteSetTheorems, WellFoundedInduction, TLAPS

(***************************************************************************)
(* The trigger.                                                            *)
(***************************************************************************)
\* Positions up to n have a last one.
LEMMA LastIsGreatest ==
  ASSUME NEW n \in Nat, NEW S, S \subseteq 1..n
  PROVE  /\ LastOf(S) \in {0} \cup S
         /\ \A x \in S : x <= LastOf(S)
<1> DEFINE U == {0} \cup S
           T == {n - i : i \in U}
<1>1. U \subseteq 0..n /\ U # {}
  OBVIOUS
<1>2. \A i \in U : i \in Int /\ n - i \in Nat
  BY <1>1
<1>3. T \subseteq Nat /\ T # {}
  BY <1>1, <1>2
<1>4. PICK m \in T : \A y \in T : ~(<<y, m>> \in OpToRel(<, Nat))
  <2> HIDE DEF T
  <2> QED BY <1>3, NatLessThanWellFounded, WFMin
<1>5. PICK i \in U : m = n - i
  BY <1>4
<1>6. ASSUME NEW j \in U
      PROVE  j <= i
  <2>1. n - j \in T
    BY <1>6
  <2> HIDE DEF T
  <2>2. ~(<<n - j, n - i>> \in OpToRel(<, Nat))
    BY <1>4, <1>5, <2>1
  <2>3. ~(n - j < n - i)
    BY <1>2, <1>5, <1>6, <2>2 DEF OpToRel
  <2> HIDE DEF U
  <2> QED BY <1>2, <2>3
<1>7. \E x \in U : \A y \in U : x >= y
  <2> HIDE DEF U, T
  <2> QED BY <1>2, <1>6
<1>8. Max(U) \in U /\ \A y \in U : Max(U) >= y
  <2> HIDE DEF U, T
  <2> QED BY <1>7 DEF Max
<1>9. Max(U) \in Int
  BY <1>2, <1>8
<1>10. LastOf(S) = Max(U)
  BY DEF LastOf
<1> HIDE DEF T
<1> QED BY <1>2, <1>8, <1>9, <1>10

\* Two rows that report the same late task.
SameBreach(r, x) ==
  /\ r.kind = "SLA_BREACHED" /\ x.kind = "SLA_BREACHED"
  /\ r.app = x.app /\ r.task = x.task

\* No row x stands between r and its predecessor, and none repeats r or has
\* its position.
Follows(r, x) == /\ ~(r.prev < x.pos /\ x.pos < r.pos)
                 /\ SameBreach(r, x) \/ r.pos = x.pos => r = x

\* The n rows of a transaction continue the committed rows.
Continues(committed, last, rows, n) ==
  /\ \A r \in rows : r \in Row /\ last < r.pos /\ r.pos <= last + n
  /\ \A r \in rows, x \in committed \cup rows : Follows(r, x)

WellChained(committed, last) ==
  /\ committed \subseteq Row /\ last \in Nat
  /\ \A r \in committed : 0 < r.pos /\ r.pos <= last
  /\ \A r, x \in committed : Follows(r, x)

LEMMA RowFields ==
  ASSUME NEW r \in Row
  PROVE  r.pos \in Nat /\ r.prev \in Nat
BY DEF Row

\* What continues the log may be added to it.
LEMMA CommitKeepsChain ==
  ASSUME NEW c, NEW last, NEW rows, NEW n \in Nat,
         WellChained(c, last), Continues(c, last, rows, n)
  PROVE  WellChained(c \cup rows, last + n)
<1>1. \A r \in c \cup rows : r \in Row /\ r.pos \in Nat /\ r.prev \in Nat
  BY RowFields DEF WellChained, Continues
<1>2. last \in Nat
  BY DEF WellChained
<1>3. \A r \in c \cup rows : 0 < r.pos /\ r.pos <= last + n
  BY <1>1, <1>2 DEF WellChained, Continues
<1>4. ASSUME NEW r \in c, NEW x \in rows
      PROVE  Follows(r, x)
  <2>1. Follows(x, r)
    BY DEF Continues
  <2>2. r.pos <= last /\ last < x.pos
    BY DEF WellChained, Continues
  <2> QED BY <1>1, <1>2, <2>1, <2>2 DEF Follows, SameBreach
<1>5. \A r, x \in c \cup rows : Follows(r, x)
  BY <1>4 DEF WellChained, Continues
<1> QED BY <1>1, <1>2, <1>3, <1>5 DEF WellChained

\* The row that the trigger makes at the next position.
LEMMA NextRowContinues ==
  ASSUME NEW c, NEW last, WellChained(c, last),
         NEW kind \in Kind, kind # "SLA_BREACHED"
  PROVE  Continues(c, last,
                   {Chained(Positions(c), last + 1, kind, None, 0)}, 1)
<1> DEFINE r == Chained(Positions(c), last + 1, kind, None, 0)
<1>1. last \in Nat /\ \A x \in c : x.pos \in Nat /\ 0 < x.pos /\ x.pos <= last
  BY RowFields DEF WellChained
<1>2. Positions(c) \subseteq 1..last
  BY <1>1 DEF Positions
<1>3. /\ LastOf(Positions(c)) \in 0..last
      /\ \A x \in c : x.pos <= LastOf(Positions(c))
  BY <1>1, <1>2, LastIsGreatest DEF Positions
<1>4. /\ r.pos = last + 1 /\ r.prev = LastOf(Positions(c))
      /\ r.kind = kind /\ r.app = None /\ r.task = 0
  BY DEF Chained
<1>5. r \in Row
  BY <1>1, <1>3 DEF Chained, Row
<1> HIDE DEF r
<1>6. \A x \in c \cup {r} : Follows(r, x)
  BY <1>1, <1>3, <1>4 DEF Follows, SameBreach
<1>7. Continues(c, last, {r}, 1)
  BY <1>1, <1>4, <1>5, <1>6 DEF Continues
<1> QED BY <1>7 DEF r

\* A finite set has an order without repetition.
LEMMA OrderOfBatch ==
  ASSUME NEW S, IsFiniteSet(S)
  PROVE  /\ Cardinality(S) \in Nat
         /\ SetToSeq(S) \in [1..Cardinality(S) -> S]
         /\ \A i, j \in 1..Cardinality(S) :
              SetToSeq(S)[i] = SetToSeq(S)[j] => i = j
<1>1. Cardinality(S) \in Nat /\ ExistsBijection(1..Cardinality(S), S)
  BY FS_CardinalityType
<1>2. \E f \in [1..Cardinality(S) -> S] : IsInjective(f)
  BY <1>1 DEF ExistsBijection, Bijection, Injection, IsInjective
<1>3. SetToSeq(S) \in [1..Cardinality(S) -> S] /\ IsInjective(SetToSeq(S))
  BY <1>2 DEF SetToSeq
<1> QED BY <1>1, <1>3 DEF IsInjective

\* The rows of a scan, one for each task that no row reports yet.
LEMMA BatchContinues ==
  ASSUME WellChained(log, position), NEW batch \in SUBSET (App \X Nat),
         IsFiniteSet(batch), ~Collides(batch)
  PROVE  Continues(log, position, ChainedBatch(batch), Cardinality(batch))
<1> DEFINE n == Cardinality(batch)
           order == SetToSeq(batch)
           seen(i) == Positions(log) \cup (position + 1 .. position + i - 1)
           row(i) == Chained(seen(i), position + i, "SLA_BREACHED",
                             order[i][1], order[i][2])
<1>1. /\ n \in Nat /\ order \in [1..n -> batch]
      /\ \A i, j \in 1..n : order[i] = order[j] => i = j
  BY OrderOfBatch
<1>2. ChainedBatch(batch) = {row(i) : i \in 1..n}
  BY <1>1 DEF ChainedBatch
<1>3. position \in Nat /\ \A x \in log : x.pos \in Nat /\ 0 < x.pos /\ x.pos <= position
  BY RowFields DEF WellChained
<1>4. ASSUME NEW i \in 1..n
      PROVE  /\ LastOf(seen(i)) \in 0..(position + i - 1)
             /\ \A x \in log : x.pos <= LastOf(seen(i))
             /\ \A j \in 1..n : j < i => position + j <= LastOf(seen(i))
  <2>1. /\ position + i - 1 \in Nat /\ seen(i) \subseteq 1..(position + i - 1)
        /\ \A x \in log : x.pos \in seen(i)
        /\ \A j \in 1..n : j < i => position + j \in seen(i)
    BY <1>1, <1>3 DEF Positions
  <2> HIDE DEF seen
  <2> QED BY <2>1, LastIsGreatest
<1>5. ASSUME NEW i \in 1..n
      PROVE  order[i] \in batch /\ order[i] = <<order[i][1], order[i][2]>>
             /\ order[i][1] \in App /\ order[i][2] \in Nat
  BY <1>1
<1>6. ASSUME NEW i \in 1..n
      PROVE  /\ row(i).pos = position + i /\ row(i).prev = LastOf(seen(i))
             /\ row(i).kind = "SLA_BREACHED"
             /\ row(i).app = order[i][1] /\ row(i).task = order[i][2]
             /\ row(i) \in Row
  <2>1. position + i \in Nat /\ LastOf(seen(i)) \in Nat
    <3>1. LastOf(seen(i)) \in 0..(position + i - 1)
      BY <1>4
    <3> HIDE DEF seen, row, order
    <3> QED BY <1>1, <1>3, <3>1
  <2>2. order[i][1] \in App /\ order[i][2] \in Nat
    BY <1>5
  <2> HIDE DEF seen, order
  <2>3. row(i) = [pos |-> position + i, prev |-> LastOf(seen(i)),
                  kind |-> "SLA_BREACHED", app |-> order[i][1],
                  task |-> order[i][2]]
    BY DEF Chained
  <2> HIDE DEF row
  <2> QED BY <2>1, <2>2, <2>3 DEF Row, Kind
<1> HIDE DEF row, seen, order, n
<1>7. ASSUME NEW i \in 1..n, NEW x \in log
      PROVE  Follows(row(i), x)
  <2>1. order[i] \in batch
    BY <1>5
  <2>2. ~BreachLogged(log, order[i][1], order[i][2])
    BY <2>1 DEF Collides
  <2>3. ~SameBreach(row(i), x)
    BY <1>6, <2>2 DEF SameBreach, BreachLogged
  <2> QED BY <1>1, <1>3, <1>4, <1>6, <2>3 DEF Follows
<1>8. ASSUME NEW i \in 1..n, NEW j \in 1..n
      PROVE  Follows(row(i), row(j))
  <2>1. SameBreach(row(i), row(j)) => i = j
    BY <1>1, <1>5, <1>6 DEF SameBreach
  <2>3. SameBreach(row(i), row(j)) => row(i) = row(j)
    BY <2>1, Zenon
  <2>4. row(i).pos = row(j).pos => row(i) = row(j)
    <3>1. row(i).pos = position + i /\ row(j).pos = position + j
      BY <1>6
    <3>2. row(i).pos = row(j).pos => i = j
      BY <1>1, <1>3, <3>1
    <3> QED BY <3>2, Zenon
  <2>2. ~(row(i).prev < row(j).pos /\ row(j).pos < row(i).pos)
    <3>1. /\ row(i).prev = LastOf(seen(i)) /\ row(i).pos = position + i
          /\ row(j).pos = position + j
      BY <1>6
    <3>2. LastOf(seen(i)) \in Nat /\ (j < i => position + j <= LastOf(seen(i)))
      BY <1>1, <1>3, <1>4
    <3> QED BY <1>1, <1>3, <3>1, <3>2
  <2> QED BY <2>2, <2>3, <2>4 DEF Follows
<1>9. \A i \in 1..n : row(i) \in Row /\ position < row(i).pos
                      /\ row(i).pos <= position + n
  BY <1>1, <1>3, <1>6
<1>10. Continues(log, position, {row(i) : i \in 1..n}, n)
  BY <1>7, <1>8, <1>9 DEF Continues
<1> QED BY <1>2, <1>10 DEF n

(***************************************************************************)
(* The inductive invariant.                                                *)
(***************************************************************************)
Holder(p) == tx[p].pc \in {"audited", "inserted"}

\* How many positions the transaction of p has drawn.
Drawn(p) == IF tx[p].pc = "audited" THEN 1 ELSE Cardinality(tx[p].batch)

\* The committed rows are one chain, and what the holder of the advisory lock
\* has inserted continues it.
Chain ==
  /\ WellChained(log, position)
  /\ \A p \in Process : Holder(p) =>
       Continues(log, position, tx[p].rows, Drawn(p))
  /\ \A p \in Process : tx[p].pc \in {"read", "inserted"} =>
       IsFiniteSet(tx[p].batch)

Inv == TypeOK /\ Chain

LEMMA InvImplies == Inv => ChainIsLinear /\ OneBreachPerTask
<1> SUFFICES ASSUME Inv
             PROVE  ChainIsLinear /\ OneBreachPerTask
  OBVIOUS
<1>1. \A r, x \in log : Follows(r, x)
  BY DEF Inv, Chain, WellChained
<1>2. ChainIsLinear
  BY <1>1 DEF ChainIsLinear, Follows
<1>3. ASSUME NEW a \in App, NEW no \in TaskNo
      PROVE  Cardinality({r \in log : r.kind = "SLA_BREACHED" /\ r.app = a
                                      /\ r.task = no}) <= 1
  <2> DEFINE S == {r \in log : r.kind = "SLA_BREACHED" /\ r.app = a
                               /\ r.task = no}
  <2>1. \A r, x \in S : r = x
    BY <1>1 DEF Follows, SameBreach
  <2>2. S = {} \/ \E r : S = {r}
    BY <2>1
  <2>3. Cardinality(S) <= 1
    <3> HIDE DEF S
    <3>1. CASE S = {}
      BY <3>1, FS_EmptySet
    <3>2. CASE \E r : S = {r}
      BY <3>2, FS_Singleton
    <3> QED BY <2>2, <3>1, <3>2
  <2> QED BY <2>3
<1>4. OneBreachPerTask
  BY <1>3 DEF OneBreachPerTask
<1> QED BY <1>2, <1>4

\* A transaction under way has one of the two shapes.
LEMMA TxShape ==
  ASSUME TypeOK, NEW p \in Process
  PROVE  /\ tx[p] \in TxState
         /\ tx[p].pc \in {"locked", "audited"} =>
              tx[p].app \in App /\ tx[p].rows \in SUBSET Row
         /\ tx[p].pc \in {"read", "inserted"} =>
              tx[p].batch \in SUBSET (App \X Nat) /\ tx[p].rows \in SUBSET Row
         /\ Holder(p) <=> advisory = p
BY DEF TypeOK, TxState, Idle, Holder

(***************************************************************************)
(* A step of one transaction.                                              *)
(***************************************************************************)
\* The transaction of p becomes t and holds the advisory lock just when t has
\* inserted.
Becomes(p, t) ==
  /\ Begin(p, t) /\ t \in TxState
  /\ IF t.pc \in {"audited", "inserted"}
       THEN advisory \in {None, p} /\ advisory' = p
       ELSE advisory' = IF advisory = p THEN None ELSE advisory

LEMMA TypeKept ==
  ASSUME TypeOK, NEW p \in Process, NEW t, Becomes(p, t),
         log' \in SUBSET Row, position' \in Nat, task' \in [App -> Task]
  PROVE  TypeOK'
<1>1. /\ tx' \in [Process -> TxState] /\ tx'[p] = t
      /\ \A q \in Process \ {p} : tx'[q] = tx[q]
  BY DEF TypeOK, Becomes, Begin
<1>2. advisory' \in Process \cup {None}
  BY DEF TypeOK, Becomes
<1>3. ASSUME NEW q \in Process
      PROVE  advisory' = q <=> tx'[q].pc \in {"audited", "inserted"}
  <2>1. q # None /\ p # None
    BY ProcessAssumption
  <2>2. CASE q = p
    BY <1>1, <2>1, <2>2 DEF Becomes
  <2>3. CASE q # p
    BY <1>1, <2>1, <2>3 DEF Becomes, TypeOK
  <2> QED BY <2>2, <2>3
<1> QED BY <1>1, <1>2, <1>3 DEF TypeOK

\* Without a commit, what p's transaction has inserted must continue the log.
LEMMA ChainKept ==
  ASSUME Inv, NEW p \in Process, NEW t, Becomes(p, t),
         log' = log, position' = position,
         t.pc = "audited" => Continues(log, position, t.rows, 1),
         t.pc = "inserted" =>
           Continues(log, position, t.rows, Cardinality(t.batch)),
         t.pc \in {"read", "inserted"} => IsFiniteSet(t.batch)
  PROVE  Chain'
<1>1. tx'[p] = t /\ \A q \in Process \ {p} : tx'[q] = tx[q]
  BY DEF Inv, TypeOK, Becomes, Begin
<1>2. WellChained(log', position')
  BY DEF Inv, Chain
<1>3. ASSUME NEW q \in Process, Holder(q)'
      PROVE  Continues(log, position, tx'[q].rows, Drawn(q)')
  <2>1. CASE q = p
    BY <1>1, <1>3, <2>1 DEF Holder, Drawn
  <2>2. CASE q # p
    BY <1>1, <1>3, <2>2 DEF Inv, Chain, Holder, Drawn
  <2> QED BY <2>1, <2>2
<1>4. ASSUME NEW q \in Process, tx'[q].pc \in {"read", "inserted"}
      PROVE  IsFiniteSet(tx'[q].batch)
  <2>1. CASE q = p
    BY <1>1, <1>4, <2>1
  <2>2. CASE q # p
    BY <1>1, <1>4, <2>2 DEF Inv, Chain
  <2> QED BY <2>1, <2>2
<1> QED BY <1>2, <1>3, <1>4 DEF Chain

\* The holder of the advisory lock commits; nobody else has inserted.
LEMMA ChainCommitted ==
  ASSUME Inv, NEW p \in Process, Holder(p), Becomes(p, Idle),
         log' = log \cup tx[p].rows, position' = position + Drawn(p)
  PROVE  Chain' /\ log' \in SUBSET Row /\ position' \in Nat
<1>1. Drawn(p) \in Nat
  BY FS_CardinalityType DEF Inv, Chain, Drawn, Holder
<1>2. WellChained(log', position')
  BY <1>1, CommitKeepsChain DEF Inv, Chain
<1>3. tx'[p] = Idle /\ \A q \in Process \ {p} : tx'[q] = tx[q]
  BY DEF Inv, TypeOK, Becomes, Begin
<1>4. \A q \in Process : ~Holder(q)'
  BY <1>3, TxShape DEF Inv, Holder, Idle
<1>5. \A q \in Process : tx'[q].pc \in {"read", "inserted"} =>
        IsFiniteSet(tx'[q].batch)
  BY <1>3 DEF Inv, Chain, Idle
<1> QED BY <1>2, <1>4, <1>5 DEF Chain, WellChained

LEMMA IdleIsTx == Idle \in TxState /\ Idle.pc = "idle"
BY DEF Idle, TxState

LEMMA BeginTransitionStep ==
  ASSUME Inv, NEW w \in Writer, NEW a \in App, BeginTransition(w, a)
  PROVE  Inv'
<1> DEFINE t == [pc |-> "locked", app |-> a, rows |-> {}]
<1>1. w \in Process /\ t \in TxState /\ t.pc = "locked"
  BY DEF Process, TxState
<1>2. tx[w].pc = "idle" /\ advisory # w
  BY <1>1, TxShape DEF BeginTransition, Inv, Idle, Holder
<1>3. Becomes(w, t)
  BY <1>1, <1>2 DEF BeginTransition, Becomes
<1> HIDE DEF t
<1>4. Chain'
  BY <1>1, <1>3, ChainKept DEF BeginTransition
<1>5. TypeOK'
  BY <1>1, <1>3, TypeKept DEF BeginTransition, Inv, TypeOK
<1> QED BY <1>4, <1>5 DEF Inv

LEMMA WriteAuditStep ==
  ASSUME Inv, NEW w \in Writer, WriteAudit(w)
  PROVE  Inv'
<1> DEFINE r == Chained(Positions(log), position + 1, "STATE_CHANGED", None, 0)
           t == [tx[w] EXCEPT !.pc = "audited", !.rows = {r}]
<1>1. w \in Process /\ tx[w].pc = "locked" /\ tx[w] \in TxState
  BY TxShape DEF Process, WriteAudit, Inv
<1>2. Continues(log, position, {r}, 1)
  BY NextRowContinues DEF Inv, Chain, Kind
<1>3. r \in Row
  BY <1>2 DEF Continues
<1> HIDE DEF r
<1>4. t \in TxState /\ t.pc = "audited" /\ t.rows = {r}
  <2>1. tx[w] \in [pc : {"locked", "audited"}, app : App, rows : SUBSET Row]
    BY <1>1 DEF TxState, Idle
  <2>2. t \in [pc : {"locked", "audited"}, app : App, rows : SUBSET Row]
        /\ t.pc = "audited" /\ t.rows = {r}
    BY <1>3, <2>1
  <2> HIDE DEF t
  <2> QED BY <2>2 DEF TxState
<1>5. Becomes(w, t)
  BY <1>4 DEF WriteAudit, Becomes, r
<1> HIDE DEF t
<1>6. Chain'
  BY <1>1, <1>2, <1>4, <1>5, ChainKept DEF WriteAudit
<1>7. TypeOK'
  BY <1>1, <1>5, TypeKept DEF WriteAudit, Inv, TypeOK
<1> QED BY <1>6, <1>7 DEF Inv

LEMMA CommitTransitionStep ==
  ASSUME Inv, NEW w \in Writer, CommitTransition(w)
  PROVE  Inv'
<1>1. w \in Process /\ tx[w].pc = "audited" /\ Holder(w) /\ advisory = w
  BY TxShape DEF Process, CommitTransition, Inv, Holder
<1>2. tx[w].app \in App
  BY <1>1, TxShape DEF Inv
<1>3. Becomes(w, Idle)
  BY <1>1, IdleIsTx DEF CommitTransition, Becomes
<1>4. Chain' /\ log' \in SUBSET Row /\ position' \in Nat
  BY <1>1, <1>3, ChainCommitted DEF CommitTransition, Drawn
<1>5. task' \in [App -> Task]
  <2>1. /\ task \in [App -> Task] /\ task[tx[w].app] \in Task
    BY <1>2 DEF Inv, TypeOK
  <2>2. [task[tx[w].app] EXCEPT !.open = FALSE] \in Task
    BY <2>1 DEF Task
  <2>3. [no |-> task[tx[w].app].no + 1, open |-> TRUE, overdue |-> FALSE] \in Task
    BY <2>1 DEF Task
  <2> QED BY <2>1, <2>2, <2>3 DEF CommitTransition
<1>6. TypeOK'
  BY <1>1, <1>3, <1>4, <1>5, TypeKept DEF Inv
<1> QED BY <1>4, <1>6 DEF Inv

LEMMA ScanStepInv ==
  ASSUME Inv, NEW s \in Scanner, Scan(s)
  PROVE  Inv'
<1> DEFINE t == [pc |-> "read", batch |-> Overdue, rows |-> {}]
<1>1. s \in Process /\ advisory # s
  BY TxShape DEF Process, Scan, Inv, Idle, Holder
<1>2. Overdue \in SUBSET (App \X Nat)
  BY DEF Overdue, Inv, TypeOK, Task
<1>3. IsFiniteSet(Overdue)
  <2> DEFINE L == {b \in App : Late(b)}
             f == [a \in L |-> <<a, task[a].no>>]
  <2>1. IsFiniteSet(L)
    BY AppAssumption, FS_Subset
  <2>2. f \in Surjection(L, Overdue)
    BY DEF Surjection, Overdue
  <2> HIDE DEF L, f
  <2> QED BY <2>1, <2>2, FS_Surjection
<1>4. t \in TxState /\ t.pc = "read" /\ t.batch = Overdue
  BY <1>2 DEF TxState
<1>5. Becomes(s, t)
  BY <1>1, <1>4 DEF Scan, Becomes
<1> HIDE DEF t
<1>6. Chain'
  BY <1>1, <1>3, <1>4, <1>5, ChainKept DEF Scan
<1>7. TypeOK'
  BY <1>1, <1>5, TypeKept DEF Scan, Inv, TypeOK
<1> QED BY <1>6, <1>7 DEF Inv

LEMMA InsertBreachesStep ==
  ASSUME Inv, NEW s \in Scanner, InsertBreaches(s)
  PROVE  Inv'
<1> DEFINE batch == tx[s].batch
           t == [tx[s] EXCEPT !.pc = "inserted", !.rows = ChainedBatch(batch)]
<1>1. /\ s \in Process /\ tx[s].pc = "read" /\ tx[s] \in TxState
      /\ advisory = None /\ advisory # s
  BY TxShape, ProcessAssumption DEF Process, InsertBreaches, Inv
<1>2. CASE Collides(batch)
  <2>1. Becomes(s, Idle)
    BY <1>1, <1>2, IdleIsTx DEF InsertBreaches, Becomes
  <2>2. Chain'
    BY <1>1, <2>1, IdleIsTx, ChainKept DEF InsertBreaches
  <2>3. TypeOK'
    BY <1>1, <2>1, TypeKept DEF InsertBreaches, Inv, TypeOK
  <2> QED BY <2>2, <2>3 DEF Inv
<1>3. CASE ~Collides(batch)
  <2>1. batch \in SUBSET (App \X Nat) /\ IsFiniteSet(batch)
    BY <1>1, TxShape DEF Inv, Chain
  <2>2. Continues(log, position, ChainedBatch(batch), Cardinality(batch))
    BY <1>3, <2>1, BatchContinues DEF Inv, Chain
  <2>3. ChainedBatch(batch) \in SUBSET Row
    BY <2>2 DEF Continues
  <2>4. t \in TxState /\ t.pc = "inserted" /\ t.batch = batch
        /\ t.rows = ChainedBatch(batch)
    <3>1. tx[s] \in [pc : {"read", "inserted"}, batch : SUBSET (App \X Nat),
                     rows : SUBSET Row]
      BY <1>1 DEF TxState, Idle
    <3>2. t \in [pc : {"read", "inserted"}, batch : SUBSET (App \X Nat),
                 rows : SUBSET Row]
          /\ t.pc = "inserted" /\ t.batch = batch /\ t.rows = ChainedBatch(batch)
      BY <2>3, <3>1
    <3> HIDE DEF t
    <3> QED BY <3>2 DEF TxState
  <2>5. Becomes(s, t)
    BY <1>1, <1>3, <2>4 DEF InsertBreaches, Becomes
  <2> HIDE DEF t
  <2>6. Chain'
    BY <1>1, <2>1, <2>2, <2>4, <2>5, ChainKept DEF InsertBreaches
  <2>7. TypeOK'
    BY <1>1, <2>5, TypeKept DEF InsertBreaches, Inv, TypeOK
  <2> QED BY <2>6, <2>7 DEF Inv
<1> QED BY <1>2, <1>3

LEMMA CommitScanStep ==
  ASSUME Inv, NEW s \in Scanner, CommitScan(s)
  PROVE  Inv'
<1>1. s \in Process /\ tx[s].pc = "inserted" /\ Holder(s) /\ advisory = s
  BY TxShape DEF Process, CommitScan, Inv, Holder
<1>2. Becomes(s, Idle)
  BY <1>1, IdleIsTx DEF CommitScan, Becomes
<1>3. Chain' /\ log' \in SUBSET Row /\ position' \in Nat
  BY <1>1, <1>2, ChainCommitted DEF CommitScan, Drawn
<1>4. TypeOK'
  BY <1>1, <1>2, <1>3, TypeKept DEF CommitScan, Inv, TypeOK
<1> QED BY <1>3, <1>4 DEF Inv

LEMMA RolledBackStep ==
  ASSUME Inv, NEW p \in Process, RolledBack(p)
  PROVE  Inv'
<1>1. Becomes(p, Idle)
  BY IdleIsTx DEF RolledBack, Becomes
<1>2. Chain'
  BY <1>1, IdleIsTx, ChainKept DEF RolledBack
<1>3. TypeOK'
  BY <1>1, TypeKept DEF RolledBack, Inv, TypeOK
<1> QED BY <1>2, <1>3 DEF Inv

\* A single statement inserts and commits at once, under the free lock.
LEMMA AppendEventStep ==
  ASSUME Inv, AppendEvent
  PROVE  Inv'
<1> DEFINE r == Chained(Positions(log), position + 1, "CLIENT_CACHE_TELEMETRY",
                        None, 0)
<1>1. Continues(log, position, {r}, 1)
  BY NextRowContinues DEF Inv, Chain, Kind
<1>2. log' = log \cup {r} /\ position' = position + 1 /\ tx' = tx
  BY DEF AppendEvent
<1> HIDE DEF r
<1>3. WellChained(log', position')
  BY <1>1, <1>2, CommitKeepsChain DEF Inv, Chain
<1>4. \A p \in Process : ~Holder(p)
  BY TxShape, ProcessAssumption DEF AppendEvent, Inv
<1>5. Chain'
  BY <1>2, <1>3, <1>4 DEF Inv, Chain, Holder
<1>6. TypeOK'
  BY <1>2, <1>3 DEF AppendEvent, Inv, TypeOK, WellChained
<1> QED BY <1>5, <1>6 DEF Inv

\* A purge takes rows out: what followed goes on to follow.
LEMMA PurgeStep ==
  ASSUME Inv, NEW limit, Purge(limit)
  PROVE  Inv'
<1>1. log' \subseteq log /\ UNCHANGED <<position, advisory, task, tx>>
  BY DEF Purge
<1>2. WellChained(log', position')
  BY <1>1 DEF Inv, Chain, WellChained
<1>3. \A p \in Process : Holder(p) =>
        Continues(log', position, tx[p].rows, Drawn(p))
  BY <1>1 DEF Inv, Chain, Continues
<1>4. Chain'
  BY <1>1, <1>2, <1>3 DEF Inv, Chain, Holder, Drawn
<1>5. TypeOK'
  BY <1>1 DEF Inv, TypeOK
<1> QED BY <1>4, <1>5 DEF Inv

LEMMA BecomesOverdueStep ==
  ASSUME Inv, NEW a \in App, BecomesOverdue(a)
  PROVE  Inv'
<1>1. task' \in [App -> Task]
  <2>1. \A t \in Task : [t EXCEPT !.overdue = TRUE] \in Task
    BY DEF Task
  <2> QED BY <2>1 DEF BecomesOverdue, Inv, TypeOK
<1>2. UNCHANGED <<log, position, advisory, tx>>
  BY DEF BecomesOverdue
<1>3. Chain'
  BY <1>2 DEF Inv, Chain, Holder, Drawn
<1> QED BY <1>1, <1>2, <1>3 DEF Inv, TypeOK

LEMMA InvStep ==
  ASSUME Inv, [Next]_vars
  PROVE  Inv'
<1>1. CASE UNCHANGED vars
  BY <1>1 DEF vars, Inv, TypeOK, Chain, Holder, Drawn
<1>2. ASSUME NEW w \in Writer, WriteStep(w)
      PROVE  Inv'
  BY <1>2, WriteAuditStep, CommitTransitionStep DEF WriteStep
<1>3. ASSUME NEW s \in Scanner, Scan(s) \/ ScanStep(s)
      PROVE  Inv'
  BY <1>3, ScanStepInv, InsertBreachesStep, CommitScanStep DEF ScanStep
<1>4. ASSUME NEW p \in Process, Fails(p)
      PROVE  Inv'
  BY <1>4, RolledBackStep DEF Fails
<1>5. ASSUME NEW w \in Writer, NEW s \in Scanner, BreakDeadlock(w, s)
      PROVE  Inv'
  BY <1>5, RolledBackStep DEF BreakDeadlock, Process
<1> QED
  BY <1>1, <1>2, <1>3, <1>4, <1>5, BeginTransitionStep, BecomesOverdueStep,
     AppendEventStep, PurgeStep DEF Next

LEMMA InvInit == Init => Inv
<1> SUFFICES ASSUME Init
             PROVE  Inv
  OBVIOUS
<1>1. TypeOK
  <2>1. [no |-> 1, open |-> TRUE, overdue |-> FALSE] \in Task
    BY DEF Task
  <2> QED BY <2>1, IdleIsTx, ProcessAssumption DEF Init, TypeOK
<1>2. Chain
  BY IdleIsTx DEF Init, Chain, WellChained, Holder
<1> QED BY <1>1, <1>2 DEF Inv

(***************************************************************************)
(* The theorems.                                                           *)
(***************************************************************************)
\* Events, transactions and tasks always have the shape the code gives them,
\* and just the transaction that has inserted holds the advisory lock.
THEOREM TypeCorrect == Spec => []TypeOK
<1>1. Inv => TypeOK
  BY DEF Inv
<1> QED BY <1>1, InvInit, InvStep, PTL DEF Spec

\* The hash chain never forks and never skips a row, for any number of
\* transitions and scans: a row's predecessor is the row before it, unless
\* that was purged.
THEOREM ChainAlwaysLinear == Spec => []ChainIsLinear
BY InvInit, InvStep, InvImplies, PTL DEF Spec

\* However many scans find the same task late, one breach of it is logged.
THEOREM OneBreachAlways == Spec => []OneBreachPerTask
BY InvInit, InvStep, InvImplies, PTL DEF Spec

(***************************************************************************)
(* The log in its order.                                                   *)
(***************************************************************************)
\* A finite set of rows, each with a position of its own.
Distinct(rows) ==
  /\ IsFiniteSet(rows)
  /\ \A r \in rows : r.pos \in Nat
  /\ \A r, x \in rows : r.pos = x.pos => r = x

Rank(rows, r) == Cardinality(Before(rows, r))

LEMMA RankOf ==
  ASSUME NEW rows, Distinct(rows), NEW r \in rows
  PROVE  /\ Cardinality(rows) \in Nat
         /\ Rank(rows, r) \in 0 .. Cardinality(rows) - 1
<1>1. Before(rows, r) \in SUBSET rows /\ r \notin Before(rows, r)
  BY DEF Before, Distinct
<1>2. Cardinality(Before(rows, r)) \in Nat /\ Cardinality(rows) \in Nat
  BY <1>1, FS_Subset, FS_CardinalityType DEF Distinct
<1>3. /\ Cardinality(Before(rows, r)) <= Cardinality(rows)
      /\ Cardinality(Before(rows, r)) # Cardinality(rows)
  BY <1>1, FS_Subset DEF Distinct
<1> QED BY <1>2, <1>3 DEF Rank

\* A later row has a greater rank.
LEMMA RankIncreases ==
  ASSUME NEW rows, Distinct(rows), NEW r \in rows, NEW x \in rows,
         r.pos < x.pos
  PROVE  Rank(rows, r) < Rank(rows, x)
<1>1. IsFiniteSet(Before(rows, x))
  <2>1. Before(rows, x) \in SUBSET rows
    BY DEF Before
  <2> QED BY <2>1, FS_Subset DEF Distinct
<1>2. Before(rows, r) \in SUBSET Before(rows, x)
  BY DEF Before, Distinct
<1>3. r \in Before(rows, x) /\ r \notin Before(rows, r)
  BY DEF Before, Distinct
<1>4. /\ Cardinality(Before(rows, r)) <= Cardinality(Before(rows, x))
      /\ Cardinality(Before(rows, r)) # Cardinality(Before(rows, x))
  BY <1>1, <1>2, <1>3, FS_Subset
<1>5. Rank(rows, r) \in Nat /\ Rank(rows, x) \in Nat
  BY RankOf
<1> QED BY <1>4, <1>5 DEF Rank

\* Each rank is some row's.
LEMMA RankTaken ==
  ASSUME NEW rows, Distinct(rows), NEW i \in 1 .. Cardinality(rows)
  PROVE  \E r \in rows : Rank(rows, r) = i - 1
<1> DEFINE n == Cardinality(rows)
           f == [r \in rows |-> Rank(rows, r) + 1]
<1>1. n \in Nat
  BY FS_CardinalityType DEF Distinct
<1>2. f \in [rows -> 1 .. n]
  BY <1>1, RankOf
<1>3. ASSUME NEW r \in rows, NEW x \in rows, f[r] = f[x]
      PROVE  r = x
  <2>1. Rank(rows, r) \in Nat /\ Rank(rows, x) \in Nat
    BY RankOf
  <2>2. Rank(rows, r) = Rank(rows, x)
    BY <1>3, <2>1
  <2>3. ~(r.pos < x.pos) /\ ~(x.pos < r.pos)
    BY <2>1, <2>2, RankIncreases
  <2> QED BY <2>3 DEF Distinct
<1>4. IsFiniteSet(1 .. n) /\ Cardinality(1 .. n) = n
  BY <1>1, FS_Interval
<1> HIDE DEF f, n
<1>5. f \in Injection(rows, 1 .. n)
  <2>1. DOMAIN f = rows
    BY <1>2
  <2>2. IsInjective(f)
    BY <1>3, <2>1 DEF IsInjective
  <2> QED BY <1>2, <2>2 DEF Injection
<1>6. f \in Surjection(rows, 1 .. n)
  <2>1. Cardinality(rows) = Cardinality(1 .. n)
    BY <1>4 DEF n
  <2> QED BY <1>4, <1>5, <2>1, FS_Injection
<1>7. PICK r \in rows : f[r] = i
  BY <1>6 DEF Surjection, n
<1>8. Rank(rows, r) \in Nat /\ i \in Nat /\ Rank(rows, r) + 1 = i
  BY <1>7, RankOf DEF f
<1>9. Rank(rows, r) = i - 1
  BY <1>8
<1> QED BY <1>9

\* The rows in order: all of them, by position, each at its rank.
LEMMA InOrderIs ==
  ASSUME NEW rows, Distinct(rows)
  PROVE  /\ Cardinality(rows) \in Nat
         /\ InOrder(rows) \in [1 .. Cardinality(rows) -> rows]
         /\ \A i \in 1 .. Cardinality(rows) : Rank(rows, InOrder(rows)[i]) = i - 1
         /\ \A r \in rows : /\ Rank(rows, r) + 1 \in 1 .. Cardinality(rows)
                            /\ InOrder(rows)[Rank(rows, r) + 1] = r
<1> DEFINE n == Cardinality(rows)
           s == InOrder(rows)
<1>1. n \in Nat
  BY FS_CardinalityType DEF Distinct
<1>2. \A i \in 1 .. n : s[i] = CHOOSE r \in rows : Rank(rows, r) = i - 1
  BY DEF InOrder, Rank
<1>3. ASSUME NEW i \in 1 .. n
      PROVE  s[i] \in rows /\ Rank(rows, s[i]) = i - 1
  <2>1. \E r \in rows : Rank(rows, r) = i - 1
    BY RankTaken
  <2> HIDE DEF s
  <2> QED BY <1>2, <2>1
<1>4. s \in [1 .. n -> rows]
  <2>1. s = [i \in 1 .. n |-> s[i]]
    BY DEF InOrder
  <2> HIDE DEF s
  <2> QED BY <1>3, <2>1
<1>5. ASSUME NEW r \in rows
      PROVE  Rank(rows, r) + 1 \in 1 .. n /\ s[Rank(rows, r) + 1] = r
  <2>1. Rank(rows, r) + 1 \in 1 .. n /\ Rank(rows, r) \in Nat
    BY <1>1, RankOf
  <2> DEFINE x == s[Rank(rows, r) + 1]
  <2>2. x \in rows /\ Rank(rows, x) = Rank(rows, r)
    <3>1. x \in rows /\ Rank(rows, x) = (Rank(rows, r) + 1) - 1
      BY <1>3, <2>1
    <3> HIDE DEF x
    <3> QED BY <2>1, <3>1
  <2> HIDE DEF x
  <2>3. ~(r.pos < x.pos) /\ ~(x.pos < r.pos)
    BY <2>1, <2>2, RankIncreases
  <2>4. x = r
    BY <2>2, <2>3 DEF Distinct
  <2> QED BY <2>1, <2>4 DEF x
<1> QED BY <1>1, <1>3, <1>4, <1>5

LEMMA OrderShown ==
  ASSUME NEW rows, Distinct(rows)
  PROVE  LET s == InOrder(rows)
         IN /\ s \in Seq(rows) /\ Len(s) = Cardinality(rows)
            /\ ToSet(s) = rows /\ IsInjective(s)
            /\ \A e, f \in rows : Log!Precedes(s, e, f) <=> e.pos < f.pos
<1> DEFINE n == Cardinality(rows)
           s == InOrder(rows)
<1>1. /\ n \in Nat /\ s \in [1 .. n -> rows]
      /\ \A i \in 1 .. n : Rank(rows, s[i]) = i - 1
      /\ \A r \in rows : Rank(rows, r) + 1 \in 1 .. n /\ s[Rank(rows, r) + 1] = r
  BY InOrderIs
<1> HIDE DEF s, n
<1>2. s \in Seq(rows) /\ Len(s) = n /\ DOMAIN s = 1 .. n
  BY <1>1
<1>3. ToSet(s) = rows
  BY <1>1, <1>2 DEF ToSet
<1>4. ASSUME NEW i \in 1 .. n, NEW j \in 1 .. n, s[i] = s[j]
      PROVE  i = j
  <2>1. i - 1 = j - 1
    BY <1>1, <1>4
  <2> QED BY <1>1, <2>1
<1>5. IsInjective(s)
  BY <1>2, <1>4 DEF IsInjective
<1>6. ASSUME NEW i \in 1 .. n, NEW j \in 1 .. n, i < j
      PROVE  s[i].pos < s[j].pos
  <2>1. /\ s[i] \in rows /\ s[j] \in rows /\ s[i] # s[j]
        /\ s[i].pos \in Nat /\ s[j].pos \in Nat
    BY <1>1, <1>4, <1>6 DEF Distinct
  <2>2. ~(s[j].pos < s[i].pos)
    <3>1. Rank(rows, s[i]) = i - 1 /\ Rank(rows, s[j]) = j - 1
      BY <1>1
    <3>2. ~(Rank(rows, s[j]) < Rank(rows, s[i]))
      BY <1>1, <1>6, <3>1
    <3> QED BY <2>1, <3>2, RankIncreases
  <2>3. s[i].pos # s[j].pos
    BY <2>1 DEF Distinct
  <2> QED BY <2>1, <2>2, <2>3
<1>7. ASSUME NEW e \in rows, NEW f \in rows
      PROVE  Log!Precedes(s, e, f) <=> e.pos < f.pos
  <2>1. ASSUME Log!Precedes(s, e, f)
        PROVE  e.pos < f.pos
    BY <1>2, <1>6, <2>1 DEF Log!Precedes
  <2>2. ASSUME e.pos < f.pos
        PROVE  Log!Precedes(s, e, f)
    <3>1. /\ Rank(rows, e) \in Nat /\ Rank(rows, f) \in Nat
          /\ Rank(rows, e) < Rank(rows, f)
      BY <2>2, RankOf, RankIncreases
    <3>2. PICK i \in 1 .. n, j \in 1 .. n : i < j /\ s[i] = e /\ s[j] = f
      <4>1. Rank(rows, e) + 1 < Rank(rows, f) + 1
        BY <3>1
      <4> QED BY <1>1, <4>1
    <3> QED BY <1>2, <3>2 DEF Log!Precedes
  <2> QED BY <2>1, <2>2
<1> QED BY <1>2, <1>3, <1>5, <1>7 DEF s, n

\* Rows with later positions are appended.
LEMMA LaterRowsAppended ==
  ASSUME NEW rows, NEW more, Distinct(rows), Distinct(more), rows \subseteq more,
         \A r \in rows, x \in more \ rows : r.pos < x.pos
  PROVE  IsPrefix(InOrder(rows), InOrder(more))
<1> DEFINE s == InOrder(rows)
           t == InOrder(more)
<1>1. ASSUME NEW r \in rows
      PROVE  Rank(more, r) = Rank(rows, r)
  <2>1. \A x \in more \ rows : x.pos \in Nat /\ r.pos \in Nat /\ ~(x.pos < r.pos)
    <3>1. \A x \in more \ rows : x.pos \in Nat /\ r.pos \in Nat /\ r.pos < x.pos
      BY DEF Distinct
    <3> QED BY <3>1
  <2>2. Before(more, r) = Before(rows, r)
    BY <2>1 DEF Before
  <2> QED BY <2>2 DEF Rank
<1>2. /\ Cardinality(rows) \in Nat /\ Cardinality(more) \in Nat
      /\ Cardinality(rows) <= Cardinality(more)
  <2>1. rows \in SUBSET more
    OBVIOUS
  <2> QED BY <2>1, FS_Subset, FS_CardinalityType DEF Distinct
<1>3. /\ s \in Seq(rows) /\ Len(s) = Cardinality(rows)
      /\ t \in Seq(more) /\ Len(t) = Cardinality(more)
  BY OrderShown
<1>4. ASSUME NEW i \in 1 .. Len(s)
      PROVE  t[i] = s[i]
  <2> DEFINE r == s[i]
  <2>1. r \in rows /\ Rank(rows, r) = i - 1
    BY <1>3, InOrderIs
  <2>2. t[Rank(more, r) + 1] = r
    <3> HIDE DEF r
    <3> QED BY <2>1, InOrderIs
  <2>3. Rank(more, r) + 1 = i
    <3>1. Rank(more, r) = i - 1
      BY <1>1, <2>1
    <3> HIDE DEF r
    <3> QED BY <1>2, <1>3, <3>1
  <2> QED BY <2>2, <2>3
<1> HIDE DEF s, t
<1>5. /\ Len(s) \in Nat /\ Len(t) \in Nat /\ Len(s) <= Len(t)
  BY <1>2, <1>3
<1>6. \A i \in 1 .. Len(s) : s[i] \in more /\ t[i] \in more
  BY <1>3, <1>5
<1>7. /\ SubSeq(s, 1, Len(s)) \in Seq(more) /\ SubSeq(t, 1, Len(s)) \in Seq(more)
      /\ Len(SubSeq(s, 1, Len(s))) = Len(s) /\ Len(SubSeq(t, 1, Len(s))) = Len(s)
      /\ \A i \in 1 .. Len(s) : /\ SubSeq(s, 1, Len(s))[i] = s[i]
                                /\ SubSeq(t, 1, Len(s))[i] = t[i]
  BY <1>5, <1>6
<1>8. SubSeq(s, 1, Len(s)) = SubSeq(t, 1, Len(s))
  BY <1>4, <1>5, <1>7
<1> QED BY <1>5, <1>8 DEF IsPrefix, s, t

\* What a step may do to the committed rows.
Grows(rows, more) ==
  rows \subseteq more /\ \A r \in rows, x \in more \ rows : r.pos < x.pos
Shrinks(rows, less) ==
  less \subseteq rows /\ \A r \in rows \ less : r.kind = "CLIENT_CACHE_TELEMETRY"

LEMMA CommitGrows ==
  ASSUME NEW c, NEW last, NEW rows, NEW n,
         WellChained(c, last), Continues(c, last, rows, n)
  PROVE  Grows(c, c \cup rows)
<1>1. \A r \in c : r.pos \in Nat /\ r.pos <= last
  BY RowFields DEF WellChained
<1>2. \A x \in rows : x.pos \in Nat /\ last < x.pos
  BY RowFields DEF Continues
<1> QED BY <1>1, <1>2 DEF Grows, WellChained

LEMMA LogStep ==
  ASSUME Inv, [Next]_vars
  PROVE  log' = log \/ Grows(log, log') \/ Shrinks(log, log')
<1>1. ASSUME NEW p \in Process, Holder(p), log' = log \cup tx[p].rows
      PROVE  Grows(log, log')
  BY <1>1, CommitGrows DEF Inv, Chain
<1>2. ASSUME NEW w \in Writer, WriteStep(w)
      PROVE  log' = log \/ Grows(log, log')
  BY <1>1, <1>2 DEF WriteStep, WriteAudit, CommitTransition, Holder, Process
<1>3. ASSUME NEW s \in Scanner, Scan(s) \/ ScanStep(s)
      PROVE  log' = log \/ Grows(log, log')
  BY <1>1, <1>3 DEF Scan, ScanStep, InsertBreaches, CommitScan, Holder, Process
<1>4. ASSUME AppendEvent
      PROVE  Grows(log, log')
  <2> DEFINE r == Chained(Positions(log), position + 1, "CLIENT_CACHE_TELEMETRY",
                          None, 0)
  <2>1. Continues(log, position, {r}, 1)
    BY NextRowContinues DEF Inv, Chain, Kind
  <2>2. log' = log \cup {r}
    BY <1>4 DEF AppendEvent
  <2> HIDE DEF r
  <2> QED BY <2>1, <2>2, CommitGrows DEF Inv, Chain
<1>5. ASSUME NEW limit, Purge(limit)
      PROVE  Shrinks(log, log')
  BY <1>5 DEF Purge, Purgeable, Shrinks
<1> QED BY <1>2, <1>3, <1>4, <1>5
        DEF Next, vars, BeginTransition, BecomesOverdue, Fails, BreakDeadlock, RolledBack

LEMMA LogIsDistinct ==
  ASSUME NEW c, NEW last, WellChained(c, last)
  PROVE  Distinct(c)
<1> DEFINE f == [r \in c |-> r.pos]
<1>1. /\ last \in Nat
      /\ \A r \in c : r.pos \in Nat /\ r.pos \in 1 .. last
  BY RowFields DEF WellChained
<1>2. \A r, x \in c : r.pos = x.pos => r = x
  BY DEF WellChained, Follows
<1>3. f \in Injection(c, 1 .. last)
  BY <1>1, <1>2 DEF Injection, IsInjective
<1>4. IsFiniteSet(1 .. last)
  BY <1>1, FS_Interval
<1> HIDE DEF f
<1>5. IsFiniteSet(c)
  BY <1>3, <1>4, FS_Injection
<1> QED BY <1>1, <1>2, <1>5 DEF Distinct

\* The abstract log's operators on sequences are this module's.
LEMMA SameOperators ==
  ASSUME NEW s, NEW t
  PROVE  /\ Log!ToSet(s) = ToSet(s) /\ Log!IsInjective(s) = IsInjective(s)
         /\ Log!IsPrefix(s, t) = IsPrefix(s, t)
BY DEF Log!ToSet, ToSet, Log!IsInjective, IsInjective, Log!IsPrefix, IsPrefix

LEMMA LogRefines ==
  ASSUME Inv, Inv', [Next]_vars
  PROVE  [Log!Commit \/ Log!Purge]_Ordered
<1>1. Distinct(log) /\ Distinct(log')
  BY LogIsDistinct DEF Inv, Chain
<1>2. /\ Ordered = InOrder(log) /\ Ordered' = InOrder(log')
  BY DEF Ordered
<1>3. CASE Ordered = Ordered'
  BY <1>3
<1>4. CASE Ordered # Ordered' /\ Grows(log, log')
  <2>1. IsPrefix(Ordered, Ordered')
    BY <1>1, <1>2, <1>4, LaterRowsAppended DEF Grows
  <2>2. IsInjective(Ordered')
    BY <1>1, <1>2, OrderShown
  <2>3. Log!Commit
    BY <1>4, <2>1, <2>2, SameOperators DEF Log!Commit
  <2> QED BY <2>3
<1>5. CASE Ordered # Ordered' /\ Shrinks(log, log')
  <2>1. ToSet(Ordered) = log /\ ToSet(Ordered') = log'
    BY <1>1, <1>2, OrderShown
  <2>2. ASSUME NEW e \in log', NEW f \in log', Log!Precedes(Ordered', e, f)
        PROVE  Log!Precedes(Ordered, e, f)
    <3>1. e.pos < f.pos
      BY <1>1, <1>2, <2>2, OrderShown
    <3>2. e \in log /\ f \in log
      BY <1>5 DEF Shrinks
    <3> QED BY <1>1, <1>2, <3>1, <3>2, OrderShown
  <2>3. \A e \in log \ log' : e.kind \in {"CLIENT_CACHE_TELEMETRY"}
    BY <1>5 DEF Shrinks
  <2>4. log' \subseteq log
    BY <1>5 DEF Shrinks
  <2>5. Log!Purge
    BY <1>5, <2>1, <2>2, <2>3, <2>4, SameOperators DEF Log!Purge
  <2> QED BY <2>5
<1> QED BY <1>2, <1>3, <1>4, <1>5, LogStep

\* The audit log, with its transactions, its trigger and its rollbacks, is
\* nothing but an append-only log: events appear in the order of their
\* positions, once, and only telemetry is ever taken out.
THEOREM TrailImplementsLog == Spec => ImplementsLog
<1>1. Init => Log!Init
  <2> SUFFICES ASSUME Init PROVE Ordered = << >>
    BY DEF Log!Init
  <2>1. log = {} /\ Cardinality(log) = 0
    BY FS_EmptySet DEF Init
  <2> QED BY <2>1 DEF Ordered, InOrder
<1>2. Inv /\ Inv' /\ [Next]_vars => [Log!Commit \/ Log!Purge]_Ordered
  BY LogRefines
<1> QED BY <1>1, <1>2, InvInit, InvStep, PTL DEF Spec, ImplementsLog, Log!Spec
=============================================================================
