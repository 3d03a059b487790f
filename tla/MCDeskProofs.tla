---------------------------- MODULE MCDeskProofs ----------------------------
(***************************************************************************)
(* Proofs about demands and payments (Spec is FeePayments'), for any       *)
(* number of demands, payments, orders and concurrent verifications and    *)
(* any amounts; and about the dues of a property and the casework beside   *)
(* the workflow, for any number of dues, amounts, interest rates, imported *)
(* payments, days, officers, photographs and requests, however these       *)
(* interleave.                                                             *)
(***************************************************************************)
EXTENDS MCDesk, SequenceTheorems, FiniteSetTheorems, TLAPS

(***************************************************************************)
(* Demands and payments: rows.                                             *)
(***************************************************************************)
\* Crediting an amount the balance admits keeps the books of a demand.
LEMMA CreditedRow ==
  ASSUME NEW row \in Demand, NEW x \in Nat \ {0}
  PROVE  /\ Credited(row, x) \in Demand
         /\ Balanced(row) /\ ~Exceeds(row, x) => Balanced(Credited(row, x))
<1>1. row.total \in Nat /\ row.paid \in Nat
  BY AmountsAssumption DEF Demand
<1>2. CASE row.status \in Payable
  <2> DEFINE s == IF row.paid + x >= row.total THEN "PAID" ELSE "PARTIALLY_PAID"
  <2>1. Credited(row, x) = [total |-> row.total, paid |-> row.paid + x, status |-> s]
    BY <1>2 DEF Credited, Demand
  <2>2. s \in DemandStatus
    BY DEF DemandStatus, Payable
  <2>3. Credited(row, x) \in Demand
    BY <1>1, <2>1, <2>2 DEF Demand
  <2>4. ~Exceeds(row, x) => Balanced(Credited(row, x))
    BY <1>1, <1>2, <2>1 DEF Exceeds, Balanced
  <2> QED BY <2>3, <2>4
<1>3. CASE row.status \notin Payable
  BY <1>3 DEF Credited
<1> QED BY <1>2, <1>3

LEMMA VerifiedRow ==
  ASSUME NEW row \in Payment, NEW g \in Attempt
  PROVE  /\ Verified(row, g) \in Payment /\ Verified(row, g).demand = row.demand
         /\ Failed(row, g) \in Payment /\ Failed(row, g).demand = row.demand
BY DEF Verified, Failed, Payment, PaymentStatus, Settled

\* Replacing an element of a sequence.
LEMMA ReplaceType ==
  ASSUME NEW S, NEW s \in Seq(S), NEW i \in DOMAIN s, NEW v \in S
  PROVE  /\ [s EXCEPT ![i] = v] \in Seq(S)
         /\ DOMAIN [s EXCEPT ![i] = v] = DOMAIN s
BY ExceptSeq

(***************************************************************************)
(* Demands and payments: types.                                            *)
(***************************************************************************)
LEMMA InitType == Init => TypeOK
BY DEF Init, TypeOK, Idle

LEMMA CreateDemandType ==
  ASSUME TypeOK, NEW total \in Totals, CreateDemand(total)
  PROVE  TypeOK'
<1>1. [total |-> total, paid |-> 0, status |-> "PENDING"] \in Demand
  BY DEF Demand, DemandStatus, Payable
<1>2. demand' \in Seq(Demand) /\ DOMAIN demand \subseteq DOMAIN demand'
  BY <1>1, AppendProperties DEF CreateDemand, TypeOK
<1> QED BY <1>2 DEF CreateDemand, TypeOK

LEMMA WithdrawType ==
  ASSUME TypeOK, NEW d \in DOMAIN demand, NEW s \in {"WAIVED", "CANCELLED"},
         Withdraw(d, s)
  PROVE  TypeOK'
<1>1. demand[d] \in Demand
  BY ElementOfSeq DEF TypeOK
<1>2. [demand[d] EXCEPT !.status = s] \in Demand
  BY <1>1 DEF Demand, DemandStatus
<1>3. demand' = [demand EXCEPT ![d] = [demand[d] EXCEPT !.status = s]]
  BY DEF Withdraw
<1>4. demand' \in Seq(Demand) /\ DOMAIN demand' = DOMAIN demand
  BY <1>2, <1>3, ReplaceType DEF TypeOK
<1> QED BY <1>4 DEF Withdraw, TypeOK

\* What a payment may do to the demand it names.
LEMMA CreditType ==
  ASSUME TypeOK, NEW d \in DOMAIN demand, NEW x \in Amounts
  PROVE  /\ [demand EXCEPT ![d] = Credited(@, x)] \in Seq(Demand)
         /\ DOMAIN [demand EXCEPT ![d] = Credited(@, x)] = DOMAIN demand
<1>1. demand[d] \in Demand /\ x \in Nat \ {0}
  BY ElementOfSeq, AmountsAssumption DEF TypeOK
<1>2. Credited(demand[d], x) \in Demand
  BY <1>1, CreditedRow
<1> QED BY <1>2, ReplaceType DEF TypeOK

\* A new payment row for an existing demand, or for none.
LEMMA NewPaymentType ==
  ASSUME TypeOK, NEW row \in Payment, row.demand \in {0} \cup DOMAIN demand
  PROVE  /\ Append(payment, row) \in Seq(Payment)
         /\ DOMAIN payment \subseteq DOMAIN Append(payment, row)
         /\ \A p \in DOMAIN Append(payment, row) :
              Append(payment, row)[p].demand \in {0} \cup DOMAIN demand
<1>1. payment \in Seq(Payment) /\ Len(payment) \in Nat
  BY LenProperties DEF TypeOK
<1>2. /\ Append(payment, row) \in Seq(Payment)
      /\ DOMAIN Append(payment, row) = 1..Len(payment) + 1
      /\ Append(payment, row)[Len(payment) + 1] = row
      /\ \A p \in 1..Len(payment) : Append(payment, row)[p] = payment[p]
  BY <1>1, AppendProperties, LenProperties
<1>3. DOMAIN payment = 1..Len(payment)
  BY <1>1, LenProperties
<1>4. \A p \in 1..Len(payment) + 1 : p \in 1..Len(payment) \/ p = Len(payment) + 1
  BY <1>1
<1> QED BY <1>1, <1>2, <1>3, <1>4 DEF TypeOK

LEMMA RecordType ==
  ASSUME TypeOK, NEW d \in {0} \cup DOMAIN demand, NEW x \in Amounts,
         RecordImmediate(d, x) \/ \E o \in Order : RecordOnline(d, x, o)
  PROVE  TypeOK'
<1>1. d \in Nat
  BY LenProperties DEF TypeOK
<1>2. CASE RecordImmediate(d, x)
  <2> DEFINE row == [demand |-> d, amount |-> x, status |-> "SUCCESS",
                     order |-> None, ref |-> None]
  <2>1. row \in Payment /\ row.demand \in {0} \cup DOMAIN demand
    BY <1>1 DEF Payment, PaymentStatus, Settled
  <2>2. payment' = Append(payment, row) /\ UNCHANGED <<handler, attempt>>
    BY <1>2 DEF RecordImmediate
  <2>3. demand' \in Seq(Demand) /\ DOMAIN demand' = DOMAIN demand
    BY <1>2, CreditType DEF RecordImmediate, TypeOK
  <2> HIDE DEF row
  <2> QED BY <2>1, <2>2, <2>3, NewPaymentType DEF TypeOK
<1>3. ASSUME NEW o \in Order, RecordOnline(d, x, o)
      PROVE  TypeOK'
  <2> DEFINE row == [demand |-> d, amount |-> x, status |-> "INITIATED",
                     order |-> o, ref |-> None]
  <2>1. row \in Payment /\ row.demand \in {0} \cup DOMAIN demand
    BY <1>1 DEF Payment, PaymentStatus
  <2>2. payment' = Append(payment, row) /\ UNCHANGED <<demand, handler, attempt>>
    BY <1>3 DEF RecordOnline
  <2> HIDE DEF row
  <2> QED BY <2>1, <2>2, NewPaymentType DEF TypeOK
<1> QED BY <1>2, <1>3

\* A payment row replaced by one for the same demand.
LEMMA ReplacedPaymentType ==
  ASSUME TypeOK, NEW p \in DOMAIN payment, NEW row \in Payment,
         row.demand = payment[p].demand
  PROVE  LET after == [payment EXCEPT ![p] = row]
         IN /\ after \in Seq(Payment) /\ DOMAIN after = DOMAIN payment
            /\ \A k \in DOMAIN after : after[k].demand \in {0} \cup DOMAIN demand
BY ReplaceType DEF TypeOK

LEMMA FoundType ==
  ASSUME TypeOK, NEW h \in Handler, NEW g \in Attempt, NEW p \in DOMAIN payment,
         handler' = [handler EXCEPT ![h] = Found(p, g)],
         UNCHANGED <<demand, payment, attempt>>
  PROVE  TypeOK'
<1>1. p \in Nat
  BY LenProperties DEF TypeOK
<1>2. Found(p, g) \in HandlerState /\ Found(p, g).payment = p
  BY <1>1 DEF Found, HandlerState
<1> HIDE DEF Found
<1> QED BY <1>2 DEF TypeOK

\* A handler with work to do names an existing payment.
LEMMA HandlerNames ==
  ASSUME TypeOK, NEW h \in Handler, handler[h].pc # "idle"
  PROVE  /\ handler[h] \in HandlerState
         /\ handler[h].payment \in DOMAIN payment
         /\ payment[handler[h].payment] \in Payment
<1>1. handler[h] # Idle /\ handler[h] \in {Idle} \cup HandlerState
  BY DEF TypeOK, Idle
<1>2. handler[h].payment \in DOMAIN payment
  BY <1>1 DEF TypeOK
<1> QED BY <1>1, <1>2, ElementOfSeq DEF TypeOK

LEMMA CheckType ==
  ASSUME TypeOK, NEW h \in Handler, Check(h)
  PROVE  TypeOK'
<1>1. /\ handler[h] \in HandlerState
      /\ handler[h].payment \in DOMAIN payment
  BY HandlerNames DEF Check
<1>2. [handler[h] EXCEPT !.pc = "checked"] \in HandlerState
  BY <1>1 DEF HandlerState
<1>3. [handler[h] EXCEPT !.pc = "checked"].payment = handler[h].payment
  BY <1>1 DEF HandlerState
<1>4. PICK v \in {Idle, [handler[h] EXCEPT !.pc = "checked"]} :
        handler' = [handler EXCEPT ![h] = v]
  BY DEF Check
<1> QED BY <1>1, <1>2, <1>3, <1>4 DEF Check, TypeOK

LEMMA CommitType ==
  ASSUME TypeOK, NEW h \in Handler, Commit(h)
  PROVE  TypeOK'
<1> DEFINE p == handler[h].payment
           d == payment[p].demand
           x == payment[p].amount
           row == Verified(payment[p], handler[h].ref)
<1>1. /\ handler[h] \in HandlerState
      /\ p \in DOMAIN payment /\ payment[p] \in Payment
  BY HandlerNames DEF Commit
<1>2. x \in Amounts /\ d \in {0} \cup DOMAIN demand
  BY <1>1 DEF TypeOK, Payment
<1>3. row \in Payment /\ row.demand = payment[p].demand
  BY <1>1, VerifiedRow DEF HandlerState
<1>4. handler' = [handler EXCEPT ![h] = Idle] /\ UNCHANGED attempt
  BY DEF Commit
<1>5. CASE d # 0 /\ Exceeds(demand[d], x)
  <2>1. UNCHANGED <<demand, payment>>
    BY <1>5 DEF Commit
  <2> QED BY <1>4, <2>1 DEF TypeOK
<1>6. CASE ~(d # 0 /\ Exceeds(demand[d], x))
  <2>1. payment' = [payment EXCEPT ![p] = row]
    BY <1>6 DEF Commit
  <2>2. demand' = IF d = 0 THEN demand ELSE [demand EXCEPT ![d] = Credited(@, x)]
    BY <1>6 DEF Commit
  <2>3. demand' \in Seq(Demand) /\ DOMAIN demand' = DOMAIN demand
    BY <1>2, <2>2, CreditType DEF TypeOK
  <2>4. /\ payment' \in Seq(Payment) /\ DOMAIN payment' = DOMAIN payment
        /\ \A k \in DOMAIN payment' : payment'[k].demand \in {0} \cup DOMAIN demand
    <3> HIDE DEF row
    <3> QED BY <1>1, <1>3, <2>1, ReplacedPaymentType
  <2> QED
    <3> HIDE DEF p, d, x, row
    <3> QED BY <1>4, <2>3, <2>4 DEF TypeOK
<1> QED BY <1>5, <1>6

LEMMA MarkFailedType ==
  ASSUME TypeOK, NEW h \in Handler, MarkFailed(h)
  PROVE  TypeOK'
<1> DEFINE p == handler[h].payment
           row == Failed(payment[p], handler[h].ref)
<1>1. /\ handler[h] \in HandlerState
      /\ p \in DOMAIN payment /\ payment[p] \in Payment
  BY HandlerNames DEF MarkFailed
<1>2. row \in Payment /\ row.demand = payment[p].demand
  BY <1>1, VerifiedRow DEF HandlerState
<1>3. /\ payment' = [payment EXCEPT ![p] = row]
      /\ handler' = [handler EXCEPT ![h] = Idle] /\ UNCHANGED <<demand, attempt>>
  BY DEF MarkFailed
<1> HIDE DEF row
<1>4. /\ payment' \in Seq(Payment) /\ DOMAIN payment' = DOMAIN payment
      /\ \A k \in DOMAIN payment' : payment'[k].demand \in {0} \cup DOMAIN demand
  BY <1>1, <1>2, <1>3, ReplacedPaymentType
<1> QED BY <1>3, <1>4 DEF TypeOK

LEMMA StepType == TypeOK /\ [Next]_vars => TypeOK'
<1> SUFFICES ASSUME TypeOK, [Next]_vars PROVE TypeOK'
  OBVIOUS
<1>1. ASSUME NEW total \in Totals, CreateDemand(total) PROVE TypeOK'
  BY <1>1, CreateDemandType
<1>2. ASSUME NEW d \in DOMAIN demand, NEW s \in {"WAIVED", "CANCELLED"},
             Withdraw(d, s)
      PROVE TypeOK'
  BY <1>2, WithdrawType
<1>3. ASSUME NEW d \in {0} \cup DOMAIN demand, NEW x \in Amounts,
             RecordImmediate(d, x) \/ \E o \in Order : RecordOnline(d, x, o)
      PROVE TypeOK'
  BY <1>3, RecordType
<1>4. ASSUME NEW g \in Attempt, NEW o \in Order,
             NEW s \in {"captured", "declined"}, PayAtGateway(g, o, s)
      PROVE TypeOK'
  BY <1>4 DEF PayAtGateway, TypeOK
<1>5. ASSUME NEW h \in Handler, NEW g \in Attempt,
             Callback(h, g) \/ \E p \in DOMAIN payment : OfficerVerifies(h, p, g)
      PROVE TypeOK'
  <2>1. PICK p \in DOMAIN payment : handler' = [handler EXCEPT ![h] = Found(p, g)]
    BY <1>5 DEF Callback, OfficerVerifies
  <2> QED BY <1>5, <2>1, FoundType DEF Callback, OfficerVerifies
<1>6. ASSUME NEW h \in Handler, Dies(h) PROVE TypeOK'
  BY <1>6 DEF Dies, TypeOK
<1>7. CASE UNCHANGED vars
  BY <1>7 DEF vars, TypeOK
<1> QED BY <1>1, <1>2, <1>3, <1>4, <1>5, <1>6, <1>7,
            CheckType, CommitType, MarkFailedType DEF Next

\* The tables stay well formed and refer to rows that exist, whatever
\* verifications interleave.
THEOREM TypeCorrect == Spec => []TypeOK
<1> QED BY InitType, StepType, PTL DEF Spec

(***************************************************************************)
(* Demands and payments: the books of a demand.                            *)
(***************************************************************************)
\* Crediting one demand an amount that its balance admits.
LEMMA CreditKeepsBooks ==
  ASSUME TypeOK, DemandBooksBalance, NEW d \in DOMAIN demand, NEW x \in Amounts,
         ~Exceeds(demand[d], x), demand' = [demand EXCEPT ![d] = Credited(@, x)]
  PROVE  DemandBooksBalance'
<1>1. demand[d] \in Demand /\ x \in Nat \ {0} /\ Balanced(demand[d])
  BY ElementOfSeq, AmountsAssumption DEF TypeOK, DemandBooksBalance
<1>2. Balanced(Credited(demand[d], x))
  BY <1>1, CreditedRow
<1> QED BY <1>2 DEF DemandBooksBalance

LEMMA StepKeepsBooks ==
  TypeOK /\ DemandBooksBalance /\ [Next]_vars => DemandBooksBalance'
<1> SUFFICES ASSUME TypeOK, DemandBooksBalance, [Next]_vars
             PROVE  DemandBooksBalance'
  OBVIOUS
<1>1. ASSUME NEW total \in Totals, CreateDemand(total) PROVE DemandBooksBalance'
  <2> DEFINE row == [total |-> total, paid |-> 0, status |-> "PENDING"]
  <2>1. row \in Demand /\ Balanced(row)
    BY AmountsAssumption DEF Demand, DemandStatus, Payable, Balanced
  <2>2. demand' = Append(demand, row)
    BY <1>1 DEF CreateDemand
  <2> HIDE DEF row
  <2>3. /\ DOMAIN demand' = 1..Len(demand) + 1 /\ Len(demand) \in Nat
        /\ demand'[Len(demand) + 1] = row
        /\ \A d \in 1..Len(demand) : demand'[d] = demand[d]
    BY <2>1, <2>2, AppendProperties, LenProperties DEF TypeOK
  <2>4. \A d \in 1..Len(demand) : Balanced(demand[d])
    BY LenProperties DEF TypeOK, DemandBooksBalance
  <2>5. ASSUME NEW d \in 1..Len(demand) + 1 PROVE Balanced(demand'[d])
    <3>1. CASE d = Len(demand) + 1
      BY <2>1, <2>3, <3>1
    <3>2. CASE d # Len(demand) + 1
      <4>1. d \in 1..Len(demand)
        BY <2>3, <3>2
      <4> QED BY <2>3, <2>4, <4>1
    <3> QED BY <3>1, <3>2
  <2> QED BY <2>3, <2>5 DEF DemandBooksBalance
<1>2. ASSUME NEW d \in DOMAIN demand, NEW s \in {"WAIVED", "CANCELLED"},
             Withdraw(d, s)
      PROVE DemandBooksBalance'
  <2>1. demand[d] \in Demand /\ Balanced(demand[d]) /\ demand[d].status = "PENDING"
    BY <1>2, ElementOfSeq DEF Withdraw, TypeOK, DemandBooksBalance
  <2>2. Balanced([demand[d] EXCEPT !.status = s])
    BY <2>1, AmountsAssumption DEF Demand, Balanced
  <2>3. demand' = [demand EXCEPT ![d] = [demand[d] EXCEPT !.status = s]]
    BY <1>2 DEF Withdraw
  <2> QED BY <2>2, <2>3 DEF DemandBooksBalance
<1>3. ASSUME NEW d \in {0} \cup DOMAIN demand, NEW x \in Amounts,
             RecordImmediate(d, x)
      PROVE DemandBooksBalance'
  <2>1. CASE d = 0
    BY <1>3, <2>1 DEF RecordImmediate, DemandBooksBalance
  <2>2. CASE d # 0
    <3>1. demand[d] \in Demand /\ x \in Nat
      BY <2>2, ElementOfSeq, AmountsAssumption DEF TypeOK
    <3>2. x <= demand[d].total - demand[d].paid
      BY <1>3, <2>2 DEF RecordImmediate, Accepts
    <3>3. demand[d].total \in Nat /\ demand[d].paid \in Nat
      BY <3>1, AmountsAssumption DEF Demand
    <3>4. ~Exceeds(demand[d], x)
      BY <3>1, <3>2, <3>3 DEF Exceeds
    <3> QED BY <1>3, <2>2, <3>4, CreditKeepsBooks DEF RecordImmediate
  <2> QED BY <2>1, <2>2
<1>4. ASSUME NEW h \in Handler, Commit(h) PROVE DemandBooksBalance'
  <2> DEFINE p == handler[h].payment
             d == payment[p].demand
             x == payment[p].amount
  <2>1. p \in DOMAIN payment /\ payment[p] \in Payment
    BY <1>4, HandlerNames DEF Commit
  <2>2. x \in Amounts /\ d \in {0} \cup DOMAIN demand
    BY <2>1 DEF TypeOK, Payment
  <2>3. \/ demand' = demand
        \/ /\ d # 0 /\ ~Exceeds(demand[d], x)
           /\ demand' = [demand EXCEPT ![d] = Credited(@, x)]
    BY <1>4 DEF Commit
  <2> HIDE DEF p, d, x
  <2> QED BY <2>2, <2>3, CreditKeepsBooks DEF DemandBooksBalance
<1>5. ASSUME UNCHANGED demand PROVE DemandBooksBalance'
  BY <1>5 DEF DemandBooksBalance
<1> QED BY <1>1, <1>2, <1>3, <1>4, <1>5
        DEF Next, vars, RecordOnline, PayAtGateway, Callback, OfficerVerifies,
            Check, MarkFailed, Dies

\* However payments and verifications race, no demand is credited beyond its
\* total and its status agrees with what was credited.
THEOREM BooksAlwaysBalance == Spec => []DemandBooksBalance
<1>1. Init => DemandBooksBalance
  BY DEF Init, DemandBooksBalance
<1> QED BY <1>1, TypeCorrect, StepKeepsBooks, PTL DEF Spec

(***************************************************************************)
(* Demands and payments: settled money.                                    *)
(***************************************************************************)
\* The row lock of a verification: what it checked is still so, and nobody
\* else has checked the same payment.
ChecksHold ==
  \A h \in Handler : handler[h].pc = "checked" =>
    /\ payment[handler[h].payment].status = "INITIATED"
    /\ \A k \in Handler \ {h} :
         ~(handler[k].pc = "checked" /\ handler[k].payment = handler[h].payment)

\* What no step may do to a payment and a demand.
PaymentsKept ==
  /\ DOMAIN payment \subseteq DOMAIN payment'
  /\ \A p \in DOMAIN payment :
       payment[p].status \in Settled => payment'[p].status = payment[p].status
DemandsKept ==
  \A d \in DOMAIN demand : demand[d].status \notin Payable => demand'[d] = demand[d]

LEMMA CreditKeepsClosed ==
  ASSUME TypeOK, NEW d, NEW x,
         demand' = demand \/ demand' = [demand EXCEPT ![d] = Credited(@, x)]
  PROVE  DemandsKept
BY DEF DemandsKept, Credited

LEMMA AppendKeepsRows ==
  ASSUME NEW S, NEW s \in Seq(S), NEW e \in S
  PROVE  DOMAIN s \subseteq DOMAIN Append(s, e) /\ \A i \in DOMAIN s : Append(s, e)[i] = s[i]
BY AppendProperties, LenProperties

\* New rows leave the others alone.
LEMMA RecordKeeps ==
  ASSUME TypeOK, ChecksHold, NEW d \in {0} \cup DOMAIN demand, NEW x \in Amounts,
         RecordImmediate(d, x) \/ \E o \in Order : RecordOnline(d, x, o)
  PROVE  ChecksHold' /\ PaymentsKept /\ DemandsKept
<1>1. d \in Nat
  BY LenProperties DEF TypeOK
<1>2. PICK row \in Payment : payment' = Append(payment, row)
  <2>1. [demand |-> d, amount |-> x, status |-> "SUCCESS", order |-> None, ref |-> None]
          \in Payment
    BY <1>1 DEF Payment, PaymentStatus, Settled
  <2>2. \A o \in Order :
          [demand |-> d, amount |-> x, status |-> "INITIATED", order |-> o, ref |-> None]
            \in Payment
    BY <1>1 DEF Payment, PaymentStatus
  <2> QED BY <2>1, <2>2 DEF RecordImmediate, RecordOnline
<1>3. DOMAIN payment \subseteq DOMAIN payment' /\ \A p \in DOMAIN payment : payment'[p] = payment[p]
  BY <1>2, AppendKeepsRows DEF TypeOK
<1>4. UNCHANGED handler
  BY DEF RecordImmediate, RecordOnline
<1>5. \A h \in Handler : handler[h].pc = "checked" => handler[h].payment \in DOMAIN payment
  BY HandlerNames
<1>6. DemandsKept
  BY CreditKeepsClosed DEF RecordImmediate, RecordOnline
<1> QED BY <1>3, <1>4, <1>5, <1>6 DEF ChecksHold, PaymentsKept

\* A handler that leaves the tables alone and is not checked afterwards.
LEMMA HandlerKeeps ==
  ASSUME TypeOK, ChecksHold, NEW h \in Handler, NEW q, q.pc # "checked",
         handler' = [handler EXCEPT ![h] = q], UNCHANGED <<demand, payment>>
  PROVE  ChecksHold' /\ PaymentsKept /\ DemandsKept
BY DEF TypeOK, ChecksHold, PaymentsKept, DemandsKept

LEMMA CheckKeeps ==
  ASSUME TypeOK, ChecksHold, NEW h \in Handler, Check(h)
  PROVE  ChecksHold' /\ PaymentsKept /\ DemandsKept
<1> DEFINE q == [handler[h] EXCEPT !.pc = "checked"]
           p == handler[h].payment
<1>1. handler[h] \in HandlerState /\ UNCHANGED <<demand, payment>> /\ Unlocked(p)
  BY HandlerNames DEF Check
<1>2. q.pc = "checked" /\ q.payment = p
  BY <1>1 DEF HandlerState
<1>3. Idle.pc # "checked"
  BY DEF Idle
<1>4. CASE handler' = [handler EXCEPT ![h] = Idle]
  BY <1>1, <1>3, <1>4, HandlerKeeps
<1>5. CASE handler' = [handler EXCEPT ![h] = q] /\ Valid(p, handler[h].ref)
  <2>1. \A k \in Handler : handler'[k] = IF k = h THEN q ELSE handler[k]
    BY <1>5 DEF TypeOK
  <2>2. payment[p].status = "INITIATED"
    BY <1>5 DEF Valid
  <2>3. \A k \in Handler : ~(handler[k].pc = "checked" /\ handler[k].payment = p)
    BY <1>1 DEF Unlocked
  <2> HIDE DEF q, p
  <2> QED BY <1>1, <1>2, <2>1, <2>2, <2>3 DEF ChecksHold, PaymentsKept, DemandsKept
<1> QED BY <1>4, <1>5 DEF Check

\* A payment in state INITIATED is verified or failed by one handler, while
\* no other has checked it; a reference may be replaced at any time.
LEMMA RowKeeps ==
  ASSUME TypeOK, ChecksHold, NEW h \in Handler, NEW p \in DOMAIN payment, NEW row,
         payment[p].status \in Settled => row.status = payment[p].status,
         payment' = [payment EXCEPT ![p] = row], handler' = [handler EXCEPT ![h] = Idle],
         \A k \in Handler \ {h} : ~(handler[k].pc = "checked" /\ handler[k].payment = p)
  PROVE  ChecksHold' /\ PaymentsKept
<1>1. Idle.pc # "checked"
  BY DEF Idle
<1>2. \A k \in Handler : handler'[k] = IF k = h THEN Idle ELSE handler[k]
  BY DEF TypeOK
<1>3. DOMAIN payment' = DOMAIN payment
      /\ \A k \in DOMAIN payment : payment'[k] = IF k = p THEN row ELSE payment[k]
  OBVIOUS
<1>4. \A k \in Handler : handler[k].pc = "checked" => handler[k].payment \in DOMAIN payment
  BY HandlerNames
<1>5. ASSUME NEW k \in Handler, handler'[k].pc = "checked"
      PROVE  payment'[handler'[k].payment].status = "INITIATED"
  BY <1>1, <1>2, <1>3, <1>4, <1>5 DEF ChecksHold
<1>6. ChecksHold'
  BY <1>1, <1>2, <1>5 DEF ChecksHold
<1>7. PaymentsKept
  BY <1>3 DEF PaymentsKept
<1> QED BY <1>6, <1>7

LEMMA CommitKeeps ==
  ASSUME TypeOK, ChecksHold, NEW h \in Handler, Commit(h)
  PROVE  ChecksHold' /\ PaymentsKept /\ DemandsKept
<1> DEFINE p == handler[h].payment
           row == Verified(payment[p], handler[h].ref)
<1>1. /\ p \in DOMAIN payment /\ payment[p].status = "INITIATED"
      /\ \A k \in Handler \ {h} : ~(handler[k].pc = "checked" /\ handler[k].payment = p)
  BY HandlerNames DEF Commit, ChecksHold
<1>2. handler' = [handler EXCEPT ![h] = Idle]
  BY DEF Commit
<1>3. CASE UNCHANGED <<demand, payment>>
  BY <1>2, <1>3, HandlerKeeps DEF Idle
<1>4. CASE payment' = [payment EXCEPT ![p] = row]
  <2>1. payment[p].status \notin Settled
    BY <1>1 DEF Settled
  <2> HIDE DEF p, row
  <2>2. ChecksHold' /\ PaymentsKept
    BY <1>1, <1>2, <1>4, <2>1, RowKeeps
  <2>3. DemandsKept
    BY CreditKeepsClosed DEF Commit
  <2> QED BY <2>2, <2>3
<1> QED BY <1>3, <1>4 DEF Commit

LEMMA MarkFailedKeeps ==
  ASSUME TypeOK, ChecksHold, NEW h \in Handler, MarkFailed(h)
  PROVE  ChecksHold' /\ PaymentsKept /\ DemandsKept
<1> DEFINE p == handler[h].payment
           row == Failed(payment[p], handler[h].ref)
<1>1. /\ p \in DOMAIN payment /\ payment[p] \in Payment
      /\ \A k \in Handler \ {h} : ~(handler[k].pc = "checked" /\ handler[k].payment = p)
  BY HandlerNames DEF MarkFailed, Unlocked
<1>2. payment[p].status \in Settled => row.status = payment[p].status
  BY <1>1 DEF Failed, Payment, Settled
<1>3. payment' = [payment EXCEPT ![p] = row] /\ handler' = [handler EXCEPT ![h] = Idle]
  BY DEF MarkFailed
<1>4. DemandsKept
  BY DEF MarkFailed, DemandsKept
<1> HIDE DEF p, row
<1> QED BY <1>1, <1>2, <1>3, <1>4, RowKeeps

LEMMA NextKeeps ==
  TypeOK /\ ChecksHold /\ [Next]_vars => ChecksHold' /\ PaymentsKept /\ DemandsKept
<1> SUFFICES ASSUME TypeOK, ChecksHold, [Next]_vars
             PROVE  ChecksHold' /\ PaymentsKept /\ DemandsKept
  OBVIOUS
<1>1. CASE UNCHANGED <<payment, handler>> /\ DemandsKept
  BY <1>1 DEF ChecksHold, PaymentsKept
<1>2. ASSUME NEW total \in Totals, CreateDemand(total) PROVE DemandsKept
  <2>1. [total |-> total, paid |-> 0, status |-> "PENDING"] \in Demand
    BY DEF Demand, DemandStatus, Payable
  <2> QED BY <1>2, <2>1, AppendKeepsRows DEF CreateDemand, DemandsKept, TypeOK
<1>3. ASSUME NEW d \in DOMAIN demand, NEW s \in {"WAIVED", "CANCELLED"}, Withdraw(d, s)
      PROVE  DemandsKept
  BY <1>3 DEF Withdraw, DemandsKept, Payable
<1>4. CASE UNCHANGED <<demand, payment, handler>>
  BY <1>1, <1>4 DEF DemandsKept
<1>5. ASSUME NEW h \in Handler, NEW g \in Attempt,
             Callback(h, g) \/ \E p \in DOMAIN payment : OfficerVerifies(h, p, g)
      PROVE  ChecksHold' /\ PaymentsKept /\ DemandsKept
  <2>1. PICK p : handler' = [handler EXCEPT ![h] = Found(p, g)]
    BY <1>5 DEF Callback, OfficerVerifies
  <2>2. Found(p, g).pc # "checked"
    BY DEF Found
  <2> QED BY <1>5, <2>1, <2>2, HandlerKeeps DEF Callback, OfficerVerifies
<1>6. ASSUME NEW h \in Handler, Dies(h) PROVE ChecksHold' /\ PaymentsKept /\ DemandsKept
  <2>1. Idle.pc # "checked"
    BY DEF Idle
  <2> QED BY <1>6, <2>1, HandlerKeeps DEF Dies
<1>7. ASSUME NEW g \in Attempt, NEW o \in Order, NEW s \in {"captured", "declined"},
             PayAtGateway(g, o, s)
      PROVE  ChecksHold' /\ PaymentsKept /\ DemandsKept
  BY <1>4, <1>7 DEF PayAtGateway
<1>8. CASE UNCHANGED vars
  BY <1>4, <1>8 DEF vars
<1>9. CASE Next
  <2>1. ASSUME NEW total \in Totals, CreateDemand(total)
        PROVE  ChecksHold' /\ PaymentsKept /\ DemandsKept
    BY <1>1, <1>2, <2>1 DEF CreateDemand
  <2>2. ASSUME NEW d \in DOMAIN demand, NEW s \in {"WAIVED", "CANCELLED"}, Withdraw(d, s)
        PROVE  ChecksHold' /\ PaymentsKept /\ DemandsKept
    BY <1>1, <1>3, <2>2 DEF Withdraw
  <2> QED BY <1>5, <1>6, <1>7, <1>9, <2>1, <2>2, RecordKeeps, CheckKeeps, CommitKeeps,
             MarkFailedKeeps DEF Next
<1> QED BY <1>8, <1>9

\* Money that was settled never becomes unsettled, and a demand that was
\* paid, waived or cancelled never changes again: the row lock makes the
\* check of a verification hold until its commit.
THEOREM SettledAlwaysFinal == Spec => SettledIsFinal
<1>1. Init => ChecksHold
  BY DEF Init, ChecksHold
<1>2. TypeOK /\ ChecksHold /\ [Next]_vars => ChecksHold'
  BY NextKeeps
<1>3. TypeOK /\ ChecksHold /\ [Next]_vars =>
        [/\ \A p \in DOMAIN payment : payment[p].status \in Settled =>
              payment'[p].status = payment[p].status
         /\ \A d \in DOMAIN demand : demand[d].status \notin Payable =>
              demand'[d] = demand[d]]_vars
  BY NextKeeps DEF PaymentsKept, DemandsKept
<1> QED BY <1>1, <1>2, <1>3, TypeCorrect, PTL DEF Spec, SettledIsFinal

(***************************************************************************)
(* A behaviour of the desk is one of each of its parts.                    *)
(***************************************************************************)
LEMMA StepOfEachPart ==
  ASSUME [MCNext]_deskVars
  PROVE  [Next]_vars /\ [N!Next]_(N!vars) /\ [C!Next]_(C!vars)
<1>1. CASE UNCHANGED deskVars
  BY <1>1 DEF deskVars, vars, ledgerVars, caseworkVars, N!vars, N!history, C!vars,
              C!complaintVars, C!deskVars
<1>2. ASSUME MCNext, beside = "payments"
      PROVE  Next /\ UNCHANGED <<ledgerVars, caseworkVars>>
  BY <1>2 DEF MCNext, Payments, Ledger, Case, Next
<1>3. ASSUME MCNext, beside = "ledger"
      PROVE  N!Next /\ UNCHANGED <<vars, caseworkVars>>
  BY <1>3 DEF MCNext, Payments, Ledger, Case, N!Next
<1>4. ASSUME MCNext, beside = "casework"
      PROVE  C!Next /\ UNCHANGED <<vars, ledgerVars>>
  BY <1>4 DEF MCNext, Payments, Ledger, Case, C!Next
<1>5. MCNext => beside \in {"payments", "ledger", "casework"}
  BY DEF MCNext, Payments, Ledger, Case
<1> QED BY <1>1, <1>2, <1>3, <1>4, <1>5
        DEF ledgerVars, caseworkVars, N!vars, N!history, C!vars, C!complaintVars, C!deskVars

LEMMA PartsOfTheDesk == MCSpec => Spec /\ N!Spec /\ C!Spec
<1>1. MCInit => Init /\ N!Init /\ C!Init
  BY DEF MCInit
<1> QED BY <1>1, StepOfEachPart, PTL DEF MCSpec, Spec, N!Spec, C!Spec

\* The casework counts as FiniteSets does.
LEMMA SameCount ==
  ASSUME NEW S
  PROVE  C!Cardinality(S) = Cardinality(S)
BY DEF C!Cardinality, Cardinality

(***************************************************************************)
(* The dues of a property.                                                 *)
(***************************************************************************)
Ledgers == [Due -> [paid : Nat, on : N!Day]]
LedgerRequests == [op : {"idle"}] \cup [op : {"post"}, copy : Ledgers]

LedgerType ==
  /\ today \in N!Day /\ ledger \in Ledgers
  /\ req \in [Request -> LedgerRequests]
  /\ posted \subseteq Due /\ overwritten \subseteq Due

\* The payments of a due cover it on the day that counts.
Covered(row, d) == row.paid > 0 /\ N!TotalOn(d, row.on) <= row.paid

LedgerInv ==
  /\ LedgerType
  /\ \A d \in posted \ overwritten : Covered(ledger[d], d)

LEMMA TotalType ==
  ASSUME NEW d \in Due, NEW day \in N!Day
  PROVE  N!TotalOn(d, day) \in Nat
<1>1. DueDay[d] \in Nat /\ Base[d] \in Nat /\ Rate[d] \in Nat /\ day \in Nat
  BY DuesAssumption, LimitsAssumption DEF N!Day
<1>2. N!Minus(day, DueDay[d]) \in Nat
  BY <1>1 DEF N!Minus
<1>3. Rate[d] * N!Minus(day, DueDay[d]) \in Nat
  <2> DEFINE m == N!Minus(day, DueDay[d])
  <2> HIDE DEF m
  <2>1. \A x, y \in Nat : x * y \in Nat
    OBVIOUS
  <2> QED BY <1>1, <1>2, <2>1 DEF m
<1> QED BY <1>1, <1>3 DEF N!TotalOn

\* What is owed grows with the days.
LEMMA TotalGrows ==
  ASSUME NEW d \in Due, NEW from \in N!Day, NEW to \in N!Day, from <= to
  PROVE  N!TotalOn(d, from) <= N!TotalOn(d, to)
<1>1. /\ DueDay[d] \in Nat /\ Base[d] \in Nat /\ Rate[d] \in Nat
      /\ from \in Nat /\ to \in Nat
  BY DuesAssumption, LimitsAssumption DEF N!Day
<1> DEFINE m == N!Minus(from, DueDay[d])
           n == N!Minus(to, DueDay[d])
<1>2. m \in Nat /\ n \in Nat /\ m <= n
  BY <1>1 DEF N!Minus
<1> HIDE DEF m, n
<1>3. \A x, y, z \in Nat : y <= z => x * y <= x * z
  OBVIOUS
<1>4. /\ Rate[d] * m \in Int /\ Rate[d] * n \in Int /\ Rate[d] * m <= Rate[d] * n
  BY <1>1, <1>2, <1>3
<1> QED BY <1>1, <1>4 DEF N!TotalOn, m, n

\* Whatever copy it is computed from, a posting covers the due it names,
\* unless a later one was imported for it, and leaves the others of the copy.
LEMMA PostedCovers ==
  ASSUME NEW l \in Ledgers, NEW d \in Due, NEW day \in N!Day, N!Owed(l, d, day) > 0
  PROVE  /\ N!Posted(l, d, day) \in Ledgers
         /\ l[d].on <= day => Covered(N!Posted(l, d, day)[d], d)
         /\ \A e \in Due \ {d} : N!Posted(l, d, day)[e] = l[e]
<1> DEFINE owed == N!Owed(l, d, day)
           on == IF l[d].paid > 0 THEN N!Later(l[d].on, day) ELSE day
           row == [paid |-> l[d].paid + owed, on |-> on]
<1>1. l[d].paid \in Nat /\ l[d].on \in N!Day
  BY DEF Ledgers
<1>2. N!TotalOn(d, day) \in Nat
  BY TotalType
<1>3. owed \in Nat /\ owed > 0 /\ l[d].paid + owed = N!TotalOn(d, day)
  BY <1>1, <1>2 DEF N!Owed, N!Minus
<1>4. on \in N!Day
  BY <1>1 DEF N!Later
<1>5. N!Posted(l, d, day) = [l EXCEPT ![d] = row]
  BY DEF N!Posted
<1>6. row \in [paid : Nat, on : N!Day]
  BY <1>1, <1>3, <1>4
<1>7. l[d].on <= day => Covered(row, d)
  <2>1. row.paid = N!TotalOn(d, day) /\ row.paid > 0 /\ row.on = on
    BY <1>1, <1>3
  <2>2. l[d].on <= day => on = day
    BY <1>1, LimitsAssumption DEF N!Later, N!Day
  <2> QED BY <1>2, <2>1, <2>2 DEF Covered
<1> HIDE DEF row
<1>8. /\ [l EXCEPT ![d] = row] \in Ledgers
      /\ \A e \in Due : [l EXCEPT ![d] = row][e] = IF e = d THEN row ELSE l[e]
  BY <1>6 DEF Ledgers
<1> QED BY <1>5, <1>7, <1>8

LEMMA LedgerInit == N!Init => LedgerInv
<1> SUFFICES ASSUME N!Init PROVE LedgerInv
  OBVIOUS
<1>1. today \in N!Day
  BY LimitsAssumption DEF N!Init, N!Day
<1>2. {0} \cup Seeded \subseteq Nat /\ {0} \cup SeededOn \subseteq N!Day
  BY ImportAssumption, LimitsAssumption DEF N!Day
<1>3. ASSUME NEW d \in Due PROVE ledger[d] \in [paid : Nat, on : N!Day]
  <2>1. ledger[d] \in N!Imported
    BY DEF N!Init
  <2> QED BY <1>2, <2>1 DEF N!Imported
<1>4. ledger \in Ledgers
  BY <1>3 DEF N!Init, Ledgers
<1>5. req \in [Request -> LedgerRequests]
  BY DEF N!Init, N!Idle, LedgerRequests
<1> QED BY <1>1, <1>4, <1>5 DEF N!Init, LedgerInv, LedgerType

\* What is posted and not overwritten was settled just now, or is in the
\* column as it was before.
LEMMA PostingStep ==
  ASSUME LedgerInv, NEW r \in Request, NEW d \in Due, NEW day \in N!Day,
         N!PostPayment(r, d, day)
  PROVE  LedgerInv'
<1> DEFINE copy == req[r].copy
<1>1. copy \in Ledgers /\ N!Owed(copy, d, day) > 0
  BY DEF N!PostPayment, LedgerInv, LedgerType, LedgerRequests
<1>2. /\ ledger' = N!Posted(copy, d, day)
      /\ posted' = posted \cup N!Settling(copy, d, day)
      /\ overwritten' = (overwritten \cup N!Stale(copy)) \ N!Settling(copy, d, day)
      /\ req' = [req EXCEPT ![r] = N!Idle] /\ today' = today
  BY DEF N!PostPayment
<1>3. /\ N!Settling(copy, d, day) \in {{}, {d}} /\ N!Stale(copy) \subseteq Due
      /\ d \in N!Settling(copy, d, day) => copy[d].on <= day
  BY DEF N!Settling, N!Stale
<1> HIDE DEF copy
<1>4. /\ ledger' \in Ledgers
      /\ copy[d].on <= day => Covered(ledger'[d], d)
      /\ \A e \in Due \ {d} : ledger'[e] = copy[e]
  BY <1>1, <1>2, PostedCovers
<1>5. LedgerType'
  <2>1. N!Idle \in LedgerRequests
    BY DEF N!Idle, LedgerRequests
  <2> QED BY <1>2, <1>3, <1>4, <2>1 DEF LedgerInv, LedgerType
<1>6. ASSUME NEW e \in posted' \ overwritten' PROVE Covered(ledger'[e], e)
  <2>1. CASE e \in N!Settling(copy, d, day)
    BY <1>3, <1>4, <2>1
  <2>2. CASE e \notin N!Settling(copy, d, day)
    <3>1. e \in Due /\ e \in posted \ overwritten /\ copy[e] = ledger[e]
      BY <1>2, <1>6, <2>2 DEF N!Stale, LedgerInv, LedgerType
    <3>2. Covered(ledger[e], e)
      BY <3>1 DEF LedgerInv
    <3>3. CASE e # d
      BY <1>4, <3>1, <3>2, <3>3
    \* A due that is covered owes nothing on the day of an earlier payment.
    <3>4. CASE e = d
      <4>1. N!TotalOn(d, copy[d].on) <= copy[d].paid /\ ~(copy[d].on <= day)
        BY <2>2, <3>1, <3>2, <3>4 DEF Covered, N!Settling
      <4>2. N!TotalOn(d, day) <= N!TotalOn(d, copy[d].on)
        <5>1. copy[d].on \in N!Day
          BY <1>1 DEF Ledgers
        <5>2. day <= copy[d].on
          BY <4>1, <5>1, LimitsAssumption DEF N!Day
        <5> QED BY <5>1, <5>2, TotalGrows
      <4>3. /\ copy[d].paid \in Nat /\ N!TotalOn(d, copy[d].on) \in Nat
            /\ N!TotalOn(d, day) \in Nat
        BY <1>1, TotalType DEF Ledgers
      <4> QED BY <1>1, <4>1, <4>2, <4>3 DEF N!Owed, N!Minus
    <3> QED BY <3>3, <3>4
  <2> QED BY <2>1, <2>2
<1> QED BY <1>5, <1>6 DEF LedgerInv

LEMMA LedgerStep == LedgerInv /\ [N!Next]_(N!vars) => LedgerInv'
<1> SUFFICES ASSUME LedgerInv, [N!Next]_(N!vars) PROVE LedgerInv'
  OBVIOUS
<1>1. CASE N!Tick
  <2>1. today' \in N!Day
    BY <1>1, LimitsAssumption DEF N!Tick, N!Day, LedgerInv, LedgerType
  <2> QED BY <1>1, <2>1 DEF N!Tick, N!history, LedgerInv, LedgerType
<1>2. CASE UNCHANGED N!vars
  BY <1>2 DEF N!vars, N!history, LedgerInv, LedgerType
<1>3. ASSUME NEW r \in Request, NEW q \in LedgerRequests,
             req' = [req EXCEPT ![r] = q],
             UNCHANGED <<today, ledger, posted, overwritten>>
      PROVE  LedgerInv'
  BY <1>3 DEF LedgerInv, LedgerType
<1>4. ASSUME NEW r \in Request, N!ReadProperty(r) PROVE LedgerInv'
  <2>1. [op |-> "post", copy |-> ledger] \in LedgerRequests
    BY DEF LedgerRequests, LedgerInv, LedgerType
  <2> QED BY <1>3, <1>4, <2>1 DEF N!ReadProperty, N!history
<1>5. ASSUME NEW r \in Request, N!RefusePayment(r) PROVE LedgerInv'
  <2>1. N!Idle \in LedgerRequests
    BY DEF N!Idle, LedgerRequests
  <2> QED BY <1>3, <1>5, <2>1 DEF N!RefusePayment, N!history
<1> QED BY <1>1, <1>2, <1>4, <1>5, PostingStep DEF N!Next

LEMMA LedgerAlwaysCovered == MCSpec => []LedgerInv
BY LedgerInit, LedgerStep, PartsOfTheDesk, PTL DEF N!Spec

\* A due to which a payment was posted, dated no earlier than those it joined,
\* owes nothing on any day, unless a posting wrote a copy over it that was read
\* before it was paid: of overlapping postings of one due the last settles it,
\* whatever its copy holds.
THEOREM PostedAlwaysSettled == MCSpec => []PostedIsSettled
<1>1. ASSUME LedgerInv PROVE PostedIsSettled
  <2>1. ASSUME NEW d \in posted \ overwritten, NEW now \in N!Day
        PROVE  N!Balance(ledger, d, now) = 0
    <3>1. d \in Due /\ ledger[d].paid > 0 /\ N!TotalOn(d, ledger[d].on) <= ledger[d].paid
      BY <1>1 DEF LedgerInv, LedgerType, Covered
    <3>2. ledger[d].paid \in Nat /\ ledger[d].on \in N!Day
      BY <1>1, <3>1 DEF LedgerInv, LedgerType, Ledgers
    <3>3. N!TotalOn(d, ledger[d].on) \in Nat
      BY <3>1, <3>2, TotalType
    <3> QED BY <3>1, <3>2, <3>3 DEF N!Balance, N!Minus
  <2> QED BY <2>1 DEF PostedIsSettled, N!PostedIsSettled
<1> QED BY <1>1, LedgerAlwaysCovered, PTL

\* No step but the writing of a stale copy uncovers a property that owes
\* nothing: not the passing of days, not a posting, whatever its date.
LEMMA StepKeepsPaid ==
  ASSUME LedgerInv, [N!Next]_(N!vars), N!AllPaid(ledger, today),
         \A r \in Request : req[r].op = "post" => req[r].copy = ledger
  PROVE  N!AllPaid(ledger', today')
<1>1. /\ today \in N!Day /\ ledger \in Ledgers
      /\ today' \in N!Day /\ ledger' \in Ledgers
  BY LedgerStep DEF LedgerInv, LedgerType
<1>2. SUFFICES ASSUME NEW d \in Due PROVE N!Balance(ledger', d, today') = 0
  BY DEF N!AllPaid
<1> DEFINE row == ledger[d]
           day == IF row.paid > 0 THEN row.on ELSE today
<1>3. row.paid \in Nat /\ row.on \in N!Day /\ day \in N!Day
  BY <1>1 DEF Ledgers
<1>4. N!TotalOn(d, day) \in Nat /\ N!TotalOn(d, day) <= row.paid
  <2>1. N!Balance(ledger, d, today) = 0
    BY DEF N!AllPaid
  <2>2. N!TotalOn(d, day) \in Nat
    BY <1>3, TotalType
  <2> QED BY <1>3, <2>1, <2>2 DEF N!Balance, N!Minus
\* Nothing paid and nothing owed: there is nothing to bear interest.
<1>5. row.paid = 0 => \A on \in N!Day : N!TotalOn(d, on) = 0
  <2> SUFFICES ASSUME row.paid = 0, NEW on \in N!Day PROVE N!TotalOn(d, on) = 0
    OBVIOUS
  <2>1. Base[d] \in Nat /\ Rate[d] \in Nat /\ DueDay[d] \in Nat /\ day \in Nat /\ on \in Nat
    BY <1>3, DuesAssumption, LimitsAssumption DEF N!Day
  <2>2. \A a, b, c \in Nat : a + b * c <= 0 => a = 0
    OBVIOUS
  <2>3. N!Minus(day, DueDay[d]) \in Nat /\ N!Minus(on, DueDay[d]) \in Nat
    BY <2>1 DEF N!Minus
  <2>4. Base[d] = 0
    BY <1>4, <2>1, <2>2, <2>3 DEF N!TotalOn
  <2>5. Rate[d] = 0
    BY <2>4, DuesAssumption
  <2> QED BY <2>3, <2>4, <2>5 DEF N!TotalOn
<1>6. CASE ledger' = ledger
  <2>1. CASE row.paid > 0
    BY <1>3, <1>4, <1>6, <2>1 DEF N!Balance, N!Minus
  <2>2. CASE row.paid = 0
    BY <1>1, <1>3, <1>5, <1>6, <2>2 DEF N!Balance, N!Minus
  <2> QED BY <1>3, <2>1, <2>2
<1>7. ASSUME NEW r \in Request, NEW e \in Due, NEW at \in N!Day, N!PostPayment(r, e, at)
      PROVE  N!Balance(ledger', d, today') = 0
  <2>1. /\ ledger' = N!Posted(ledger, e, at) /\ N!Owed(ledger, e, at) > 0
        /\ today' = today
    BY <1>7 DEF N!PostPayment, N!vars
  <2>2. CASE d # e
    <3>1. ledger'[d] = ledger[d]
      BY <1>1, <2>1, <2>2 DEF N!Posted, Ledgers
    <3> QED BY <2>1, <3>1 DEF N!Balance, N!AllPaid
  <2>3. CASE d = e
    <3>1. N!TotalOn(d, at) \in Nat
      BY TotalType
    <3>2. row.paid > 0
      BY <1>3, <1>5, <2>1, <2>3, <3>1 DEF N!Owed, N!Minus
    <3>3. /\ ledger'[d].paid = N!TotalOn(d, at) /\ N!TotalOn(d, at) > row.paid
          /\ ledger'[d].on = N!Later(row.on, at)
      <4>1. N!Owed(ledger, d, at) = N!TotalOn(d, at) - row.paid
            /\ N!TotalOn(d, at) > row.paid
        BY <1>3, <2>1, <2>3, <3>1 DEF N!Owed, N!Minus
      <4>2. ledger'[d].paid = row.paid + N!Owed(ledger, d, at)
            /\ ledger'[d].on = N!Later(row.on, at)
        BY <1>1, <2>1, <2>3, <3>2 DEF N!Posted, Ledgers
      <4> QED BY <1>3, <3>1, <4>1, <4>2
    <3>4. N!TotalOn(d, ledger'[d].on) <= ledger'[d].paid
      <4>1. ledger'[d].on \in {row.on, at}
        BY <3>3 DEF N!Later
      <4> QED BY <1>3, <1>4, <3>1, <3>2, <3>3, <4>1
    <3>5. ledger'[d].paid > 0 /\ N!TotalOn(d, ledger'[d].on) \in Nat
      <4>1. ledger'[d].on \in N!Day
        BY <1>1 DEF Ledgers
      <4> QED BY <1>3, <3>1, <3>2, <3>3, <4>1, TotalType
    <3> QED BY <3>1, <3>3, <3>4, <3>5 DEF N!Balance, N!Minus
  <2> QED BY <2>2, <2>3
<1> QED BY <1>6, <1>7
        DEF N!Next, N!vars, N!Tick, N!ReadProperty, N!RefusePayment

\* A property that owes nothing comes to owe something only when a posting
\* writes back a column that was changed since it was read.
THEOREM SettledStaysUnlessOverwritten == MCSpec => SettledUnlessOverwritten
<1> DEFINE Kept ==
      N!AllPaid(ledger, today) /\ ~N!AllPaid(ledger, today)' =>
        \E r \in Request : req[r].op = "post" /\ req[r].copy # ledger
<1>1. LedgerInv /\ [N!Next]_(N!vars) => [Kept]_(N!vars)
  <2> SUFFICES ASSUME LedgerInv, [N!Next]_(N!vars), N!AllPaid(ledger, today),
                      \A r \in Request : req[r].op = "post" => req[r].copy = ledger
               PROVE  N!AllPaid(ledger, today)'
    OBVIOUS
  <2>1. N!AllPaid(ledger', today')
    BY StepKeepsPaid
  <2> QED BY <2>1 DEF N!AllPaid, N!Balance
<1>2. SettledUnlessOverwritten <=> [][Kept]_(N!vars)
  BY DEF SettledUnlessOverwritten, N!SettledUnlessOverwritten
<1> HIDE DEF Kept
<1>3. N!Spec /\ []LedgerInv => [][Kept]_(N!vars)
  BY <1>1, PTL DEF N!Spec
<1> QED BY <1>2, <1>3, PartsOfTheDesk, LedgerAlwaysCovered, PTL

(***************************************************************************)
(* Casework: the evidence of a complaint.                                  *)
(***************************************************************************)
Uploads == {"put", "insert", "clean"}

CaseRequests ==
  [op : {"idle"}]
    \cup [op : {"status"}, to : C!Status, resolved : BOOLEAN]
    \cup [op : Uploads, photo : Photo]
    \cup [op : {"findings"}, by : {None} \cup Officer]

\* An upload that may still store its row, holding the complaint's lock.
Storing(q) == q.op \in {"put", "insert"}

\* It was admitted and nobody was since; its file is there before its row is.
StoringInv ==
  \A r \in Request : Storing(calls[r]) =>
    /\ lock = r /\ Cardinality(evidence) < MaxEvidence
    /\ calls[r].photo \notin evidence
    /\ calls[r].op = "insert" => calls[r].photo \in files

\* No two uploads have a photograph in common, and one that is cleaned up has
\* no row, unless its COMMIT got no answer.
UploadsApart ==
  \A r \in Request : calls[r].op \in Uploads =>
    /\ \A x \in Request \ {r} :
         calls[x].op \in Uploads => calls[x].photo # calls[r].photo
    /\ calls[r].op = "clean" =>
         calls[r].photo \notin evidence \/ calls[r].photo \in unanswered

\* A completed inspection was completed by the one it was assigned to.
FindingsInv ==
  inspection.status = "COMPLETED" => inspection.officer \in {None, inspection.by}

ComplaintRow == [status : C!Status, resolved : BOOLEAN]

CaseInv ==
  /\ complaint \in ComplaintRow
  /\ calls \in [Request -> CaseRequests]
  /\ IsFiniteSet(evidence) /\ Cardinality(evidence) <= MaxEvidence
  /\ \A p \in evidence : p \in files \/ p \in unanswered
  /\ StoringInv /\ UploadsApart

\* The inspection, the letter and the refund.
DeskInv ==
  /\ inspection \in [status : C!Pending \cup {"COMPLETED", "CANCELLED"},
                     officer : {None} \cup Officer, by : {None} \cup Officer]
  /\ refund \in C!Refunds /\ FindingsInv

LEMMA CaseInit == C!Init => CaseInv /\ DeskInv
<1> SUFFICES ASSUME C!Init PROVE CaseInv /\ DeskInv
  OBVIOUS
<1>1. calls \in [Request -> CaseRequests] /\ \A r \in Request : calls[r].op = "idle"
  BY DEF C!Init, C!Idle, CaseRequests
<1>2. evidence = {} /\ IsFiniteSet(evidence) /\ Cardinality(evidence) = 0
  BY FS_EmptySet DEF C!Init
<1>3. 0 <= MaxEvidence
  BY LimitsAssumption
<1>4. StoringInv /\ UploadsApart
  BY <1>1 DEF StoringInv, Storing, UploadsApart, Uploads
<1>5. inspection.status = "SCHEDULED" /\
      inspection \in [status : C!Pending, officer : {None} \cup Officer, by : {None} \cup Officer]
  BY DEF C!Init, C!NewInspections, C!Pending
<1>6. refund \in C!Refunds
  BY DEF C!Init, C!NewRefund, C!Refunds
<1>7. complaint \in ComplaintRow
  BY DEF C!Init, C!NewComplaint, ComplaintRow, C!Status
<1> QED BY <1>1, <1>2, <1>3, <1>4, <1>5, <1>6, <1>7 DEF CaseInv, DeskInv, FindingsInv

\* A request takes a step that leaves the evidence and its files alone, and
\* is or was no upload.
LEMMA OtherRequest ==
  ASSUME CaseInv, NEW r \in Request, NEW q \in CaseRequests,
         calls' = [calls EXCEPT ![r] = q],
         q.op \notin Uploads, complaint' \in ComplaintRow,
         UNCHANGED <<evidence, files, lock, unanswered>>
  PROVE  CaseInv'
<1>1. /\ calls' \in [Request -> CaseRequests]
      /\ \A x \in Request : calls'[x] = IF x = r THEN q ELSE calls[x]
  BY DEF CaseInv
<1>2. StoringInv'
  BY <1>1 DEF CaseInv, StoringInv, Storing, Uploads
<1>3. UploadsApart'
  BY <1>1 DEF CaseInv, UploadsApart
<1> QED BY <1>1, <1>2, <1>3 DEF CaseInv

LEMMA StartEvidenceStep ==
  ASSUME CaseInv, NEW r \in Request, NEW p \in Photo, C!StartEvidence(r, p)
  PROVE  CaseInv'
<1> DEFINE q == [op |-> "put", photo |-> p]
<1>1. q \in CaseRequests /\ q.op = "put" /\ q.photo = p
  BY DEF CaseRequests, Uploads
<1>2. /\ lock = None /\ Cardinality(evidence) < MaxEvidence /\ p \notin evidence
      /\ \A x \in Request : calls[x].op \in Uploads => calls[x].photo # p
      /\ calls' = [calls EXCEPT ![r] = q] /\ lock' = r
      /\ UNCHANGED <<complaint, evidence, files, unanswered>>
  BY SameCount DEF C!StartEvidence, C!Admitted, C!Begin, Uploads
<1> HIDE DEF q
<1>3. /\ calls' \in [Request -> CaseRequests]
      /\ \A x \in Request : calls'[x] = IF x = r THEN q ELSE calls[x]
  BY <1>1, <1>2 DEF CaseInv
\* Nobody else stores: the lock was free, and nobody is no request.
<1>4. \A x \in Request : ~Storing(calls[x])
  BY <1>2, RequestAssumption DEF CaseInv, StoringInv, Request
<1>5. StoringInv'
  BY <1>1, <1>2, <1>3, <1>4 DEF StoringInv, Storing
<1>6. UploadsApart'
  BY <1>1, <1>2, <1>3 DEF CaseInv, UploadsApart
<1> QED BY <1>2, <1>3, <1>5, <1>6 DEF CaseInv

LEMMA StoreEvidenceStep ==
  ASSUME CaseInv, NEW r \in Request, C!StoreEvidence(r)
  PROVE  CaseInv'
<1>1. calls[r].op = "put" /\ calls[r] \in CaseRequests
  BY DEF C!StoreEvidence, CaseInv
<1>2. PICK op \in {"insert", "clean"} :
        /\ calls' = [calls EXCEPT ![r].op = op]
        /\ op = "insert" => files' = files \cup {calls[r].photo} /\ lock' = lock
        /\ op = "clean" => files' = files /\ lock' = None
  BY DEF C!StoreEvidence
<1> DEFINE q == [calls[r] EXCEPT !.op = op]
<1>3. q \in CaseRequests /\ q.op = op /\ q.photo = calls[r].photo
  BY <1>1 DEF CaseRequests, Uploads
<1>4. calls' = [calls EXCEPT ![r] = q] /\ UNCHANGED <<complaint, evidence, unanswered>>
  BY <1>2 DEF C!StoreEvidence
<1> HIDE DEF q
<1>5. /\ calls' \in [Request -> CaseRequests]
      /\ \A x \in Request : calls'[x] = IF x = r THEN q ELSE calls[x]
  BY <1>3, <1>4 DEF CaseInv
<1>6. \A x \in Request \ {r} : ~Storing(calls[x])
  BY <1>1 DEF CaseInv, StoringInv, Storing
<1>7. calls[r].photo \notin evidence /\ lock = r
  BY <1>1 DEF CaseInv, StoringInv, Storing
<1>8. StoringInv'
  BY <1>1, <1>2, <1>3, <1>4, <1>5, <1>6 DEF CaseInv, StoringInv, Storing
<1>9. UploadsApart'
  BY <1>1, <1>3, <1>4, <1>5, <1>7 DEF CaseInv, UploadsApart, Uploads
<1>10. files \subseteq files'
  BY <1>2
<1> QED BY <1>4, <1>5, <1>8, <1>9, <1>10 DEF CaseInv

LEMMA CommitEvidenceStep ==
  ASSUME CaseInv, NEW r \in Request, C!CommitEvidence(r)
  PROVE  CaseInv'
<1> DEFINE p == calls[r].photo
<1>1. /\ calls[r].op = "insert" /\ calls[r] \in CaseRequests
      /\ lock' = None /\ UNCHANGED <<complaint, files>>
  BY DEF C!CommitEvidence, CaseInv
<1>2. /\ p \in files /\ p \notin evidence /\ Cardinality(evidence) < MaxEvidence
      /\ \A x \in Request \ {r} : ~Storing(calls[x])
  BY <1>1 DEF CaseInv, StoringInv, Storing
<1>3. PICK q \in CaseRequests :
        /\ calls' = [calls EXCEPT ![r] = q]
        /\ \/ q.op = "idle" /\ evidence' = evidence \cup {p} /\ unanswered' = unanswered
           \/ /\ q.op = "clean" /\ q.photo = p
              /\ \/ evidence' = evidence /\ unanswered' = unanswered
                 \/ evidence' = evidence \cup {p} /\ unanswered' = unanswered \cup {p}
  <2>1. C!Idle \in CaseRequests /\ C!Idle.op = "idle"
    BY DEF C!Idle, CaseRequests
  <2> DEFINE c == [calls[r] EXCEPT !.op = "clean"]
  <2>2. c \in CaseRequests /\ c.op = "clean" /\ c.photo = p
    BY <1>1 DEF CaseRequests, Uploads
  <2>3. \/ /\ calls' = [calls EXCEPT ![r] = C!Idle]
           /\ evidence' = evidence \cup {p} /\ unanswered' = unanswered
        \/ /\ calls' = [calls EXCEPT ![r] = c]
           /\ \/ evidence' = evidence /\ unanswered' = unanswered
              \/ evidence' = evidence \cup {p} /\ unanswered' = unanswered \cup {p}
    BY DEF C!CommitEvidence, C!Done
  <2> HIDE DEF c, p
  <2> QED BY <2>1, <2>2, <2>3
<1> HIDE DEF p
<1>4. /\ calls' \in [Request -> CaseRequests]
      /\ \A x \in Request : calls'[x] = IF x = r THEN q ELSE calls[x]
  BY <1>3 DEF CaseInv
<1>5. evidence' \in {evidence, evidence \cup {p}} /\ unanswered \subseteq unanswered'
  BY <1>3
<1>6. IsFiniteSet(evidence') /\ Cardinality(evidence') <= MaxEvidence
  <2>1. IsFiniteSet(evidence) /\ Cardinality(evidence) \in Nat /\ MaxEvidence \in Nat
    BY FS_CardinalityType, LimitsAssumption DEF CaseInv
  <2>2. /\ IsFiniteSet(evidence \cup {p})
        /\ Cardinality(evidence \cup {p}) = Cardinality(evidence) + 1
    BY <1>2, <2>1, FS_AddElement
  <2>3. \A S \in {evidence, evidence \cup {p}} :
          IsFiniteSet(S) /\ Cardinality(S) <= MaxEvidence
    BY <1>2, <2>1, <2>2
  <2> QED BY <1>5, <2>3
<1>7. \A x \in evidence' : x \in files' \/ x \in unanswered'
  BY <1>1, <1>2, <1>5 DEF CaseInv
<1>8. StoringInv'
  BY <1>2, <1>3, <1>4 DEF StoringInv, Storing
<1>9. UploadsApart'
  <2>1. \A x \in Request \ {r} : calls[x].op \in Uploads => calls[x].photo # p
    BY <1>1 DEF CaseInv, UploadsApart, Uploads, p
  <2>2. \A x \in Request \ {r} : calls[x].op = "clean" =>
          calls[x].photo \notin evidence' \/ calls[x].photo \in unanswered'
    BY <1>5, <2>1 DEF CaseInv, UploadsApart, Uploads
  <2>3. q.op = "clean" => q.photo = p /\ (p \notin evidence' \/ p \in unanswered')
    BY <1>2, <1>3
  <2>4. q.op \in {"idle", "clean"}
    BY <1>3
  <2> QED BY <1>4, <2>1, <2>2, <2>3, <2>4 DEF CaseInv, UploadsApart, Uploads
<1> QED BY <1>1, <1>4, <1>6, <1>7, <1>8, <1>9 DEF CaseInv

\* The file that is deleted is no other upload's, and no row is left to it
\* but one whose COMMIT got no answer.
LEMMA CleanEvidenceStep ==
  ASSUME CaseInv, NEW r \in Request, C!CleanEvidence(r)
  PROVE  CaseInv'
<1> DEFINE p == calls[r].photo
<1>1. /\ calls[r].op = "clean" /\ calls' = [calls EXCEPT ![r] = C!Idle]
      /\ files' = files \ {p} /\ UNCHANGED <<complaint, evidence, lock, unanswered>>
  BY DEF C!CleanEvidence, C!Cleaned, C!Done
<1>2. C!Idle \in CaseRequests /\ C!Idle.op = "idle"
  BY DEF C!Idle, CaseRequests
<1>3. /\ p \notin evidence \/ p \in unanswered
      /\ \A x \in Request \ {r} : calls[x].op \in Uploads => calls[x].photo # p
  BY <1>1 DEF CaseInv, UploadsApart, Uploads
<1> HIDE DEF p
<1>4. /\ calls' \in [Request -> CaseRequests]
      /\ \A x \in Request : calls'[x] = IF x = r THEN C!Idle ELSE calls[x]
  BY <1>1, <1>2 DEF CaseInv
<1>5. StoringInv'
  BY <1>1, <1>2, <1>3, <1>4 DEF CaseInv, StoringInv, Storing, Uploads
<1>6. UploadsApart'
  BY <1>1, <1>2, <1>4 DEF CaseInv, UploadsApart, Uploads
<1>7. \A x \in evidence' : x \in files' \/ x \in unanswered'
  BY <1>1, <1>3 DEF CaseInv
<1> QED BY <1>1, <1>4, <1>5, <1>6, <1>7 DEF CaseInv

LEMMA UploaderDiesStep ==
  ASSUME CaseInv, NEW r \in Request, C!UploaderDies(r)
  PROVE  CaseInv'
<1>1. /\ calls' = [calls EXCEPT ![r] = C!Idle] 
      /\ UNCHANGED <<complaint, evidence, files, unanswered>>
      /\ lock' = IF lock = r THEN None ELSE lock
  BY DEF C!UploaderDies, C!Done
<1>2. C!Idle \in CaseRequests /\ C!Idle.op = "idle"
  BY DEF C!Idle, CaseRequests
<1>3. /\ calls' \in [Request -> CaseRequests]
      /\ \A x \in Request : calls'[x] = IF x = r THEN C!Idle ELSE calls[x]
  BY <1>1, <1>2 DEF CaseInv
<1>4. StoringInv'
  BY <1>1, <1>2, <1>3 DEF CaseInv, StoringInv, Storing
<1>5. UploadsApart'
  BY <1>1, <1>2, <1>3 DEF CaseInv, UploadsApart, Uploads
<1> QED BY <1>1, <1>3, <1>4, <1>5 DEF CaseInv

LEMMA CaseStep == CaseInv /\ [C!Next]_(C!vars) => CaseInv'
<1> SUFFICES ASSUME CaseInv, [C!Next]_(C!vars) PROVE CaseInv'
  OBVIOUS
<1>1. C!Idle \in CaseRequests /\ C!Idle.op = "idle" /\ "idle" \notin Uploads
  BY DEF C!Idle, CaseRequests, Uploads
<1>2. ASSUME NEW r \in Request, C!StartStatus(r) PROVE CaseInv'
  <2>1. PICK s \in C!Allowed(complaint.status) :
          calls' = [calls EXCEPT ![r] = [op |-> "status", to |-> s,
                                         resolved |-> complaint.resolved]]
    BY <1>2 DEF C!StartStatus, C!Begin
  <2> DEFINE q == [op |-> "status", to |-> s, resolved |-> complaint.resolved]
  <2>2. s \in C!Status
    BY DEF C!Allowed, C!Status
  <2>3. q \in CaseRequests /\ q.op \notin Uploads
    BY <2>2 DEF CaseRequests, Uploads, CaseInv, ComplaintRow
  <2>4. UNCHANGED <<complaint, evidence, files, lock, unanswered>> /\ complaint \in ComplaintRow
    BY <1>2 DEF C!StartStatus, C!complaintVars, CaseInv
  <2>5. calls' = [calls EXCEPT ![r] = q]
    BY <2>1
  <2> HIDE DEF q
  <2> QED BY <2>3, <2>4, <2>5, OtherRequest
<1>3. ASSUME NEW r \in Request, C!FinishStatus(r) \/ C!FinishFindings(r) PROVE CaseInv'
  <2>1. /\ calls' = [calls EXCEPT ![r] = C!Idle]
        /\ UNCHANGED <<evidence, files, lock, unanswered>>
    BY <1>3 DEF C!FinishStatus, C!FinishFindings, C!Done, C!complaintVars
  <2>2. CASE C!FinishStatus(r)
    <3> DEFINE resolved == calls[r].to \in {"RESOLVED", "CLOSED"} \/ calls[r].resolved
    <3>1. calls[r] \in CaseRequests /\ calls[r].op = "status"
      BY <2>2 DEF C!FinishStatus, CaseInv
    <3>2. calls[r].to \in C!Status /\ resolved \in BOOLEAN
      BY <3>1 DEF CaseRequests, Uploads
    <3>3. complaint' = [status |-> calls[r].to, resolved |-> resolved]
      BY <2>2 DEF C!FinishStatus
    <3> HIDE DEF resolved
    <3> QED BY <1>1, <2>1, <3>2, <3>3, OtherRequest DEF ComplaintRow
  <2>3. CASE C!FinishFindings(r)
    <3>1. complaint' \in ComplaintRow
      BY <2>3 DEF C!FinishFindings, C!complaintVars, CaseInv
    <3> QED BY <1>1, <2>1, <3>1, OtherRequest
  <2> QED BY <1>3, <2>2, <2>3
<1>4. ASSUME NEW r \in Request, C!StartApproval(r) \/ \E o \in Officer : C!StartFindings(r, o)
      PROVE  CaseInv'
  <2>1. PICK by \in {None} \cup Officer :
          calls' = [calls EXCEPT ![r] = [op |-> "findings", by |-> by]]
    BY <1>4 DEF C!StartApproval, C!StartFindings, C!Begin
  <2> DEFINE q == [op |-> "findings", by |-> by]
  <2>2. q \in CaseRequests /\ q.op \notin Uploads
    BY DEF CaseRequests, Uploads
  <2>3. UNCHANGED <<complaint, evidence, files, lock, unanswered>> /\ complaint \in ComplaintRow
    BY <1>4 DEF C!StartApproval, C!StartFindings, C!complaintVars, CaseInv
  <2>4. calls' = [calls EXCEPT ![r] = q]
    BY <2>1
  <2> HIDE DEF q
  <2> QED BY <2>2, <2>3, <2>4, OtherRequest
<1>5. ASSUME UNCHANGED <<complaint, evidence, files, lock, unanswered, calls>>
      PROVE  CaseInv'
  BY <1>5 DEF CaseInv, StoringInv, UploadsApart
<1> QED BY <1>2, <1>3, <1>4, <1>5, StartEvidenceStep, StoreEvidenceStep, CommitEvidenceStep,
           CleanEvidenceStep, UploaderDiesStep
        DEF C!Next, C!vars, C!complaintVars, C!AssignInspection, C!CancelInspection,
            C!DispatchNotice, C!ApproveRefund, C!RejectRefund, C!ProcessRefund, C!RefundTo,
            C!AtOnce

LEMMA EvidenceAlwaysInv == MCSpec => []CaseInv
BY CaseInit, CaseStep, PartsOfTheDesk, PTL DEF C!Spec

\* However uploads overlap, fail, lose the answer to their COMMIT or die, a
\* complaint has at most the promised number of photographs, and every one
\* whose COMMIT was answered can be opened.
THEOREM EvidenceAlwaysKept == MCSpec => []EvidenceKept
<1>1. CaseInv => EvidenceKept
  BY SameCount DEF CaseInv, EvidenceKept, C!EvidenceKept, C!Opens
<1> QED BY <1>1, EvidenceAlwaysInv, PTL

(***************************************************************************)
(* Casework: inspections, letters and refunds.                             *)
(***************************************************************************)
\* The body of C!OutcomesAreFinal.
OutcomesKept ==
  /\ inspection.status \notin C!Pending => UNCHANGED inspection
  /\ inspection'.status = "COMPLETED" => inspection'.officer \in {None, inspection'.by}
  /\ notice # None => UNCHANGED notice
  /\ refund[Len(refund)] \in {"REJECTED", "PROCESSED"} => UNCHANGED refund

\* A refund goes from request to approval to payment, or is rejected.
LEMMA RefundMoves ==
  ASSUME refund \in C!Refunds,
         C!ApproveRefund \/ C!RejectRefund \/ C!ProcessRefund \/ refund' = refund
  PROVE  /\ refund' \in C!Refunds
         /\ refund[Len(refund)] \in {"REJECTED", "PROCESSED"} => UNCHANGED refund
<1>1. CASE refund = <<"REQUESTED">>
  BY <1>1 DEF C!Refunds, C!ApproveRefund, C!RejectRefund, C!ProcessRefund, C!RefundTo, C!Moves
<1>2. CASE refund = <<"REQUESTED", "APPROVED">>
  BY <1>2 DEF C!Refunds, C!ApproveRefund, C!RejectRefund, C!ProcessRefund, C!RefundTo, C!Moves
<1>3. CASE refund \in {<<"REQUESTED", "REJECTED">>, <<"REQUESTED", "APPROVED", "PROCESSED">>}
  BY <1>3 DEF C!Refunds, C!ApproveRefund, C!RejectRefund, C!ProcessRefund, C!RefundTo, C!Moves
<1> QED BY <1>1, <1>2, <1>3 DEF C!Refunds

\* What a step may do to the inspection.
LEMMA InspectionMoves ==
  ASSUME CaseInv, DeskInv,
         \/ inspection' = inspection
         \/ C!CancelInspection \/ \E o \in Officer : C!AssignInspection(o)
         \/ \E r \in Request : C!FinishFindings(r)
  PROVE  /\ inspection' \in [status : C!Pending \cup {"COMPLETED", "CANCELLED"},
                             officer : {None} \cup Officer, by : {None} \cup Officer]
         /\ inspection.status \notin C!Pending => UNCHANGED inspection
         /\ inspection'.status = "COMPLETED" => inspection'.officer \in {None, inspection'.by}
<1>1. CASE inspection' = inspection
  BY <1>1 DEF DeskInv, FindingsInv
<1>2. CASE C!CancelInspection \/ \E o \in Officer : C!AssignInspection(o)
  BY <1>2 DEF C!CancelInspection, C!AssignInspection, DeskInv, FindingsInv, C!Pending
<1>3. ASSUME NEW r \in Request, C!FinishFindings(r), C!Completable(calls[r])
      PROVE  /\ inspection' = [inspection EXCEPT !.status = "COMPLETED", !.by = calls[r].by]
             /\ calls[r].by \in {None} \cup Officer
             /\ inspection.status \in C!Pending
             /\ inspection.officer \in {None, calls[r].by}
  BY <1>3 DEF C!FinishFindings, C!Completable, CaseInv, CaseRequests, Uploads
<1>4. ASSUME NEW r \in Request, C!FinishFindings(r), ~C!Completable(calls[r])
      PROVE  inspection' = inspection
  BY <1>4 DEF C!FinishFindings
<1> QED BY <1>1, <1>2, <1>3, <1>4 DEF DeskInv

LEMMA DeskStep ==
  CaseInv /\ DeskInv /\ [C!Next]_(C!vars) => DeskInv' /\ [OutcomesKept]_(C!vars)
<1> SUFFICES ASSUME CaseInv, DeskInv, [C!Next]_(C!vars)
             PROVE  DeskInv' /\ OutcomesKept
  OBVIOUS
<1>1. \/ inspection' = inspection
      \/ C!CancelInspection \/ \E o \in Officer : C!AssignInspection(o)
      \/ \E r \in Request : C!FinishFindings(r)
  BY DEF C!Next, C!vars, C!complaintVars, C!deskVars, C!StartStatus, C!FinishStatus,
         C!StartEvidence, C!StoreEvidence, C!CommitEvidence, C!CleanEvidence, C!UploaderDies,
         C!StartFindings, C!StartApproval, C!DispatchNotice, C!ApproveRefund,
         C!RejectRefund, C!ProcessRefund, C!RefundTo
<1>2. C!ApproveRefund \/ C!RejectRefund \/ C!ProcessRefund \/ refund' = refund
  BY DEF C!Next, C!vars, C!complaintVars, C!deskVars, C!StartStatus, C!FinishStatus,
         C!StartEvidence, C!StoreEvidence, C!CommitEvidence, C!CleanEvidence, C!UploaderDies,
         C!StartFindings, C!StartApproval, C!FinishFindings, C!AssignInspection,
         C!CancelInspection, C!DispatchNotice
<1>3. notice # None => UNCHANGED notice
  BY DEF C!Next, C!vars, C!complaintVars, C!deskVars, C!StartStatus, C!FinishStatus,
         C!StartEvidence, C!StoreEvidence, C!CommitEvidence, C!CleanEvidence, C!UploaderDies,
         C!StartFindings, C!StartApproval, C!FinishFindings, C!AssignInspection,
         C!CancelInspection, C!DispatchNotice, C!DispatchMode, C!ApproveRefund,
         C!RejectRefund, C!ProcessRefund, C!RefundTo
<1> QED BY <1>1, <1>2, <1>3, InspectionMoves, RefundMoves
        DEF DeskInv, FindingsInv, OutcomesKept

\* Settled payments and withdrawn demands, closed inspections, dispatched
\* letters and refunds that were refused or paid stay as they are, and
\* findings are those of the officer the inspection was assigned to, however
\* officers and verifications overlap; and a settled property owes something
\* again only when a stale column is written back.
THEOREM OutcomesAlwaysFinal == MCSpec => OutcomesAreFinal
<1>1. MCSpec => SettledIsFinal
  BY PartsOfTheDesk, SettledAlwaysFinal, PTL
<1>2. C!OutcomesAreFinal <=> [][OutcomesKept]_(C!vars)
  BY DEF C!OutcomesAreFinal, OutcomesKept
<1>3. C!Spec /\ []CaseInv => [][OutcomesKept]_(C!vars)
  BY CaseInit, DeskStep, PTL DEF C!Spec
<1> QED BY <1>1, <1>2, <1>3, PartsOfTheDesk, EvidenceAlwaysInv, SettledStaysUnlessOverwritten, PTL
        DEF OutcomesAreFinal
=============================================================================
