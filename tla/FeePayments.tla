----------------------------- MODULE FeePayments -----------------------------
(***************************************************************************)
(* Fee demands and the payments that settle them (fees.ts, payments.ts).   *)
(* Counter payments are settled at once; online payments wait, INITIATED,  *)
(* for the gateway's callback or an officer's verification.  A handler is  *)
(* one such request: it finds the payment row, locks and checks it, and    *)
(* commits, each in a step of its own, because the gateway may call twice, *)
(* late, out of order, and while an officer verifies by hand.              *)
(*                                                                         *)
(* Amounts are whole numbers of the smallest unit; the code's tolerance of *)
(* 0.000001 is below it.                                                   *)
(***************************************************************************)
EXTENDS Integers, Sequences, FiniteSets, FiniteSetsExt

CONSTANTS
  Handler,       \* verification requests served at the same time
  Order,         \* gateway_order_id
  Attempt,       \* gateway_payment_id: one attempt to pay an order
  Totals,        \* sums of net line amounts a demand may have
  Amounts,       \* amounts a client may pay
  MaxDemands,    \* bound on the number of demands
  MaxPayments,   \* bound on the number of payments
  SharedOrders,  \* may a client repeat a payment request with its order id?
  Declines,      \* may an attempt be declined before one is captured?
  Withdrawals,   \* may demands be waived or cancelled?
  None

\* chk_fee_demand_total_nonneg; a payment of zero or less is refused.
ASSUME AmountsAssumption == Totals \subseteq Nat /\ Amounts \subseteq Nat \ {0}
ASSUME BoundsAssumption == MaxDemands \in Nat /\ MaxPayments \in Nat
ASSUME NoneAssumption == None \notin Order \cup Attempt

VARIABLES
  demand,    \* table fee_demand
  payment,   \* table payment, in the order of initiated_at
  handler,   \* the verification requests in flight
  attempt    \* what happened at the gateway

vars == <<demand, payment, handler, attempt>>

Payable == {"PENDING", "PARTIALLY_PAID"}
DemandStatus == Payable \cup {"PAID", "WAIVED", "CANCELLED"}
Settled == {"SUCCESS", "VERIFIED"}
PaymentStatus == Settled \cup {"INITIATED", "FAILED"}

Demand == [total : Totals, paid : Nat, status : DemandStatus]
Payment == [demand : Nat, amount : Amounts, status : PaymentStatus,
            order : Order \cup {None}, ref : Attempt \cup {None}]

Init == /\ demand = <<>>
        /\ payment = <<>>
        /\ handler = [h \in Handler |-> [pc |-> "idle"]]
        /\ attempt = [g \in Attempt |-> [outcome |-> "none", order |-> None]]

(***************************************************************************)
(* Demands.                                                                *)
(***************************************************************************)
\* createDemand groups line items; only their sum matters here.
CreateDemand(total) ==
  /\ Len(demand) < MaxDemands
  /\ demand' = Append(demand, [total |-> total, paid |-> 0, status |-> "PENDING"])
  /\ UNCHANGED <<payment, handler, attempt>>

\* waiveDemand and cancelDemand, conditional updates.
Withdraw(d, status) ==
  /\ Withdrawals
  /\ demand[d].status = "PENDING"
  /\ demand' = [demand EXCEPT ![d].status = status]
  /\ UNCHANGED <<payment, handler, attempt>>

\* Fault: the balance of the locked row is not looked at.
NeverExceeds(row, x) == FALSE

\* updateDemandPayment, under the demand's row lock: a demand that is no
\* longer payable is left as it is, without an error.
Exceeds(row, x) == row.status \in Payable /\ x > row.total - row.paid
Credited(row, x) ==
  IF row.status \in Payable
    THEN [row EXCEPT !.paid = @ + x,
                     !.status = IF row.paid + x >= row.total
                                  THEN "PAID" ELSE "PARTIALLY_PAID"]
    ELSE row

(***************************************************************************)
(* recordPayment, one transaction that holds the demand's row lock.  The   *)
(* demand is optional (0).                                                 *)
(***************************************************************************)
Accepts(d, x) ==
  d # 0 => /\ demand[d].status \in Payable
           /\ demand[d].total - demand[d].paid > 0
           /\ x <= demand[d].total - demand[d].paid

\* Cash, cheque or transfer: settled and credited at once.
RecordImmediate(d, x) ==
  /\ Len(payment) < MaxPayments
  /\ Accepts(d, x)
  /\ payment' = Append(payment, [demand |-> d, amount |-> x, status |-> "SUCCESS",
                                 order |-> None, ref |-> None])
  /\ demand' = IF d = 0 THEN demand
                 ELSE [demand EXCEPT ![d] = Credited(@, x)]
  /\ UNCHANGED <<handler, attempt>>

\* Online: a new order at the gateway, or the order the client already has
\* when it repeats its request.  Nothing is credited yet.
RecordOnline(d, x, o) ==
  /\ Len(payment) < MaxPayments
  /\ Accepts(d, x)
  /\ \A p \in DOMAIN payment : payment[p].order = o =>
       SharedOrders /\ payment[p].demand = d /\ payment[p].amount = x
  /\ payment' = Append(payment, [demand |-> d, amount |-> x, status |-> "INITIATED",
                                 order |-> o, ref |-> None])
  /\ UNCHANGED <<demand, handler, attempt>>

(***************************************************************************)
(* The gateway (external): an order is captured at most once, and may have *)
(* declined attempts before.                                               *)
(***************************************************************************)
PayAtGateway(g, o, outcome) ==
  /\ attempt[g].outcome = "none"
  /\ \E p \in DOMAIN payment : payment[p].order = o
  /\ \A k \in Attempt : ~(attempt[k].order = o /\ attempt[k].outcome = "captured")
  /\ outcome = "declined" => Declines
  /\ attempt' = [attempt EXCEPT ![g] = [outcome |-> outcome, order |-> o]]
  /\ UNCHANGED <<demand, payment, handler>>

(***************************************************************************)
(* Callbacks and verification.                                             *)
(***************************************************************************)
Idle == [pc |-> "idle"]
Found(p, g) == [pc |-> "found", payment |-> p, ref |-> g]
HandlerState == [pc : {"found", "checked"}, payment : Nat, ref : Attempt]

\* processGatewayCallback finds the order's most recent payment, unlocked.
\* The gateway may report the same attempt any number of times.
Callback(h, g) ==
  /\ handler[h] = Idle
  /\ attempt[g].outcome # "none"
  /\ LET ofOrder == {p \in DOMAIN payment : payment[p].order = attempt[g].order}
     IN \E p \in ofOrder :
          /\ \A k \in ofOrder : k <= p
          /\ handler' = [handler EXCEPT ![h] = Found(p, g)]
  /\ UNCHANGED <<demand, payment, attempt>>

\* POST /payments/:paymentId/verify names the payment.
OfficerVerifies(h, p, g) ==
  /\ handler[h] = Idle
  /\ attempt[g].outcome = "captured" /\ attempt[g].order = payment[p].order
  /\ handler' = [handler EXCEPT ![h] = Found(p, g)]
  /\ UNCHANGED <<demand, payment, attempt>>

\* A checked handler's transaction holds its payment's row lock.
Unlocked(p) ==
  \A h \in Handler : ~(handler[h].pc = "checked" /\ handler[h].payment = p)

\* Fault: a payment verified before is verified again.
ValidAgain(p, g) == payment[p].status # "FAILED"

\* The checks of verifyGatewayPayment under the payment's row lock.  Other
\* payments are read without one.
Valid(p, g) ==
  /\ payment[p].status = "INITIATED"
  /\ \A k \in DOMAIN payment \ {p} :
       ~(payment[k].ref = g /\ payment[k].status \in Settled)

Check(h) ==
  LET q == handler[h]
  IN /\ q.pc = "found" /\ attempt[q.ref].outcome = "captured"
     /\ Unlocked(q.payment)
     /\ handler' = [handler EXCEPT ![h] =
          IF Valid(q.payment, q.ref) THEN [q EXCEPT !.pc = "checked"] ELSE Idle]
     /\ UNCHANGED <<demand, payment, attempt>>

Verified(row, g) == [row EXCEPT !.status = "VERIFIED", !.ref = g]

\* Payment and demand change together, or not at all when the balance is
\* exceeded.
Commit(h) ==
  LET q == handler[h]
      p == q.payment
      d == payment[p].demand
      x == payment[p].amount
  IN /\ q.pc = "checked"
     /\ IF d # 0 /\ Exceeds(demand[d], x)
          THEN UNCHANGED <<demand, payment>>
          ELSE /\ payment' = [payment EXCEPT ![p] = Verified(@, q.ref)]
               /\ demand' = IF d = 0 THEN demand
                              ELSE [demand EXCEPT ![d] = Credited(@, x)]
     /\ handler' = [handler EXCEPT ![h] = Idle]
     /\ UNCHANGED attempt

\* A FAILED callback stores its reference even on a settled payment.
Failed(row, g) ==
  [row EXCEPT !.status = IF @ = "INITIATED" THEN "FAILED" ELSE @, !.ref = g]

MarkFailed(h) ==
  LET q == handler[h]
  IN /\ q.pc = "found" /\ attempt[q.ref].outcome = "declined"
     /\ Unlocked(q.payment)
     /\ payment' = [payment EXCEPT ![q.payment] = Failed(@, q.ref)]
     /\ handler' = [handler EXCEPT ![h] = Idle]
     /\ UNCHANGED <<demand, attempt>>

\* A request dies: its transaction, if it has begun, is rolled back.
Dies(h) ==
  /\ handler[h] # Idle
  /\ handler' = [handler EXCEPT ![h] = Idle]
  /\ UNCHANGED <<demand, payment, attempt>>

Next ==
  \/ \E total \in Totals : CreateDemand(total)
  \/ \E d \in DOMAIN demand, s \in {"WAIVED", "CANCELLED"} : Withdraw(d, s)
  \/ \E d \in {0} \cup DOMAIN demand, x \in Amounts :
       RecordImmediate(d, x) \/ \E o \in Order : RecordOnline(d, x, o)
  \/ \E g \in Attempt, o \in Order, s \in {"captured", "declined"} :
       PayAtGateway(g, o, s)
  \/ \E h \in Handler, g \in Attempt :
       Callback(h, g) \/ \E p \in DOMAIN payment : OfficerVerifies(h, p, g)
  \/ \E h \in Handler : Check(h) \/ Commit(h) \/ MarkFailed(h) \/ Dies(h)

Spec == Init /\ [][Next]_vars

(***************************************************************************)
(* Properties.                                                             *)
(***************************************************************************)
\* Every table row and every request in flight has the code's shape, and
\* refers to rows that exist.
TypeOK ==
  /\ demand \in Seq(Demand)
  /\ payment \in Seq(Payment)
  /\ \A p \in DOMAIN payment : payment[p].demand \in {0} \cup DOMAIN demand
  /\ handler \in [Handler -> {Idle} \cup HandlerState]
  /\ \A h \in Handler : handler[h] # Idle => handler[h].payment \in DOMAIN payment
  /\ attempt \in [Attempt -> [outcome : {"none", "captured", "declined"},
                              order : Order \cup {None}]]

\* A demand's status says how much of it is paid.
Balanced(row) ==
  /\ row.paid <= row.total
  /\ row.status = "PAID" <=> row.paid > 0 /\ row.paid = row.total
  /\ row.status = "PARTIALLY_PAID" <=> 0 < row.paid /\ row.paid < row.total

\* Whatever payments race, a demand is never credited beyond its total, its
\* status agrees with its credit, and a withdrawn demand has taken nothing.
DemandBooksBalance == \A d \in DOMAIN demand : Balanced(demand[d])

SettledFor(d) ==
  MapThenSumSet(LAMBDA p : payment[p].amount,
    {p \in DOMAIN payment : payment[p].demand = d /\ payment[p].status \in Settled})

\* No payment is credited twice, however often its callback comes: what a
\* demand was credited is covered by settled payments.
CreditsAreBacked == \A d \in DOMAIN demand : demand[d].paid <= SettledFor(d)

\* Money that was settled never becomes unsettled, and a demand that was
\* paid, waived or cancelled never changes again.
SettledIsFinal ==
  [][/\ \A p \in DOMAIN payment : payment[p].status \in Settled =>
          payment'[p].status = payment[p].status
     /\ \A d \in DOMAIN demand : demand[d].status \notin Payable =>
          demand'[d] = demand[d]]_vars

\* One capture at the gateway settles at most one payment: a reference that
\* settled a payment is refused for another one.
OneSettlementPerCapture ==
  \A p, k \in DOMAIN payment :
    /\ payment[p].status = "VERIFIED" /\ payment[k].status = "VERIFIED"
    /\ payment[p].order = payment[k].order
    => p = k

\* A verified payment keeps the reference of the attempt that was captured,
\* by which a repeated callback is recognised.
VerifiedByCapture ==
  \A p \in DOMAIN payment : payment[p].status = "VERIFIED" =>
    /\ payment[p].ref # None
    /\ attempt[payment[p].ref] = [outcome |-> "captured", order |-> payment[p].order]
=============================================================================
