----------------------------- MODULE NdcLedger ------------------------------
(***************************************************************************)
(* The dues of one property (ndc-payment-status.ts), kept as a list of     *)
(* payments inside a JSON column: a due is computed from the property, a   *)
(* payment is posted by writing back the whole column.  The certificate    *)
(* that is generated when nothing is owed is in module WorkflowEngine.     *)
(*                                                                         *)
(* Amounts are exact here; the code rounds to the paisa and takes a        *)
(* balance up to 0.01 for zero.  The payments of a due are kept as their   *)
(* sum and latest date, which is all paymentMap leaves of them.            *)
(***************************************************************************)
EXTENDS Naturals

CONSTANTS
  Due,      \* installments, additional area, completion fee
  DueDay,   \* the day each due falls due
  Base,     \* its amount without interest
  Rate,     \* its interest per day of delay
  Seeded,   \* amounts the property's imported record may hold for a due
  SeededOn, \* the days it may give for them
  Request,  \* requests under way at once
  MaxDay,   \* bound on the calendar
  MaxWork   \* bound on the requests served

VARIABLES
  today,
  ledger,       \* planning_controls_jsonb.ndc_dues_seed.payments, by due
  req,          \* requests under way
  served,       \* requests begun
  posted,       \* history, for the properties: the dues to which a payment
                \* was posted that is not dated before those it joined,
  overwritten   \* and those whose payments were since written over

history == <<posted, overwritten>>
vars == <<today, ledger, req, served, history>>

Day == 0 .. MaxDay
Idle == [op |-> "idle"]
Later(a, b) == IF a > b THEN a ELSE b
Minus(a, b) == IF a > b THEN a - b ELSE 0

\* computeInterest, on top of the amount.
TotalOn(d, day) == Base[d] + Rate[d] * Minus(day, DueDay[d])

\* buildDueLine: interest runs until the last payment, or until now.
Balance(l, d, now) ==
  Minus(TotalOn(d, IF l[d].paid > 0 THEN l[d].on ELSE now), l[d].paid)

\* allDuesPaid: the balances add up to nothing.
AllPaid(l, now) == \A d \in Due : Balance(l, d, now) = 0

\* Nothing paid, or an imported payment.
Imported == [paid : {0}, on : {0}] \cup [paid : Seeded, on : SeededOn]

Init ==
  /\ today = 0
  /\ ledger \in [Due -> Imported]
  /\ req = [r \in Request |-> Idle] /\ served = 0
  /\ posted = {} /\ overwritten = {}

Tick ==
  /\ today < MaxDay /\ today' = today + 1
  /\ UNCHANGED <<ledger, req, served, history>>

(***************************************************************************)
(* Posting a payment.                                                      *)
(***************************************************************************)
\* resolvePropertyForApplication, getPropertyByUPN
ReadProperty(r) ==
  /\ req[r] = Idle /\ served < MaxWork /\ served' = served + 1
  /\ req' = [req EXCEPT ![r] = [op |-> "post", copy |-> ledger]]
  /\ UNCHANGED <<today, ledger, history>>

\* Fault: interest up to today, whatever the payment's date.
OwedToday(l, d, day) == Minus(TotalOn(d, today), l[d].paid)

\* The settlement amount at the posting date, given or today's.
Owed(l, d, day) == Minus(TotalOn(d, day), l[d].paid)

\* upsertSeedPayment: the payment joins the list that was read.
Posted(l, d, day) ==
  [l EXCEPT ![d] = [paid |-> @.paid + Owed(l, d, day),
                    on |-> IF @.paid > 0 THEN Later(@.on, day) ELSE day]]

\* The dues that were paid for since the copy was read, and whether a posting
\* of this date settles the due it names.
Stale(copy) == {d \in Due : copy[d] # ledger[d]}
Settling(copy, d, day) == IF copy[d].on <= day THEN {d} ELSE {}

\* The whole column is written, whatever it holds now.
PostPayment(r, d, day) ==
  LET copy == req[r].copy
  IN /\ req[r].op = "post" /\ Owed(copy, d, day) > 0
     /\ ledger' = Posted(copy, d, day)
     /\ posted' = posted \cup Settling(copy, d, day)
     /\ overwritten' = (overwritten \cup Stale(copy)) \ Settling(copy, d, day)
     /\ req' = [req EXCEPT ![r] = Idle]
     /\ UNCHANGED <<today, served>>

\* DUE_ALREADY_PAID, DUE_NOT_FOUND
RefusePayment(r) ==
  /\ req[r].op = "post" /\ req' = [req EXCEPT ![r] = Idle]
  /\ UNCHANGED <<today, ledger, served, history>>

Next ==
  \/ Tick
  \/ \E r \in Request :
       \/ ReadProperty(r) \/ RefusePayment(r)
       \/ \E d \in Due, day \in Day : PostPayment(r, d, day)

Spec == Init /\ [][Next]_vars

(***************************************************************************)
(* Properties.                                                             *)
(***************************************************************************)
TypeOK ==
  /\ today \in Day /\ served \in 0 .. MaxWork
  /\ ledger \in [Due -> [paid : Nat, on : Day]]
  /\ posted \subseteq Due /\ overwritten \subseteq Due
  /\ DOMAIN req = Request

\* A due to which the portal posted a payment owes nothing, on whatever day
\* it is looked at: backdated and later payments and payments on top of earlier
\* imported ones leave it settled, and so does, of overlapping postings of one
\* due, the last.  Only a posting of another due, or one that settles nothing,
\* can undo it, by writing back a copy read before.  (A payment dated before
\* an imported one does not settle its due: it pays the interest up to its own
\* date, and from then on interest runs up to the imported one's.)
PostedIsSettled ==
  \A d \in posted \ overwritten, now \in Day : Balance(ledger, d, now) = 0

\* A property that owes nothing comes to owe something only when a posting
\* writes back a column it read before.
SettledUnlessOverwritten ==
  [][AllPaid(ledger, today) /\ ~AllPaid(ledger, today)' =>
       \E r \in Request : req[r].op = "post" /\ req[r].copy # ledger]_vars

\* A payment that was posted is in the ledger: its due owes nothing, whatever
\* was posted beside it.
PostingsAreKept == \A d \in posted : Balance(ledger, d, today) = 0
=============================================================================
