------------------------------- MODULE MCDesk -------------------------------
(* Money and casework beside the workflow, side by side: the demands and   *)
(* payments of an application (FeePayments), the dues of a property        *)
(* (NdcLedger) and the casework of the officers (Casework).  They share no *)
(* state, so a behaviour is one of one of them, as "beside" says.          *)
(*                                                                         *)
(* Two dues, one of them overdue on day 1, with imported payments that     *)
(* fall short of the due or exceed it; one photograph more than the cap.   *)
EXTENDS FeePayments, TLC

CONSTANTS
  d1, d2, Due, DueDay, Base, Rate, Seeded, SeededOn,  \* NdcLedger
  MaxDay, MaxPostings,
  Officer, Photo, MaxEvidence, MaxCases               \* Casework

VARIABLES
  beside,
  today, ledger, req, served, posted, overwritten,
  complaint, evidence, files, lock, inspection, notice, refund, unanswered, misled,
  calls, handled

\* As many requests at once of every kind.
Request == Handler

\* For the instance checked.
DueDays == d1 :> 0 @@ d2 :> 2
Prices == d1 :> 2 @@ d2 :> 1
Rates == [d \in {d1, d2} |-> 1]

\* Nobody is a request; interest is a share of the amount.
ASSUME RequestAssumption == IsFiniteSet(Handler) /\ None \notin Handler
ASSUME DuesAssumption ==
  /\ {DueDay, Base, Rate} \subseteq [Due -> Nat]
  /\ \A d \in Due : Base[d] = 0 => Rate[d] = 0
ASSUME ImportAssumption == Seeded \subseteq Nat \ {0} /\ SeededOn \subseteq 0 .. MaxDay
ASSUME LimitsAssumption == {MaxDay, MaxPostings, MaxEvidence, MaxCases} \subseteq Nat

N == INSTANCE NdcLedger WITH MaxWork <- MaxPostings
C == INSTANCE Casework WITH req <- calls, served <- handled, MaxWork <- MaxCases

Symmetry == Permutations(Handler) \cup Permutations(Order) \cup Permutations(Attempt)
              \cup Permutations(Photo)

ledgerVars == <<today, ledger, req, served, posted, overwritten>>
caseworkVars == <<complaint, evidence, files, lock, inspection, notice, refund, unanswered,
                  misled, calls, handled>>
deskVars == <<vars, ledgerVars, caseworkVars, beside>>

\* Those that stay start in one of their initial states.
MCInit ==
  /\ Init /\ N!Init /\ C!Init
  /\ beside \in {"payments", "ledger", "casework"}
  /\ beside # "ledger" => \A d \in Due : ledger[d].paid = 0
  /\ beside # "casework" => inspection.officer = None

Payments(A) == beside = "payments" /\ A /\ UNCHANGED <<ledgerVars, caseworkVars, beside>>
Ledger(A) == beside = "ledger" /\ A /\ UNCHANGED <<vars, caseworkVars, beside>>
Case(A) == beside = "casework" /\ A /\ UNCHANGED <<vars, ledgerVars, beside>>

MCNext ==
  \/ \E total \in Totals : Payments(CreateDemand(total))
  \/ \E d \in DOMAIN demand, s \in {"WAIVED", "CANCELLED"} : Payments(Withdraw(d, s))
  \/ \E d \in {0} \cup DOMAIN demand, x \in Amounts :
       \/ Payments(RecordImmediate(d, x))
       \/ \E o \in Order : Payments(RecordOnline(d, x, o))
  \/ \E g \in Attempt, o \in Order, s \in {"captured", "declined"} :
       Payments(PayAtGateway(g, o, s))
  \/ \E h \in Handler :
       \/ \E g \in Attempt : \/ Payments(Callback(h, g))
                             \/ \E p \in DOMAIN payment : Payments(OfficerVerifies(h, p, g))
       \/ Payments(Check(h)) \/ Payments(Commit(h)) \/ Payments(MarkFailed(h)) \/ Payments(Dies(h))
  \/ Ledger(N!Tick)
  \/ \E r \in Request :
       \/ Ledger(N!ReadProperty(r)) \/ Ledger(N!RefusePayment(r))
       \/ \E d \in Due, day \in N!Day : Ledger(N!PostPayment(r, d, day))
       \/ Case(C!StartStatus(r)) \/ Case(C!FinishStatus(r))
       \/ \E p \in Photo : Case(C!StartEvidence(r, p))
       \/ Case(C!StoreEvidence(r)) \/ Case(C!CommitEvidence(r)) \/ Case(C!CleanEvidence(r))
       \/ Case(C!UploaderDies(r)) \/ Case(C!StartApproval(r)) \/ Case(C!FinishFindings(r))
       \/ \E o \in Officer : Case(C!StartFindings(r, o))
  \/ \E o \in Officer : Case(C!AssignInspection(o))
  \/ Case(C!CancelInspection)
  \/ \E mode \in {"ELECTRONIC", "PHYSICAL"} : Case(C!DispatchNotice(mode))
  \/ Case(C!ApproveRefund) \/ Case(C!RejectRefund) \/ Case(C!ProcessRefund)

MCSpec == MCInit /\ [][MCNext]_deskVars

\* The properties of the ledger and of the casework, stated there.
PostedIsSettled == N!PostedIsSettled
PostingsAreKept == N!PostingsAreKept
SettledUnlessOverwritten == N!SettledUnlessOverwritten
EvidenceKept == C!EvidenceKept

\* Settled money, withdrawn demands (FeePayments), closed inspections, sent
\* letters and refused or paid refunds (Casework) stay as they are; a property
\* that owes nothing comes to owe something only when a posting writes back a
\* column that was changed since it was read (NdcLedger).
OutcomesAreFinal == SettledIsFinal /\ C!OutcomesAreFinal /\ SettledUnlessOverwritten
=============================================================================
