------------------------------ MODULE Casework ------------------------------
(***************************************************************************)
(* The records officers keep beside the workflow: a citizen's complaint    *)
(* with its evidence photographs (complaints.ts), a site inspection        *)
(* (inspections.ts) with the task it belongs to (tasks.ts), a notice       *)
(* letter (notices.ts) and a refund request (fees.ts).  A handler reads    *)
(* the record, checks the caller, and then updates in one statement whose  *)
(* WHERE clause may repeat the check; whichever row is found afterwards is *)
(* sent back as the answer.                                                *)
(***************************************************************************)
EXTENDS Naturals, Sequences, FiniteSets

CONSTANTS
  Officer,     \* officers with access to the application
  Request,     \* requests under way at once
  Photo,       \* identities of evidence rows
  MaxEvidence, \* MAX_EVIDENCE_PER_COMPLAINT
  MaxWork,     \* bound on the requests served
  None         \* absent

VARIABLES
  complaint,  \* status and resolved_at (whether it is set)
  evidence,   \* rows of complaint_evidence
  files,      \* stored evidence files
  lock,       \* the request that holds the complaint row FOR UPDATE
  inspection, \* status, assignee, and by whom it was completed
  notice,     \* dispatch_mode, None until dispatched
  refund,     \* the statuses the refund request went through
  req,        \* requests under way
  served,     \* requests begun
  unanswered, \* history: rows whose COMMIT was not answered
  misled      \* history: operations answered as done that did nothing

complaintVars == <<complaint, evidence, files, lock, unanswered>>
deskVars == <<inspection, notice, refund, misled>>
vars == <<complaintVars, deskVars, req, served>>

Status == {"SUBMITTED", "UNDER_REVIEW", "INSPECTION_ORDERED", "ACTION_TAKEN",
           "RESOLVED", "CLOSED", "REJECTED"}

\* VALID_STATUS_TRANSITIONS
Allowed(s) ==
  CASE s = "SUBMITTED" -> {"UNDER_REVIEW", "REJECTED"}
    [] s = "UNDER_REVIEW" -> {"INSPECTION_ORDERED", "ACTION_TAKEN", "REJECTED"}
    [] s = "INSPECTION_ORDERED" -> {"ACTION_TAKEN", "RESOLVED", "REJECTED"}
    [] s = "ACTION_TAKEN" -> {"RESOLVED", "CLOSED"}
    [] s = "RESOLVED" -> {"CLOSED"}
    [] OTHER -> {}

Pending == {"SCHEDULED", "IN_PROGRESS"}
Refunds == {<<"REQUESTED">>, <<"REQUESTED", "REJECTED">>, <<"REQUESTED", "APPROVED">>,
            <<"REQUESTED", "APPROVED", "PROCESSED">>}
Idle == [op |-> "idle"]

\* createComplaint
NewComplaint == [status |-> "SUBMITTED", resolved |-> FALSE]

\* createInspection: scheduled by an officer, for one already or for nobody.
NewInspections == [status : {"SCHEDULED"}, officer : {None} \cup Officer, by : {None}]

\* createNoticeLetter: written, not dispatched.
NewNotice == None

\* createRefundRequest
NewRefund == <<"REQUESTED">>

Init ==
  /\ complaint = NewComplaint
  /\ evidence = {} /\ files = {} /\ lock = None /\ unanswered = {}
  /\ inspection \in NewInspections
  /\ notice = NewNotice /\ refund = NewRefund /\ misled = {}
  /\ req = [r \in Request |-> Idle] /\ served = 0

Begin(r, q) ==
  /\ req[r] = Idle /\ served < MaxWork
  /\ served' = served + 1
  /\ req' = [req EXCEPT ![r] = q]

Done(r) == req' = [req EXCEPT ![r] = Idle] /\ UNCHANGED served

\* A handler of one statement.
AtOnce == served < MaxWork /\ served' = served + 1 /\ UNCHANGED req

(***************************************************************************)
(* Complaints.                                                             *)
(***************************************************************************)
\* updateComplaintStatus reads the complaint and checks the table.
StartStatus(r) ==
  \E s \in Allowed(complaint.status) :
    /\ Begin(r, [op |-> "status", to |-> s, resolved |-> complaint.resolved])
    /\ UNCHANGED <<complaintVars, deskVars>>

\* The update names the row alone; it waits for an upload's lock.
FinishStatus(r) ==
  /\ req[r].op = "status" /\ lock = None
  /\ complaint' = [status |-> req[r].to,
                   resolved |-> req[r].to \in {"RESOLVED", "CLOSED"} \/ req[r].resolved]
  /\ Done(r)
  /\ UNCHANGED <<evidence, files, lock, unanswered, deskVars>>

\* The locked count decides.
Admitted == lock = None /\ Cardinality(evidence) < MaxEvidence

StartEvidence(r, p) ==
  /\ Admitted /\ p \notin files /\ p \notin evidence
  /\ \A x \in Request : req[x].op \in {"put", "insert", "clean"} => req[x].photo # p
  /\ Begin(r, [op |-> "put", photo |-> p])
  /\ lock' = r
  /\ UNCHANGED <<complaint, evidence, files, unanswered, deskVars>>

\* The stream is stored, or refused with nothing left behind.
StoreEvidence(r) ==
  /\ req[r].op = "put"
  /\ \/ files' = files \cup {req[r].photo} /\ req' = [req EXCEPT ![r].op = "insert"]
        /\ UNCHANGED lock
     \/ req' = [req EXCEPT ![r].op = "clean"] /\ lock' = None /\ UNCHANGED files
  /\ UNCHANGED <<complaint, evidence, unanswered, deskVars, served>>

\* INSERT and COMMIT: done, refused, or done without an answer.
CommitEvidence(r) ==
  /\ req[r].op = "insert" /\ lock' = None
  /\ \/ evidence' = evidence \cup {req[r].photo} /\ Done(r) /\ UNCHANGED unanswered
     \/ /\ req' = [req EXCEPT ![r].op = "clean"] /\ UNCHANGED served
        /\ \/ UNCHANGED <<evidence, unanswered>>
           \/ /\ evidence' = evidence \cup {req[r].photo}
              /\ unanswered' = unanswered \cup {req[r].photo}
  /\ UNCHANGED <<complaint, files, deskVars>>

\* Fault: the folder of the complaint is cleared.
CleanedWithOthers(q) == {}

\* The catch block deletes the file of this upload.
Cleaned(q) == files \ {q.photo}

CleanEvidence(r) ==
  /\ req[r].op = "clean"
  /\ files' = Cleaned(req[r])
  /\ Done(r)
  /\ UNCHANGED <<complaint, evidence, lock, unanswered, deskVars>>

\* getEvidenceFile
Opens(p) == p \in evidence /\ p \in files

\* The process dies; the database ends its transaction.
UploaderDies(r) ==
  /\ req[r].op \in {"put", "insert", "clean"}
  /\ lock' = IF lock = r THEN None ELSE lock
  /\ Done(r)
  /\ UNCHANGED <<complaint, evidence, files, unanswered, deskVars>>

(***************************************************************************)
(* Inspections.                                                            *)
(***************************************************************************)
\* An update that finds no row is answered like one that does.
Told(op, effective) == misled' = IF effective THEN misled ELSE misled \cup {op}

AssignInspection(o) ==
  LET open == inspection.status \in Pending
  IN /\ AtOnce
     /\ inspection' = IF open THEN [inspection EXCEPT !.status = "IN_PROGRESS", !.officer = o]
                      ELSE inspection
     /\ Told("assign", open)
     /\ UNCHANGED <<complaintVars, notice, refund>>

CancelInspection ==
  LET open == inspection.status \in Pending
  IN /\ AtOnce
     /\ inspection' = IF open THEN [inspection EXCEPT !.status = "CANCELLED"] ELSE inspection
     /\ Told("cancel", open)
     /\ UNCHANGED <<complaintVars, notice, refund>>

\* PATCH complete: another officer's inspection is refused.
StartFindings(r, o) ==
  /\ inspection.officer \in {None, o}
  /\ Begin(r, [op |-> "findings", by |-> o])
  /\ UNCHANGED <<complaintVars, deskVars>>

\* takeActionOnTask, on APPROVE with verification data: whoever acts, before
\* it is known who holds the task, and without saying who it was.
StartApproval(r) ==
  /\ inspection.status # "COMPLETED"
  /\ Begin(r, [op |-> "findings", by |-> None])
  /\ UNCHANGED <<complaintVars, deskVars>>

\* Fault: the statement trusts the check of the handler.
CompletableAsRead(q) == inspection.status \in Pending

\* The WHERE clause; a NULL caller equals no assignee.
Completable(q) ==
  /\ inspection.status \in Pending
  /\ inspection.officer = None \/ inspection.officer = q.by

FinishFindings(r) ==
  LET q == req[r]
  IN /\ q.op = "findings"
     /\ inspection' = IF Completable(q)
                      THEN [inspection EXCEPT !.status = "COMPLETED", !.by = q.by]
                      ELSE inspection
     /\ misled' = IF Completable(q) \/ q.by = None THEN misled ELSE misled \cup {"complete"}
     /\ Done(r)
     /\ UNCHANGED <<complaintVars, notice, refund>>

(***************************************************************************)
(* Notices and refunds.                                                    *)
(***************************************************************************)
\* dispatched_at IS NULL
DispatchMode(mode) == IF notice = None THEN mode ELSE notice

DispatchNotice(mode) ==
  /\ AtOnce
  /\ notice' = DispatchMode(mode)
  /\ Told("dispatch", notice = None)
  /\ UNCHANGED <<complaintVars, inspection, refund>>

Moves(from) == refund[Len(refund)] = from

RefundTo(op, from, to) ==
  /\ AtOnce
  /\ refund' = IF Moves(from) THEN Append(refund, to) ELSE refund
  /\ Told(op, Moves(from))
  /\ UNCHANGED <<complaintVars, inspection, notice>>

ApproveRefund == RefundTo("approve", "REQUESTED", "APPROVED")
RejectRefund == RefundTo("reject", "REQUESTED", "REJECTED")
ProcessRefund == RefundTo("process", "APPROVED", "PROCESSED")

Next ==
  \/ \E r \in Request :
       \/ StartStatus(r) \/ FinishStatus(r)
       \/ \E p \in Photo : StartEvidence(r, p)
       \/ StoreEvidence(r) \/ CommitEvidence(r) \/ CleanEvidence(r) \/ UploaderDies(r)
       \/ \E o \in Officer : StartFindings(r, o)
       \/ StartApproval(r) \/ FinishFindings(r)
  \/ \E o \in Officer : AssignInspection(o)
  \/ CancelInspection
  \/ \E mode \in {"ELECTRONIC", "PHYSICAL"} : DispatchNotice(mode)
  \/ ApproveRefund \/ RejectRefund \/ ProcessRefund

Spec == Init /\ [][Next]_vars

(***************************************************************************)
(* Properties.                                                             *)
(***************************************************************************)
\* The records have the shape of their tables, and a refund went through the
\* statuses in the order request, approval, payment.
TypeOK ==
  /\ complaint \in [status : Status, resolved : BOOLEAN]
  /\ evidence \subseteq Photo /\ files \subseteq Photo /\ unanswered \subseteq evidence
  /\ lock \in {None} \cup Request
  /\ inspection \in [status : Pending \cup {"COMPLETED", "CANCELLED"},
                     officer : {None} \cup Officer, by : {None} \cup Officer]
  /\ notice \in {None, "ELECTRONIC", "PHYSICAL"}
  /\ refund \in Refunds
  /\ served \in 0 .. MaxWork

\* However many photographs arrive at once, a complaint keeps at most the
\* number the portal promises, and each can be opened, whatever other uploads
\* failed or died; only one whose COMMIT got no answer may have lost its file.
EvidenceKept ==
  /\ Cardinality(evidence) <= MaxEvidence
  /\ \A p \in evidence : Opens(p) \/ p \in unanswered

\* What an officer was told is final stays: a completed or cancelled
\* inspection is not touched again, a letter is dispatched once, and a refund
\* that was rejected or paid is neither approved nor paid afterwards.  Findings
\* are those of the officer the inspection was assigned to, even when it was
\* assigned anew, cancelled or approved over while he sent them.
OutcomesAreFinal ==
  [][/\ inspection.status \notin Pending => UNCHANGED inspection
     /\ inspection'.status = "COMPLETED" => inspection'.officer \in {None, inspection'.by}
     /\ notice # None => UNCHANGED notice
     /\ refund[Len(refund)] \in {"REJECTED", "PROCESSED"} => UNCHANGED refund]_vars

\* A request answered with the record, as successful ones are, did what it
\* was asked to do ("not found or already completed" otherwise).
AnswersTellEffect == misled = {}
=============================================================================
