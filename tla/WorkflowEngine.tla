--------------------------- MODULE WorkflowEngine ---------------------------
(***************************************************************************)
(* The task workflow of the API: executeTransition and its actions         *)
(* (apps/api/src/workflow.ts), the officer's claim-and-act request         *)
(* (tasks.ts, routes/task.routes.ts) and the citizen's submission and      *)
(* answer to a query (applications.ts).                                    *)
(*                                                                         *)
(* `db` holds the tables.  A database transaction that locks the           *)
(* application row is one step; an HTTP handler that runs several          *)
(* statements or transactions is a process (req, resp) with one step for   *)
(* each of them, carrying what it has read.                                *)
(***************************************************************************)
EXTENDS Integers, Sequences, FiniteSets

CONSTANTS
  App,            \* applications
  Officer,        \* officers
  Request,        \* task-action requests the API serves at the same time
  Responder,      \* query-response requests the API serves at the same time
  Downloader,     \* downloads of a no-due certificate it serves at the same
                  \* time; none for the other packs, whose downloads only read
  Stage,          \* workflow states that require a task
  StageRole,      \* the system role that owns a stage
  RolesOf,        \* the system roles of an officer's postings
  Transition,     \* the pack's transitions (module ServicePacks)
  MaxQueries,     \* bound: no QUERY request once there are this many rows
  StaleTasks,     \* may an officer act on a task already COMPLETED?
  BlankQueries,   \* may an officer send QUERY without a queryMessage?
  MayFail,        \* may a request die between two of its steps?
  None            \* no officer, no download

SystemState == {"DRAFT", "SUBMITTED", "QUERY_PENDING", "RESUBMITTED",
                "APPROVED", "REJECTED", "CLOSED"}
Decided == {"APPROVED", "REJECTED"}
State == SystemState \cup Stage
TaskAction == {"FORWARD", "QUERY", "APPROVE", "REJECT"}
ActionName == {"ASSIGN_NEXT_TASK", "RAISE_QUERY", "RECORD_DECISION"}
OpenStatus == {"PENDING", "IN_PROGRESS"}

ASSUME ActorsAssumption == None \notin Officer /\ None \notin Downloader

\* Every pack: only QUERY and the decisions leave the stages, they are the
\* officers' transitions, and each carries the action that goes with it.
\* An officer's transition into a stage always assigns the next task.
ASSUME PackAssumption ==
  /\ Stage \cap SystemState = {}
  /\ \A tr \in Transition :
       /\ tr.from \in State /\ tr.to \in State
       /\ tr.actions \subseteq ActionName
       /\ "RECORD_DECISION" \in tr.actions <=> tr.to \in Decided
       /\ "RAISE_QUERY" \in tr.actions <=> tr.to = "QUERY_PENDING"
       /\ tr.to \in Decided => /\ tr.from \in Stage
                               /\ tr.name \in {"APPROVE", "REJECT"}
                               /\ tr.to = "APPROVED" <=> tr.name = "APPROVE"
       /\ tr.from \in Decided => tr.to = "CLOSED" /\ tr.name \notin TaskAction
       /\ tr.to = "CLOSED" => tr.from \in Decided
       /\ tr.from # "CLOSED"
       /\ tr.from = "QUERY_PENDING" <=> tr.name = "QUERY_RESPOND"
       /\ tr.to = "QUERY_PENDING" => tr.from \in Stage
       /\ tr.from \in Stage => /\ tr.name \in TaskAction
                               /\ tr.to \in Stage =>
                                    "ASSIGN_NEXT_TASK" \in tr.actions

\* Every pack: an officer's transition leads to a stage, to the citizen or to a
\* decision, only a draft is submitted and only a decided application closed,
\* and review begins again, after an answer, at the stage where it began.
ASSUME RouteAssumption ==
  /\ \A tr \in Transition :
       /\ tr.from \in Stage => tr.to \in Stage \cup Decided \cup {"QUERY_PENDING"}
       /\ tr.name = "SUBMIT" => tr.from = "DRAFT"
       /\ tr.name \in {"CLOSE_APPROVED", "CLOSE_REJECTED"} => tr.from \in Decided
  /\ \E start \in Transition :
       /\ start.name = "ASSIGN_CLERK"
       /\ \A tr \in Transition :
            tr.name \in {"ASSIGN_CLERK", "RESUBMIT_ROUTE"} => tr.to = start.to

VARIABLES
  db,    \* the tables application, task, query, decision, audit_event, output
  req,   \* the officers' requests in flight
  resp,  \* the citizen's query responses in flight
  down   \* downloads in flight that may generate an output

vars == <<db, req, resp, down>>

(***************************************************************************)
(* Tables.                                                                 *)
(***************************************************************************)
Row == [state : State, paused : BOOLEAN, disposal : Decided \cup {"NONE"},
        history : Nat]      \* history: entries of data_jsonb statusHistory
Task == [app : App, stage : Stage, status : OpenStatus \cup {"COMPLETED"},
         assignee : Officer \cup {None}]
Query == [app : App, status : {"PENDING", "RESPONDED"}]
\* What the document says, and (for the properties) the download that made it,
\* or None for a decision.
Output == [says : Decided, by : Downloader \cup {None}]
Decision == [app : App, type : {"APPROVE", "REJECT"}, by : Officer, task : Nat]

Tables == [app : [App -> Row], task : Seq(Task), query : Seq(Query),
           decision : SUBSET Decision, audit : [App -> Nat],
           output : [App -> Seq(Output)], locker : [App -> Nat]]

OpenTasks(d, a) ==
  {i \in DOMAIN d.task : d.task[i].app = a /\ d.task[i].status \in OpenStatus}

(***************************************************************************)
(* executeTransition.  The actor is an officer o, or None for the citizen  *)
(* and the system; the payload is the task action and whether a query      *)
(* message came with it.                                                   *)
(***************************************************************************)
Payload == [decision : TaskAction \cup {"NONE"}, message : BOOLEAN]
NoPayload == [decision |-> "NONE", message |-> FALSE]

\* Fault: the transition's fromStateId is not compared with the locked row.
PermittedInAnyState(d, a, tr, actorType, roles) ==
  /\ ~(tr.trigger = "manual" /\ actorType = "SYSTEM")
  /\ actorType \in tr.actorTypes
  /\ (actorType = "OFFICER" /\ tr.roles # {}) => tr.roles \cap roles # {}

\* The checks under the row lock, in the order they are made.
Permitted(d, a, tr, actorType, roles) ==
  /\ tr.from = d.app[a].state
  /\ ~(tr.trigger = "manual" /\ actorType = "SYSTEM")
  /\ actorType \in tr.actorTypes
  /\ (actorType = "OFFICER" /\ tr.roles # {}) => tr.roles \cap roles # {}

DisposalType(action) == IF action = "APPROVE" THEN "APPROVED" ELSE "REJECTED"
DecisionType(action) == IF action = "APPROVE" THEN "APPROVE" ELSE "REJECT"

\* Fault: the disposal is left to the closing step.
RowWithoutDisposal(row, tr, pay) ==
  [row EXCEPT !.state = tr.to, !.history = @ + 1,
              !.paused = @ \/ ("RAISE_QUERY" \in tr.actions /\ pay.message)]

\* The application row: state, status history, SLA pause and disposal.
RowAfter(row, tr, pay) ==
  [state |-> tr.to,
   paused |-> row.paused \/ ("RAISE_QUERY" \in tr.actions /\ pay.message),
   disposal |-> IF "RECORD_DECISION" \in tr.actions
                  THEN DisposalType(pay.decision) ELSE row.disposal,
   history |-> row.history + 1]

\* ASSIGN_NEXT_TASK, or the safety net when the pack forgot it.
NeedsTask(d, a, tr) ==
  /\ tr.to \in Stage
  /\ \/ "ASSIGN_NEXT_TASK" \in tr.actions
     \/ \A i \in OpenTasks(d, a) : d.task[i].stage # tr.to

WithNextTask(d, a, tr) ==
  IF NeedsTask(d, a, tr)
    THEN Append(d.task, [app |-> a, stage |-> tr.to, status |-> "PENDING",
                         assignee |-> None])
    ELSE d.task

\* Faults: every open task is completed, whoever holds it; only PENDING ones.
CompletedForAll(tasks, a, o) ==
  [i \in DOMAIN tasks |->
     IF o # None /\ tasks[i].app = a /\ tasks[i].status \in OpenStatus
       THEN [tasks[i] EXCEPT !.status = "COMPLETED"] ELSE tasks[i]]
CompletedIfPending(tasks, a, o) ==
  [i \in DOMAIN tasks |->
     IF /\ o # None /\ tasks[i].app = a /\ tasks[i].assignee = o
        /\ tasks[i].status = "PENDING"
       THEN [tasks[i] EXCEPT !.status = "COMPLETED"] ELSE tasks[i]]

\* Every open task of the application the acting officer holds is completed.
Completed(tasks, a, o) ==
  [i \in DOMAIN tasks |->
     IF /\ o # None /\ tasks[i].app = a /\ tasks[i].assignee = o
        /\ tasks[i].status \in OpenStatus
       THEN [tasks[i] EXCEPT !.status = "COMPLETED"] ELSE tasks[i]]

\* RAISE_QUERY writes nothing when the payload has no message.
QueriesAfter(queries, a, tr, pay) ==
  IF "RAISE_QUERY" \in tr.actions /\ pay.message
    THEN Append(queries, [app |-> a, status |-> "PENDING"]) ELSE queries

\* RECORD_DECISION links the decision to the application's newest open task.
ActiveTask(d, a) ==
  IF OpenTasks(d, a) = {} THEN 0
  ELSE CHOOSE i \in OpenTasks(d, a) : \A j \in OpenTasks(d, a) : j <= i

DecisionsAfter(d, a, tr, o, pay) ==
  IF "RECORD_DECISION" \in tr.actions
    THEN d.decision \cup {[app |-> a, type |-> DecisionType(pay.decision),
                           by |-> o, task |-> ActiveTask(d, a)]}
    ELSE d.decision

Fire(d, a, tr, o, pay) ==
  [app |-> [d.app EXCEPT ![a] = RowAfter(@, tr, pay)],
   task |-> Completed(WithNextTask(d, a, tr), a, o),
   query |-> QueriesAfter(d.query, a, tr, pay),
   decision |-> DecisionsAfter(d, a, tr, o, pay),
   audit |-> [d.audit EXCEPT ![a] = @ + 1],
   output |-> d.output, locker |-> d.locker]

\* Two transitions of the citizen and the system in one transaction.
FireBoth(d, e, a, first, second) ==
  /\ Permitted(d, a, first, "CITIZEN", {})
  /\ LET mid == Fire(d, a, first, None, NoPayload)
     IN /\ Permitted(mid, a, second, "SYSTEM", {})
        /\ e = Fire(mid, a, second, None, NoPayload)

(***************************************************************************)
(* Processes.                                                              *)
(***************************************************************************)
IdleRequest == [pc |-> "idle"]
IdleResponse == [pc |-> "idle"]
IdleDownload == [pc |-> "idle"]

RequestState ==
  [pc : {"read", "claimed", "decided", "issued"}, officer : Officer,
   task : Nat, app : App, stage : Stage, seen : Officer \cup {None},
   status : OpenStatus \cup {"COMPLETED"}, payload : Payload]
ResponseState ==
  [pc : {"read", "checked"}, app : App, query : Nat, history : Nat,
   edits : BOOLEAN]
DownloadState ==
  [pc : {"asked", "needed"}, app : App]
    \cup [pc : {"rendered"}, app : App, says : Decided]

Init ==
  /\ db = [app |-> [a \in App |-> [state |-> "DRAFT", paused |-> FALSE,
                                   disposal |-> "NONE", history |-> 0]],
           task |-> <<>>, query |-> <<>>, decision |-> {},
           audit |-> [a \in App |-> 0],
           output |-> [a \in App |-> <<>>], locker |-> [a \in App |-> 0]]
  /\ req = [r \in Request |-> IdleRequest]
  /\ resp = [c \in Responder |-> IdleResponse]
  /\ down = [w \in Downloader |-> IdleDownload]

\* submitApplication: SUBMIT and ASSIGN_CLERK in one transaction.
Submit(a) ==
  /\ \E first, second \in Transition :
       /\ first.name = "SUBMIT" /\ second.name = "ASSIGN_CLERK"
       /\ FireBoth(db, db', a, first, second)
  /\ UNCHANGED <<req, resp, down>>

\* validateOfficerCanActOnTask: the officer has the role the task asks for.
MayActOn(o, i) == StageRole[db.task[i].stage] \in RolesOf[o]

\* A task row whose work has begun, and one claimed by an officer.
Started(t) == [t EXCEPT !.status = "IN_PROGRESS"]
HeldBy(t, o) == [Started(t) EXCEPT !.assignee = o]

\* POST /tasks/:id/assign: claim a task that is still PENDING.
AssignTask(o, i) ==
  /\ MayActOn(o, i)
  /\ db.task[i].status = "PENDING"
  /\ db' = [db EXCEPT !.task[i] = HeldBy(@, o)]
  /\ UNCHANGED <<req, resp, down>>

\* POST /tasks/:id/actions, up to the read of the task row.
Receive(r, o, i, action, message) ==
  /\ req[r] = IdleRequest
  /\ MayActOn(o, i)
  /\ db.task[i].status = "COMPLETED" => StaleTasks
  /\ action = "QUERY" => Len(db.query) < MaxQueries
  /\ message => action = "QUERY"
  /\ action = "QUERY" => (message \/ BlankQueries)
  /\ req' = [req EXCEPT ![r] =
       [pc |-> "read", officer |-> o, task |-> i, app |-> db.task[i].app,
        stage |-> db.task[i].stage, seen |-> db.task[i].assignee,
        status |-> db.task[i].status,
        payload |-> [decision |-> action, message |-> message]]]
  /\ UNCHANGED <<db, resp, down>>

\* Fault: the claim is not conditional.
ClaimWinsOnRead(q) == q.seen = None

\* The ownership gate, decided on the row read earlier: the holder passes,
\* anyone passes to the conditional claim of a task seen unassigned.
Holds(q) == q.seen = q.officer
ClaimWins(q) == q.seen = None /\ db.task[q.task].assignee = None

Claim(r) ==
  LET q == req[r]
      i == q.task
  IN /\ q.pc = "read"
     /\ \/ /\ ClaimWins(q)
           /\ db' = [db EXCEPT !.task[i] = HeldBy(@, q.officer)]
        \/ /\ Holds(q)
           /\ db' = IF q.status = "PENDING"
                       THEN [db EXCEPT !.task[i] = Started(@)] ELSE db
     /\ req' = [req EXCEPT ![r].pc = "claimed"]
     /\ UNCHANGED <<resp, down>>

ClaimRefused(r) ==
  /\ req[r].pc = "read"
  /\ ~ClaimWins(req[r]) /\ ~Holds(req[r])
  /\ req' = [req EXCEPT ![r] = IdleRequest]
  /\ UNCHANGED <<db, resp, down>>

\* The transition a request asks for: resolved by the task's own stage and
\* the action, then checked against the application's present state.
Requested(q) ==
  {tr \in Transition : tr.from = q.stage /\ tr.name = q.payload.decision}
Allowed(q) ==
  {tr \in Requested(q) :
     Permitted(db, q.app, tr, "OFFICER", RolesOf[q.officer])}

\* executeTransition on the officer's behalf.  The request goes on to the
\* output and the closing step only when the state it entered is a decision.
Act(r) ==
  LET q == req[r]
  IN /\ q.pc = "claimed"
     /\ \E tr \in Allowed(q) :
          /\ db' = Fire(db, q.app, tr, q.officer, q.payload)
          /\ req' = [req EXCEPT ![r] = IF tr.to \in Decided
                       THEN [q EXCEPT !.pc = "decided"] ELSE IdleRequest]
     /\ UNCHANGED <<resp, down>>

ActRefused(r) ==
  /\ req[r].pc = "claimed"
  /\ Allowed(req[r]) = {}
  /\ req' = [req EXCEPT ![r] = IdleRequest]
  /\ UNCHANGED <<db, resp, down>>

\* generateOutput: an undecided application's document is an approval.
Says(row) == IF row.disposal = "NONE" THEN "APPROVED" ELSE row.disposal

\* Its row, and issued documents in the citizen's locker: the document is
\* issued only when there is an output, and a failure to do so only logged.
WithOutput(d, a, says, by, issued) ==
  [d EXCEPT !.output[a] = Append(@, [says |-> says, by |-> by]),
            !.locker[a] = @ + issued]
Issued == IF MayFail THEN {0, 1} ELSE {1}

\* The output of a decision, whatever outputs there are: generateOutput may
\* fail as well, and is not called again.
ProduceOutput(r) ==
  LET a == req[r].app
  IN /\ req[r].pc = "decided"
     /\ \/ MayFail /\ UNCHANGED db
        \/ \E issued \in Issued :
             db' = WithOutput(db, a, Says(db.app[a]), None, issued)
     /\ req' = [req EXCEPT ![r].pc = "issued"]
     /\ UNCHANGED <<resp, down>>

\* Fault: one closing transition for both decisions.
ClosesAsApproved(q) == "CLOSE_APPROVED"

\* The closing transition, in a transaction of its own.
ClosingName(q) == IF q.payload.decision = "APPROVE"
                    THEN "CLOSE_APPROVED" ELSE "CLOSE_REJECTED"

Close(r) ==
  LET q == req[r]
  IN /\ q.pc = "issued"
     /\ \E tr \in Transition :
          /\ tr.name = ClosingName(q)
          /\ Permitted(db, q.app, tr, "SYSTEM", {})
          /\ db' = Fire(db, q.app, tr, None, NoPayload)
     /\ req' = [req EXCEPT ![r] = IdleRequest]
     /\ UNCHANGED <<resp, down>>

\* A crash of the process, a lock timeout or an exhausted pool: the step's
\* transaction is rolled back, what earlier steps committed stays.
RequestFails(r) ==
  /\ MayFail
  /\ req[r] # IdleRequest
  /\ req' = [req EXCEPT ![r] = IdleRequest]
  /\ UNCHANGED <<db, resp, down>>

\* respondToQuery reads the application before its transaction begins.
ReadForResponse(c, i, edits) ==
  LET a == db.query[i].app
  IN /\ resp[c] = IdleResponse
     /\ db.app[a].state = "QUERY_PENDING"
     /\ resp' = [resp EXCEPT ![c] =
          [pc |-> "read", app |-> a, query |-> i,
           history |-> db.app[a].history, edits |-> edits]]
     /\ UNCHANGED <<db, req, down>>

\* The query row is read without a lock.
CheckQuery(c) ==
  /\ resp[c].pc = "read"
  /\ resp' = [resp EXCEPT ![c] =
       IF db.query[resp[c].query].status = "PENDING"
         THEN [resp[c] EXCEPT !.pc = "checked"] ELSE IdleResponse]
  /\ UNCHANGED <<db, req, down>>

\* Fault: the data sent by the client replaces the stored data.
AnsweredWithoutMerge(d, p) ==
  [d EXCEPT !.query[p.query] = [@ EXCEPT !.status = "RESPONDED"],
            !.app[p.app] = [@ EXCEPT !.paused = FALSE,
                                     !.history = IF p.edits THEN 0 ELSE @]]

\* The writes before the transitions.  Edits are merged into the data read
\* at the start, so the status history goes back to what it was then.
RowAnswered(row, p) ==
  [row EXCEPT !.paused = FALSE, !.history = IF p.edits THEN p.history ELSE @]

Answered(d, p) ==
  [d EXCEPT !.query[p.query] = [@ EXCEPT !.status = "RESPONDED"],
            !.app[p.app] = RowAnswered(@, p)]

Respond(c) ==
  /\ resp[c].pc = "checked"
  /\ \E first, second \in Transition :
       /\ first.name = "QUERY_RESPOND" /\ second.name = "RESUBMIT_ROUTE"
       /\ FireBoth(Answered(db, resp[c]), db', resp[c].app, first, second)
  /\ resp' = [resp EXCEPT ![c] = IdleResponse]
  /\ UNCHANGED <<req, down>>

\* The transaction is rolled back: QUERY_RESPOND is refused, or a failure.
RespondFails(c) ==
  /\ resp[c].pc = "checked"
  /\ MayFail \/ db.app[resp[c].app].state # "QUERY_PENDING"
  /\ resp' = [resp EXCEPT ![c] = IdleResponse]
  /\ UNCHANGED <<db, req, down>>

\* A download of a no-due certificate generates it when there is none: the
\* application, decided or not, is read, then that nothing is owed for its
\* property (module NdcLedger).  A rejected application, or one with dues, is
\* only read.
AskDownload(w, a) ==
  /\ down[w] = IdleDownload
  /\ db.app[a].disposal # "REJECTED"
  /\ down' = [down EXCEPT ![w] = [pc |-> "asked", app |-> a]]
  /\ UNCHANGED <<db, req, resp>>

\* Fault: every download generates the certificate.
CheckOutputAnyway(w) ==
  /\ down[w].pc = "asked"
  /\ down' = [down EXCEPT ![w].pc = "needed"]
  /\ UNCHANGED <<db, req, resp>>

\* getOutputByArn
CheckOutput(w) ==
  /\ down[w].pc = "asked"
  /\ down' = [down EXCEPT ![w] = IF db.output[down[w].app] = <<>>
                THEN [@ EXCEPT !.pc = "needed"] ELSE IdleDownload]
  /\ UNCHANGED <<db, req, resp>>

\* generateOutput reads the application again and renders what it read,
RenderOutput(w) ==
  /\ down[w].pc = "needed"
  /\ down' = [down EXCEPT ![w] = [pc |-> "rendered", app |-> @.app,
                                  says |-> Says(db.app[@.app])]]
  /\ UNCHANGED <<db, req, resp>>

\* and inserts the row, without looking for another.
InsertOutput(w) ==
  LET q == down[w]
  IN /\ q.pc = "rendered"
     /\ \E issued \in Issued : db' = WithOutput(db, q.app, q.says, w, issued)
     /\ down' = [down EXCEPT ![w] = IdleDownload]
     /\ UNCHANGED <<req, resp>>

DownloadFails(w) ==
  /\ MayFail
  /\ down[w] # IdleDownload
  /\ down' = [down EXCEPT ![w] = IdleDownload]
  /\ UNCHANGED <<db, req, resp>>

Download(w) == \/ \E a \in App : AskDownload(w, a)
               \/ CheckOutput(w) \/ RenderOutput(w) \/ InsertOutput(w)
               \/ DownloadFails(w)

Serve(r) == \/ Claim(r) \/ ClaimRefused(r) \/ Act(r) \/ ActRefused(r)
            \/ ProduceOutput(r) \/ Close(r)

Next ==
  \/ \E a \in App : Submit(a)
  \/ \E o \in Officer, i \in DOMAIN db.task : AssignTask(o, i)
  \/ \E r \in Request, o \in Officer, i \in DOMAIN db.task,
        action \in TaskAction, message \in BOOLEAN :
       Receive(r, o, i, action, message)
  \/ \E r \in Request : Serve(r) \/ RequestFails(r)
  \/ \E c \in Responder, i \in DOMAIN db.query, edits \in BOOLEAN :
       ReadForResponse(c, i, edits)
  \/ \E c \in Responder : CheckQuery(c) \/ Respond(c) \/ RespondFails(c)
  \/ \E w \in Downloader : Download(w)

Spec == Init /\ [][Next]_vars

\* A request the API has accepted runs to its end unless it fails.
FairSpec == Spec /\ \A r \in Request : WF_vars(Serve(r))

(***************************************************************************)
(* Properties.                                                             *)
(***************************************************************************)
\* Every table and every request in flight has the shape the code gives it.
TypeOK ==
  /\ db \in Tables
  /\ req \in [Request -> {IdleRequest} \cup RequestState]
  /\ resp \in [Responder -> {IdleResponse} \cup ResponseState]
  /\ down \in [Downloader -> {IdleDownload} \cup DownloadState]

\* executeTransition never leaves an application in a state that requires a
\* task without an open task of that state: some officer can always act.
NoDeadEnd ==
  \A a \in App : db.app[a].state \in Stage =>
    \E i \in OpenTasks(db, a) : db.task[i].stage = db.app[a].state

\* An application is disposed exactly when it has left review, it has then
\* one decision record, and record, disposal and state agree: two officers'
\* requests never both decide.  Its SLA clock stands still only while the
\* citizen owes an answer.
DecisionMatchesDisposal ==
  \A a \in App :
    LET row == db.app[a]
        made == {d \in db.decision : d.app = a}
    IN /\ row.disposal # "NONE" <=> row.state \in Decided \cup {"CLOSED"}
       /\ row.state \in Decided => row.disposal = row.state
       /\ row.disposal # "NONE" => \E d \in made : made = {d}
       /\ \A d \in made : DisposalType(d.type) = row.disposal
       /\ row.paused => row.state = "QUERY_PENDING"

\* A decision is made by an officer who held, and has completed, a task of a
\* stage that may take it: deciding on another officer's task is refused.
DecidedByTaskHolder ==
  \A d \in db.decision : \E i \in DOMAIN db.task :
    /\ db.task[i].app = d.app /\ db.task[i].assignee = d.by
    /\ db.task[i].status = "COMPLETED"
    /\ \E tr \in Transition :
         tr.from = db.task[i].stage /\ tr.name = d.type

\* However decisions and downloads of its certificate interleave, the outputs
\* of an application are accounted for: one at most is its decision's and says
\* what was decided; a download, which looks for an output before it makes one,
\* makes another only beside downloads it overlaps, so no two are of one
\* server slot; and what does not say the decision is such a certificate,
\* rendered before the application was rejected or while it is undecided.  The
\* locker holds no more documents.
OutputsAccountedFor ==
  \A a \in App :
    LET made == db.output[a]
    IN /\ \A i, j \in DOMAIN made : made[i].by = made[j].by => i = j
       /\ \A i \in DOMAIN made :
            \/ made[i].says = db.app[a].disposal
            \/ made[i].by # None /\ made[i].says = "APPROVED"
       /\ db.locker[a] <= Len(made)

\* The certificate is issued on approval: no output says APPROVED of an
\* application that was not approved.
CertificateOnApproval ==
  \A a \in App : \A i \in DOMAIN db.output[a] :
    db.output[a][i].says = "APPROVED" => db.app[a].disposal = "APPROVED"

\* A task is never taken from the officer who holds it, and a completed task
\* is never opened again, whichever way two claims interleave.
ClaimsAreFinal ==
  [][\A i \in DOMAIN db.task :
       /\ db.task[i].assignee # None =>
            db'.task[i].assignee = db.task[i].assignee
       /\ db.task[i].status = "COMPLETED" => db'.task[i] = db.task[i]]_vars

\* An application waits for officers or for the citizen, never both: there is
\* one open task while its state requires one and none otherwise, and one
\* query row is PENDING exactly while it is in QUERY_PENDING.
OneSideToMove ==
  \A a \in App :
    /\ Cardinality(OpenTasks(db, a)) = IF db.app[a].state \in Stage THEN 1 ELSE 0
    /\ Cardinality({i \in DOMAIN db.query :
                      db.query[i].app = a /\ db.query[i].status = "PENDING"})
         = IF db.app[a].state = "QUERY_PENDING" THEN 1 ELSE 0

\* The records of who did what agree: the status history in the application
\* data and the audit events tell of as many transitions, no write of the data
\* losing an entry, and a decision is linked to the task its officer acted on.
RecordsAgree ==
  /\ \A a \in App : db.app[a].history = db.audit[a]
  /\ \A d \in db.decision :
       d.task \in DOMAIN db.task /\ db.task[d.task].assignee = d.by

\* After CLOSED no task of the application is PENDING or IN_PROGRESS.
NoOpenTaskAfterClosed ==
  \A a \in App : db.app[a].state = "CLOSED" => OpenTasks(db, a) = {}

\* What is decided is closed in the end.
DecidedEventuallyClosed ==
  \A a \in App : db.app[a].state \in Decided ~> db.app[a].state = "CLOSED"

(***************************************************************************)
(* The abstract lifecycle: SUBMITTED and RESUBMITTED are never visible,    *)
(* they come and go inside one transaction.                                *)
(***************************************************************************)
Lifecycle == INSTANCE ApplicationLifecycle WITH
  First <- (CHOOSE tr \in Transition : tr.name = "ASSIGN_CLERK").to,
  NextStage <- {<<tr.from, tr.to>> : tr \in
                  {t \in Transition : t.from \in Stage /\ t.to \in Stage}},
  Last <- {tr.from : tr \in {t \in Transition : t.name = "APPROVE"}},
  phase <- [a \in App |-> db.app[a].state],
  outcome <- [a \in App |-> db.app[a].disposal]

\* Stage by stage, one decision, closed only when decided: every step of the
\* engine is a step of the abstract lifecycle or leaves it alone.
ImplementsLifecycle == Lifecycle!Spec
=============================================================================
