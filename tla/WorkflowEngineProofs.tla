------------------------ MODULE WorkflowEngineProofs ------------------------
(***************************************************************************)
(* Proofs about the workflow engine for every pack that satisfies          *)
(* PackAssumption and any number of applications, officers and requests:   *)
(* no application is left without a task, decision and disposal agree, the *)
(* outputs are accounted for, a claim is final, and every step is a step   *)
(* of the abstract lifecycle.                                              *)
(***************************************************************************)
EXTENDS WorkflowEngine, SequenceTheorems, WellFoundedInduction, TLAPS

(***************************************************************************)
(* What one transition does to each table.                                 *)
(***************************************************************************)
Actor == Officer \cup {None}

LEMMA RowAfterType ==
  ASSUME NEW row \in Row, NEW tr \in Transition, NEW pay \in Payload
  PROVE  RowAfter(row, tr, pay) \in Row
BY PackAssumption DEF RowAfter, Row, DisposalType, Decided, Payload

LEMMA CompletedType ==
  ASSUME NEW tasks \in Seq(Task), NEW a, NEW o
  PROVE  Completed(tasks, a, o) \in Seq(Task)
<1>1. tasks \in [1..Len(tasks) -> Task] /\ Len(tasks) \in Nat
  BY LenProperties
<1>2. \A t \in Task : [t EXCEPT !.status = "COMPLETED"] \in Task
  BY DEF Task
<1>3. Completed(tasks, a, o) \in [1..Len(tasks) -> Task]
  BY <1>1, <1>2 DEF Completed
<1> QED BY <1>1, <1>3, SeqDef

LEMMA WithNextTaskType ==
  ASSUME NEW d \in Tables, NEW a \in App, NEW tr
  PROVE  WithNextTask(d, a, tr) \in Seq(Task)
<1>1. d.task \in Seq(Task)
  BY DEF Tables
<1>2. CASE NeedsTask(d, a, tr)
  <2>1. [app |-> a, stage |-> tr.to, status |-> "PENDING",
         assignee |-> None] \in Task
    BY <1>2 DEF NeedsTask, Task, OpenStatus
  <2> QED BY <1>1, <1>2, <2>1, AppendProperties DEF WithNextTask
<1>3. CASE ~NeedsTask(d, a, tr)
  BY <1>1, <1>3 DEF WithNextTask
<1> QED BY <1>2, <1>3

LEMMA QueriesAfterType ==
  ASSUME NEW queries \in Seq(Query), NEW a \in App, NEW tr, NEW pay
  PROVE  QueriesAfter(queries, a, tr, pay) \in Seq(Query)
<1>1. [app |-> a, status |-> "PENDING"] \in Query
  BY DEF Query
<1> QED BY <1>1, AppendProperties DEF QueriesAfter

\* A non-empty set of numbers up to n has a greatest element: the task that
\* ActiveTask chooses exists.
LEMMA GreatestExists ==
  ASSUME NEW n \in Nat, NEW S, S \subseteq 1..n, S # {}
  PROVE  \E i \in S : \A j \in S : j <= i
<1>1. \A i \in S : i \in 1..n
  BY ONLY S \subseteq 1..n
<1>2. \A i \in S : i \in Int /\ n - i \in Nat
  BY <1>1
<1> DEFINE T == {n - i : i \in S}
<1>3. T \subseteq Nat /\ T # {}
  BY ONLY <1>2, S # {}
<1>4. PICK x \in T : \A y \in T : ~(<<y, x>> \in OpToRel(<, Nat))
  <2> HIDE DEF T
  <2> QED BY ONLY <1>3, NatLessThanWellFounded, WFMin
<1>5. PICK i \in S : x = n - i
  BY ONLY <1>4
<1>6. ASSUME NEW j \in S
      PROVE  j <= i
  <2>1. n - j \in T
    BY ONLY j \in S
  <2> HIDE DEF T
  <2>2. ~(<<n - j, n - i>> \in OpToRel(<, Nat))
    BY ONLY <1>4, <1>5, <2>1
  <2>3. ~(n - j < n - i)
    BY ONLY <1>2, <2>2, i \in S, j \in S DEF OpToRel
  <2> QED BY ONLY <1>2, <2>3, i \in S, j \in S, n \in Nat
<1> QED BY ONLY <1>6, i \in S

LEMMA ActiveTaskType ==
  ASSUME NEW d \in Tables, NEW a
  PROVE  /\ ActiveTask(d, a) \in Nat
         /\ OpenTasks(d, a) # {} => ActiveTask(d, a) \in OpenTasks(d, a)
<1>1. /\ Len(d.task) \in Nat
      /\ OpenTasks(d, a) \subseteq 1..Len(d.task)
  BY LenProperties DEF Tables, OpenTasks
<1>2. CASE OpenTasks(d, a) # {}
  <2>1. \E i \in OpenTasks(d, a) : \A j \in OpenTasks(d, a) : j <= i
    BY <1>1, <1>2, GreatestExists
  <2>2. ActiveTask(d, a) \in OpenTasks(d, a)
    BY <1>2, <2>1 DEF ActiveTask
  <2> QED BY <1>1, <2>2
<1>3. CASE OpenTasks(d, a) = {}
  BY <1>3 DEF ActiveTask
<1> QED BY <1>2, <1>3

\* A transition keeps the tables well formed; an officer takes the decisions.
LEMMA FireType ==
  ASSUME NEW d \in Tables, NEW a \in App, NEW tr \in Transition,
         NEW o \in Actor, NEW pay \in Payload,
         tr.to \in Decided => o \in Officer
  PROVE  Fire(d, a, tr, o, pay) \in Tables
<1>1. /\ d.app \in [App -> Row] /\ d.task \in Seq(Task)
      /\ d.query \in Seq(Query) /\ d.decision \in SUBSET Decision
      /\ d.audit \in [App -> Nat] /\ d.locker \in [App -> Nat]
      /\ d.output \in [App -> Seq(Output)]
  BY DEF Tables
<1>2. [d.app EXCEPT ![a] = RowAfter(@, tr, pay)] \in [App -> Row]
  BY <1>1, RowAfterType
<1>3. Completed(WithNextTask(d, a, tr), a, o) \in Seq(Task)
  BY WithNextTaskType, CompletedType
<1>4. QueriesAfter(d.query, a, tr, pay) \in Seq(Query)
  BY <1>1, QueriesAfterType
<1>5. DecisionsAfter(d, a, tr, o, pay) \in SUBSET Decision
  <2>1. CASE "RECORD_DECISION" \in tr.actions
    <3>1. o \in Officer
      BY <2>1, PackAssumption
    <3> QED BY <1>1, <2>1, <3>1, ActiveTaskType
            DEF DecisionsAfter, Decision, DecisionType
  <2>2. CASE "RECORD_DECISION" \notin tr.actions
    BY <1>1, <2>2 DEF DecisionsAfter
  <2> QED BY <2>1, <2>2
<1>6. [d.audit EXCEPT ![a] = @ + 1] \in [App -> Nat]
  BY <1>1
<1> QED BY <1>1, <1>2, <1>3, <1>4, <1>5, <1>6 DEF Fire, Tables

LEMMA FireBothType ==
  ASSUME NEW d \in Tables, NEW e, NEW a \in App,
         NEW first \in Transition, NEW second \in Transition,
         FireBoth(d, e, a, first, second),
         first.to \notin Decided, second.to \notin Decided
  PROVE  e \in Tables
<1>1. NoPayload \in Payload /\ None \in Actor
  BY DEF NoPayload, Payload, Actor
<1> DEFINE mid == Fire(d, a, first, None, NoPayload)
<1>2. mid \in Tables
  BY <1>1, FireType
<1>3. e = Fire(mid, a, second, None, NoPayload)
  BY DEF FireBoth
<1> QED
  <2> HIDE DEF mid
  <2> QED BY <1>1, <1>2, <1>3, FireType

\* The citizen's and the system's transitions decide nothing.
LEMMA UndecidedNames ==
  ASSUME NEW tr \in Transition,
         tr.name \in {"SUBMIT", "ASSIGN_CLERK", "QUERY_RESPOND", "RESUBMIT_ROUTE",
                      "CLOSE_APPROVED", "CLOSE_REJECTED"}
  PROVE  tr.to \notin Decided /\ tr.from \notin Stage
BY PackAssumption DEF TaskAction

(***************************************************************************)
(* Type correctness.                                                       *)
(***************************************************************************)
\* Each action under the type invariant, in the shape the proofs use it.
LEMMA SubmitType ==
  ASSUME TypeOK, NEW a \in App, Submit(a)
  PROVE  TypeOK'
<1>1. PICK first \in Transition, second \in Transition :
        /\ first.name = "SUBMIT" /\ second.name = "ASSIGN_CLERK"
        /\ FireBoth(db, db', a, first, second)
  BY DEF Submit
<1>2. first.to \notin Decided /\ second.to \notin Decided
  BY <1>1, UndecidedNames
<1>3. db' \in Tables
  BY <1>1, <1>2, FireBothType DEF TypeOK
<1> QED BY <1>3 DEF Submit, TypeOK

\* Replacing one row of a table keeps the table a sequence of rows.
LEMMA TaskUpdate ==
  ASSUME NEW tasks \in Seq(Task), NEW i, NEW t,
         i \in DOMAIN tasks => t \in Task
  PROVE  [tasks EXCEPT ![i] = t] \in Seq(Task)
<1>1. tasks \in [1..Len(tasks) -> Task] /\ Len(tasks) \in Nat
  BY LenProperties
<1>2. [tasks EXCEPT ![i] = t] \in [1..Len(tasks) -> Task]
  BY <1>1
<1> QED BY <1>1, <1>2, SeqDef

LEMMA QueryUpdate ==
  ASSUME NEW queries \in Seq(Query), NEW i, NEW q,
         i \in DOMAIN queries => q \in Query
  PROVE  [queries EXCEPT ![i] = q] \in Seq(Query)
<1>1. queries \in [1..Len(queries) -> Query] /\ Len(queries) \in Nat
  BY LenProperties
<1>2. [queries EXCEPT ![i] = q] \in [1..Len(queries) -> Query]
  BY <1>1
<1> QED BY <1>1, <1>2, SeqDef

LEMMA HeldType ==
  ASSUME NEW t \in Task, NEW o \in Officer
  PROVE  HeldBy(t, o) \in Task /\ Started(t) \in Task
BY DEF HeldBy, Started, Task, OpenStatus

LEMMA TaskAt ==
  ASSUME NEW tasks \in Seq(Task), NEW i \in DOMAIN tasks
  PROVE  tasks[i] \in Task
BY LenProperties, ElementOfSeq

LEMMA AssignTaskType ==
  ASSUME TypeOK, NEW o \in Officer, NEW i \in DOMAIN db.task, AssignTask(o, i)
  PROVE  TypeOK'
<1>1. db.task \in Seq(Task)
  BY DEF TypeOK, Tables
<1>2. [db.task EXCEPT ![i] = HeldBy(@, o)] \in Seq(Task)
  BY <1>1, TaskAt, HeldType, TaskUpdate
<1>3. db' \in Tables
  BY <1>2 DEF AssignTask, TypeOK, Tables
<1> QED BY <1>3 DEF AssignTask, TypeOK

\* What the type invariant says of a request and of a response in flight.
LEMMA RequestInFlight ==
  ASSUME TypeOK, NEW r \in Request, req[r].pc # "idle"
  PROVE  req[r] \in RequestState
BY DEF TypeOK, IdleRequest

LEMMA ResponseInFlight ==
  ASSUME TypeOK, NEW c \in Responder, resp[c].pc # "idle"
  PROVE  resp[c] \in ResponseState
BY DEF TypeOK, IdleResponse

LEMMA ReceiveType ==
  ASSUME TypeOK, NEW r \in Request, NEW o \in Officer, NEW i \in DOMAIN db.task,
         NEW action \in TaskAction, NEW message \in BOOLEAN,
         Receive(r, o, i, action, message)
  PROVE  TypeOK'
<1>1. db.task \in Seq(Task) /\ db.task[i] \in Task /\ i \in Nat
  BY TaskAt, LenProperties DEF TypeOK, Tables
<1> DEFINE q == [pc |-> "read", officer |-> o, task |-> i,
                 app |-> db.task[i].app, stage |-> db.task[i].stage,
                 seen |-> db.task[i].assignee, status |-> db.task[i].status,
                 payload |-> [decision |-> action, message |-> message]]
<1>2. q \in RequestState
  BY <1>1 DEF RequestState, Task, Payload
<1>3. req' = [req EXCEPT ![r] = q]
  BY DEF Receive
<1>4. req' \in [Request -> {IdleRequest} \cup RequestState]
  <2> HIDE DEF q
  <2> QED BY <1>2, <1>3 DEF TypeOK
<1> QED BY <1>4 DEF Receive, TypeOK

\* A request that goes on or ends stays well formed.
LEMMA RequestStep ==
  ASSUME TypeOK, NEW r \in Request, req[r].pc # "idle",
         \/ req' = [req EXCEPT ![r] = IdleRequest]
         \/ \E p \in {"claimed", "decided", "issued"} :
              req' = [req EXCEPT ![r] = [req[r] EXCEPT !.pc = p]]
  PROVE  req' \in [Request -> {IdleRequest} \cup RequestState]
<1>1. req[r] \in RequestState
  BY RequestInFlight
<1>2. \A p \in {"claimed", "decided", "issued"} :
        [req[r] EXCEPT !.pc = p] \in RequestState
  BY <1>1 DEF RequestState
<1> QED BY <1>2 DEF TypeOK

LEMMA ClaimType ==
  ASSUME TypeOK, NEW r \in Request, Claim(r)
  PROVE  TypeOK'
<1> DEFINE q == req[r]
<1>1. q \in RequestState /\ db.task \in Seq(Task)
  BY RequestInFlight DEF Claim, TypeOK, Tables
<1>2. \A i \in DOMAIN db.task : /\ HeldBy(db.task[i], q.officer) \in Task
                               /\ Started(db.task[i]) \in Task
  BY <1>1, TaskAt, HeldType DEF RequestState
<1>3. /\ [db.task EXCEPT ![q.task] = HeldBy(@, q.officer)] \in Seq(Task)
      /\ [db.task EXCEPT ![q.task] = Started(@)] \in Seq(Task)
  BY <1>1, <1>2, TaskUpdate
<1>4. db' \in Tables
  BY <1>3 DEF Claim, TypeOK, Tables
<1>5. req' \in [Request -> {IdleRequest} \cup RequestState]
  BY RequestStep DEF Claim
<1> QED BY <1>4, <1>5 DEF Claim, TypeOK

LEMMA ActType ==
  ASSUME TypeOK, NEW r \in Request, Act(r)
  PROVE  TypeOK'
<1> DEFINE q == req[r]
<1>1. q \in RequestState
  BY RequestInFlight DEF Act
<1>2. PICK tr \in Allowed(q) :
        /\ db' = Fire(db, q.app, tr, q.officer, q.payload)
        /\ req' = [req EXCEPT ![r] = IF tr.to \in Decided
                     THEN [q EXCEPT !.pc = "decided"] ELSE IdleRequest]
  BY DEF Act
<1>3. db' \in Tables
  BY <1>1, <1>2, FireType DEF TypeOK, Allowed, Requested, RequestState, Actor
<1>4. req' \in [Request -> {IdleRequest} \cup RequestState]
  BY <1>2, RequestStep DEF Act
<1> QED BY <1>3, <1>4 DEF Act, TypeOK

\* An output is one more row of its application; nothing else is written.
LEMMA WithOutputType ==
  ASSUME NEW d \in Tables, NEW e, NEW a \in App, NEW says \in Decided,
         NEW by \in Downloader \cup {None}, NEW n \in {0, 1},
         e = WithOutput(d, a, says, by, n)
  PROVE  /\ e \in Tables
         /\ e.app = d.app /\ e.task = d.task /\ e.query = d.query
         /\ e.decision = d.decision /\ e.audit = d.audit
         /\ e.output[a] = Append(d.output[a], [says |-> says, by |-> by])
         /\ e.locker[a] = d.locker[a] + n
         /\ \A b \in App \ {a} : /\ e.output[b] = d.output[b]
                                /\ e.locker[b] = d.locker[b]
<1> DEFINE row == [says |-> says, by |-> by]
           output == [d.output EXCEPT ![a] = Append(@, row)]
           locker == [d.locker EXCEPT ![a] = @ + n]
<1>1. e = [d EXCEPT !.output = output, !.locker = locker]
  BY DEF WithOutput, Tables
<1>2. d.output \in [App -> Seq(Output)] /\ d.locker \in [App -> Nat]
  BY DEF Tables
<1>3. row \in Output
  BY DEF Output
<1> HIDE DEF row
<1>4. Append(d.output[a], row) \in Seq(Output)
  BY <1>2, <1>3, AppendProperties
<1>5. output \in [App -> Seq(Output)] /\ locker \in [App -> Nat]
  BY <1>2, <1>4
<1>6. [d EXCEPT !.output = output, !.locker = locker] \in Tables
  <2> HIDE DEF output, locker
  <2> QED BY <1>5 DEF Tables
<1>7. /\ e.app = d.app /\ e.task = d.task /\ e.query = d.query
      /\ e.decision = d.decision /\ e.audit = d.audit
      /\ e.output = output /\ e.locker = locker
  <2> HIDE DEF output, locker
  <2> QED BY <1>1 DEF Tables
<1>8. /\ output[a] = Append(d.output[a], row) /\ locker[a] = d.locker[a] + n
      /\ \A b \in App \ {a} : /\ output[b] = d.output[b]
                             /\ locker[b] = d.locker[b]
  BY <1>2
<1> HIDE DEF output, locker
<1> QED BY <1>1, <1>6, <1>7, <1>8 DEF row

LEMMA SaysType ==
  ASSUME NEW row \in Row
  PROVE  Says(row) \in Decided
BY DEF Says, Row, Decided

\* Between d and e an output was added.
AddsOutput(d, e) ==
  \E a \in App, says \in Decided, by \in Downloader \cup {None}, n \in {0, 1} :
    e = WithOutput(d, a, says, by, n)

LEMMA AddsOutputType ==
  ASSUME NEW d \in Tables, NEW e, AddsOutput(d, e)
  PROVE  /\ e \in Tables
         /\ e.app = d.app /\ e.task = d.task /\ e.query = d.query
         /\ e.decision = d.decision /\ e.audit = d.audit
<1>1. PICK a \in App, says \in Decided, by \in Downloader \cup {None}, n \in {0, 1} :
        e = WithOutput(d, a, says, by, n)
  BY DEF AddsOutput
<1> QED BY <1>1, WithOutputType

LEMMA ProduceOutputAdds ==
  ASSUME TypeOK, NEW r \in Request, ProduceOutput(r)
  PROVE  db' = db \/ AddsOutput(db, db')
<1> DEFINE a == req[r].app
           says == Says(db.app[a])
<1>1. a \in App
  BY RequestInFlight DEF ProduceOutput, RequestState
<1>2. says \in Decided
  BY <1>1, SaysType DEF TypeOK, Tables
<1>3. db' = db \/ \E n \in {0, 1} : db' = WithOutput(db, a, says, None, n)
  BY DEF ProduceOutput, Issued
<1> HIDE DEF a, says
<1> QED BY <1>1, <1>2, <1>3 DEF AddsOutput

LEMMA ProduceOutputType ==
  ASSUME TypeOK, NEW r \in Request, ProduceOutput(r)
  PROVE  TypeOK'
<1>1. db' \in Tables
  BY ProduceOutputAdds, AddsOutputType DEF TypeOK
<1>2. req' \in [Request -> {IdleRequest} \cup RequestState]
  BY RequestStep DEF ProduceOutput
<1> QED BY <1>1, <1>2 DEF ProduceOutput, TypeOK

LEMMA CloseType ==
  ASSUME TypeOK, NEW r \in Request, Close(r)
  PROVE  TypeOK'
<1> DEFINE q == req[r]
<1>1. q \in RequestState
  BY RequestInFlight DEF Close
<1>2. PICK tr \in Transition :
        /\ tr.name = ClosingName(q)
        /\ db' = Fire(db, q.app, tr, None, NoPayload)
  BY DEF Close
<1>3. tr.to \notin Decided
  BY <1>2, UndecidedNames DEF ClosingName
<1>4. db' \in Tables
  BY <1>1, <1>2, <1>3, FireType
     DEF TypeOK, RequestState, Actor, NoPayload, Payload
<1>5. req' \in [Request -> {IdleRequest} \cup RequestState]
  BY RequestStep DEF Close
<1> QED BY <1>4, <1>5 DEF Close, TypeOK

LEMMA ReadForResponseType ==
  ASSUME TypeOK, NEW c \in Responder, NEW i \in DOMAIN db.query,
         NEW edits \in BOOLEAN, ReadForResponse(c, i, edits)
  PROVE  TypeOK'
<1>1. db.query[i] \in Query /\ i \in Nat
  BY LenProperties, ElementOfSeq DEF TypeOK, Tables
<1> DEFINE p == [pc |-> "read", app |-> db.query[i].app, query |-> i,
                 history |-> db.app[db.query[i].app].history, edits |-> edits]
<1>2. p \in ResponseState
  BY <1>1 DEF ResponseState, Query, TypeOK, Tables, Row
<1>3. resp' = [resp EXCEPT ![c] = p]
  BY DEF ReadForResponse
<1>4. resp' \in [Responder -> {IdleResponse} \cup ResponseState]
  <2> HIDE DEF p
  <2> QED BY <1>2, <1>3 DEF TypeOK
<1> QED BY <1>4 DEF ReadForResponse, TypeOK

LEMMA AnsweredType ==
  ASSUME NEW d \in Tables, NEW p \in ResponseState
  PROVE  /\ Answered(d, p) \in Tables
         /\ Answered(d, p).app
              = [d.app EXCEPT ![p.app] = RowAnswered(@, p)]
         /\ Answered(d, p).task = d.task
         /\ Answered(d, p).decision = d.decision
<1>1. d.app \in [App -> Row] /\ d.query \in Seq(Query) /\ p.app \in App
  BY DEF Tables, ResponseState
<1>2. \A i \in DOMAIN d.query :
        [d.query[i] EXCEPT !.status = "RESPONDED"] \in Query
  <2>1. \A i \in DOMAIN d.query : d.query[i] \in Query
    BY <1>1, LenProperties, ElementOfSeq
  <2>2. \A q \in Query : [q EXCEPT !.status = "RESPONDED"] \in Query
    BY DEF Query
  <2> QED BY <2>1, <2>2
<1>3. [d.query EXCEPT ![p.query] = [@ EXCEPT !.status = "RESPONDED"]]
        \in Seq(Query)
  BY <1>1, <1>2, QueryUpdate
<1>4. RowAnswered(d.app[p.app], p) \in Row
  <2>1. d.app[p.app] \in Row /\ p.history \in Nat
    BY <1>1 DEF ResponseState
  <2> QED BY <2>1 DEF RowAnswered, Row
<1>5. [d.app EXCEPT ![p.app] = RowAnswered(@, p)] \in [App -> Row]
  BY <1>1, <1>4
<1> QED BY <1>3, <1>5 DEF Answered, Tables

LEMMA RespondType ==
  ASSUME TypeOK, NEW c \in Responder, Respond(c)
  PROVE  TypeOK'
<1>1. resp[c] \in ResponseState
  BY ResponseInFlight DEF Respond
<1>2. PICK first \in Transition, second \in Transition :
        /\ first.name = "QUERY_RESPOND" /\ second.name = "RESUBMIT_ROUTE"
        /\ FireBoth(Answered(db, resp[c]), db', resp[c].app, first, second)
  BY DEF Respond
<1>3. first.to \notin Decided /\ second.to \notin Decided
  BY <1>2, UndecidedNames
<1>4. db' \in Tables
  BY <1>1, <1>2, <1>3, AnsweredType, FireBothType DEF TypeOK, ResponseState
<1> QED BY <1>4 DEF Respond, TypeOK

LEMMA CheckQueryType ==
  ASSUME TypeOK, NEW c \in Responder, CheckQuery(c)
  PROVE  TypeOK'
<1>1. resp[c] \in ResponseState
  BY ResponseInFlight DEF CheckQuery
<1>2. [resp[c] EXCEPT !.pc = "checked"] \in ResponseState
  BY <1>1 DEF ResponseState
<1> QED BY <1>2 DEF CheckQuery, TypeOK

\* What the type invariant says of a download in flight.
LEMMA DownloadInFlight ==
  ASSUME TypeOK, NEW w \in Downloader, down[w].pc # "idle"
  PROVE  /\ down[w] \in DownloadState /\ down[w].app \in App
         /\ down[w].pc = "rendered" => down[w].says \in Decided
BY DEF TypeOK, IdleDownload, DownloadState

\* Only the insertion of a download writes a table.
LEMMA InsertOutputAdds ==
  ASSUME TypeOK, NEW w \in Downloader, InsertOutput(w)
  PROVE  AddsOutput(db, db')
<1> DEFINE a == down[w].app
           says == down[w].says
<1>1. a \in App /\ says \in Decided
  BY DownloadInFlight DEF InsertOutput
<1>2. \E n \in {0, 1} : db' = WithOutput(db, a, says, w, n)
  BY DEF InsertOutput, Issued
<1> HIDE DEF a, says
<1> QED BY <1>1, <1>2 DEF AddsOutput

LEMMA InsertOutputType ==
  ASSUME TypeOK, NEW w \in Downloader, InsertOutput(w)
  PROVE  TypeOK'
<1>1. db' \in Tables
  BY InsertOutputAdds, AddsOutputType DEF TypeOK
<1> QED BY <1>1 DEF InsertOutput, TypeOK

LEMMA DownloadType ==
  ASSUME TypeOK, NEW w \in Downloader, Download(w)
  PROVE  TypeOK'
<1>1. ASSUME NEW q \in {IdleDownload} \cup DownloadState,
             down' = [down EXCEPT ![w] = q], UNCHANGED <<db, req, resp>>
      PROVE  TypeOK'
  BY <1>1 DEF TypeOK
<1>2. ASSUME NEW a \in App, AskDownload(w, a) PROVE TypeOK'
  <2>1. [pc |-> "asked", app |-> a] \in DownloadState
    BY DEF DownloadState
  <2> QED BY <1>1, <1>2, <2>1 DEF AskDownload
<1>3. CASE CheckOutput(w)
  <2>1. down[w] \in [pc : {"asked", "needed"}, app : App]
    BY <1>3, DownloadInFlight DEF CheckOutput, DownloadState
  <2>2. [down[w] EXCEPT !.pc = "needed"] \in DownloadState
    BY <2>1 DEF DownloadState
  <2> QED BY <1>1, <1>3, <2>2 DEF CheckOutput
<1>4. CASE RenderOutput(w)
  <2> DEFINE q == [pc |-> "rendered", app |-> down[w].app,
                   says |-> Says(db.app[down[w].app])]
  <2>1. down[w].app \in App
    BY <1>4, DownloadInFlight DEF RenderOutput
  <2>2. Says(db.app[down[w].app]) \in Decided
    BY <2>1, SaysType DEF TypeOK, Tables
  <2>3. q \in DownloadState
    BY <2>1, <2>2 DEF DownloadState
  <2>4. down' = [down EXCEPT ![w] = q]
    BY <1>4 DEF RenderOutput
  <2> HIDE DEF q
  <2> QED BY <1>1, <1>4, <2>3, <2>4 DEF RenderOutput
<1>5. CASE DownloadFails(w)
  BY <1>1, <1>5 DEF DownloadFails
<1> QED BY <1>2, <1>3, <1>4, <1>5, InsertOutputType DEF Download

\* The requests that produce an output, and the downloads, write nothing else.
WritesOutput == \/ \E r \in Request : ProduceOutput(r)
                \/ \E w \in Downloader : Download(w)

LEMMA OutputWriters ==
  ASSUME TypeOK, WritesOutput
  PROVE  /\ db'.app = db.app /\ db'.task = db.task /\ db'.query = db.query
         /\ db'.decision = db.decision /\ db'.audit = db.audit
<1>1. ASSUME NEW w \in Downloader, Download(w)
      PROVE  db' = db \/ AddsOutput(db, db')
  BY <1>1, InsertOutputAdds
     DEF Download, AskDownload, CheckOutput, RenderOutput, DownloadFails
<1>2. db' = db \/ AddsOutput(db, db')
  BY <1>1, ProduceOutputAdds DEF WritesOutput
<1>3. db \in Tables
  BY DEF TypeOK
<1> QED BY <1>2, <1>3, AddsOutputType

LEMMA DownloadLeaves ==
  ASSUME NEW w \in Downloader, Download(w)
  PROVE  UNCHANGED <<req, resp>>
BY DEF Download, AskDownload, CheckOutput, RenderOutput, InsertOutput,
       DownloadFails

LEMMA TypeStep ==
  ASSUME TypeOK, [Next]_vars
  PROVE  TypeOK'
<1>1. CASE UNCHANGED vars
  BY <1>1 DEF vars, TypeOK
<1>2. ASSUME NEW r \in Request,
             \/ ClaimRefused(r) \/ ActRefused(r) \/ RequestFails(r)
      PROVE  TypeOK'
  <2>1. UNCHANGED <<db, resp, down>> /\ req' = [req EXCEPT ![r] = IdleRequest]
    BY <1>2 DEF ClaimRefused, ActRefused, RequestFails
  <2> QED BY <2>1 DEF TypeOK
<1>3. ASSUME NEW c \in Responder, RespondFails(c)
      PROVE  TypeOK'
  BY <1>3 DEF RespondFails, TypeOK
<1>4. CASE Next
  BY <1>2, <1>3, <1>4, SubmitType, AssignTaskType, ReceiveType, ClaimType,
     ActType, ProduceOutputType, CloseType, ReadForResponseType,
     CheckQueryType, RespondType, DownloadType DEF Next, Serve
<1> QED BY <1>1, <1>4

\* The tables, the requests and the responses always have the shape the code
\* gives them.
THEOREM TypeCorrect == Spec => []TypeOK
<1>1. Init => TypeOK
  <2> SUFFICES ASSUME Init
               PROVE  TypeOK
    OBVIOUS
  <2>1. db \in Tables
    BY EmptySeq DEF Init, Tables, Row, State, SystemState
  <2> QED BY <2>1 DEF Init, TypeOK
<1>2. TypeOK /\ [Next]_vars => TypeOK'
  BY TypeStep
<1> QED BY <1>1, <1>2, PTL DEF Spec

(***************************************************************************)
(* No dead end.                                                            *)
(***************************************************************************)
\* Task i is open, of application a and of stage s.
OpenAt(tasks, i, a, s) ==
  /\ i \in DOMAIN tasks
  /\ tasks[i].app = a /\ tasks[i].stage = s /\ tasks[i].status \in OpenStatus

LEMMA NoDeadEndIs ==
  NoDeadEnd <=> \A a \in App : db.app[a].state \in Stage =>
                  \E i : OpenAt(db.task, i, a, db.app[a].state)
BY DEF NoDeadEnd, OpenAt, OpenTasks

\* The next task is appended; the tasks before it stay as they are.
LEMMA WithNextTaskKeeps ==
  ASSUME NEW d \in Tables, NEW a \in App, NEW tr
  PROVE  /\ DOMAIN d.task \subseteq DOMAIN WithNextTask(d, a, tr)
         /\ \A i \in DOMAIN d.task : WithNextTask(d, a, tr)[i] = d.task[i]
         /\ NeedsTask(d, a, tr) =>
              \E i \in DOMAIN WithNextTask(d, a, tr) :
                WithNextTask(d, a, tr)[i] =
                  [app |-> a, stage |-> tr.to, status |-> "PENDING",
                   assignee |-> None]
<1>1. d.task \in Seq(Task)
  BY DEF Tables
<1>2. CASE NeedsTask(d, a, tr)
  <2> DEFINE t == [app |-> a, stage |-> tr.to, status |-> "PENDING",
                   assignee |-> None]
  <2>1. t \in Task
    BY <1>2 DEF NeedsTask, Task, OpenStatus
  <2>2. WithNextTask(d, a, tr) = Append(d.task, t)
    BY <1>2 DEF WithNextTask
  <2> HIDE DEF t
  <2>3. /\ Append(d.task, t) \in Seq(Task)
        /\ Len(Append(d.task, t)) = Len(d.task) + 1
        /\ \A i \in 1..Len(d.task) : Append(d.task, t)[i] = d.task[i]
        /\ Append(d.task, t)[Len(d.task) + 1] = t
    BY <1>1, <2>1, AppendProperties
  <2>4. /\ DOMAIN d.task = 1..Len(d.task) /\ Len(d.task) \in Nat
        /\ DOMAIN Append(d.task, t) = 1..(Len(d.task) + 1)
    BY <1>1, <2>3, LenProperties
  <2> QED BY <2>2, <2>3, <2>4 DEF t
<1>3. CASE ~NeedsTask(d, a, tr)
  BY <1>1, <1>3 DEF WithNextTask
<1> QED BY <1>2, <1>3

\* A transition into a stage leaves an open task of that stage: the one it
\* appends has no assignee, so completing the officer's tasks spares it.
LEMMA FireOpensTask ==
  ASSUME NEW d \in Tables, NEW a \in App, NEW tr \in Transition,
         NEW o \in Actor, NEW pay, tr.to \in Stage,
         o # None => tr.from \in Stage
  PROVE  \E i : OpenAt(Fire(d, a, tr, o, pay).task, i, a, tr.to)
<1> DEFINE ts == WithNextTask(d, a, tr)
<1>1. Fire(d, a, tr, o, pay).task = Completed(ts, a, o)
  BY DEF Fire
<1>2. CASE NeedsTask(d, a, tr)
  <2>1. PICK i \in DOMAIN ts : ts[i] = [app |-> a, stage |-> tr.to,
                                        status |-> "PENDING", assignee |-> None]
    BY <1>2, WithNextTaskKeeps
  <2>2. Completed(ts, a, o)[i] = ts[i] /\ i \in DOMAIN Completed(ts, a, o)
    BY <2>1 DEF Completed
  <2>3. OpenAt(Completed(ts, a, o), i, a, tr.to)
    <3> HIDE DEF ts
    <3> QED BY <2>1, <2>2 DEF OpenAt, OpenStatus
  <2>4. OpenAt(Fire(d, a, tr, o, pay).task, i, a, tr.to)
    BY <1>1, <2>3
  <2> QED BY <2>4
<1>3. CASE ~NeedsTask(d, a, tr)
  <2>1. o = None
    BY <1>3, PackAssumption DEF NeedsTask
  <2>2. PICK i \in OpenTasks(d, a) : d.task[i].stage = tr.to
    BY <1>3 DEF NeedsTask
  <2>3. ts = d.task
    BY <1>3 DEF WithNextTask
  <2>4. OpenAt(d.task, i, a, tr.to)
    BY <2>2 DEF OpenAt, OpenTasks
  <2>5. OpenAt(Completed(d.task, a, o), i, a, tr.to)
    BY <2>1, <2>4 DEF Completed, OpenAt
  <2> QED BY <1>1, <2>3, <2>5
<1> QED BY <1>2, <1>3

\* The tasks of every other application are left alone.
LEMMA FireKeepsOthers ==
  ASSUME NEW d \in Tables, NEW a \in App, NEW b \in App, b # a,
         NEW tr, NEW o, NEW pay, NEW i, NEW s, OpenAt(d.task, i, b, s)
  PROVE  OpenAt(Fire(d, a, tr, o, pay).task, i, b, s)
<1>1. WithNextTask(d, a, tr)[i] = d.task[i] /\ i \in DOMAIN WithNextTask(d, a, tr)
  BY WithNextTaskKeeps DEF OpenAt
<1>2. Completed(WithNextTask(d, a, tr), a, o)[i] = d.task[i]
  BY <1>1 DEF Completed, OpenAt
<1> QED BY <1>1, <1>2 DEF OpenAt, Fire, Completed

\* NoDeadEnd for the applications a step does not touch, when the step opens
\* a task for the one it does.
LEMMA NoDeadEndFrom ==
  ASSUME NEW d \in Tables, NEW e, NEW a \in App, NEW tr \in Transition,
         NEW o \in Actor, NEW pay \in Payload,
         e = Fire(d, a, tr, o, pay),
         o # None => tr.from \in Stage,
         \A b \in App \ {a} : d.app[b].state \in Stage =>
           \E i : OpenAt(d.task, i, b, d.app[b].state)
  PROVE  \A b \in App : e.app[b].state \in Stage =>
           \E i : OpenAt(e.task, i, b, e.app[b].state)
<1>1. e.app = [d.app EXCEPT ![a] = RowAfter(d.app[a], tr, pay)]
  BY DEF Fire
<1>2. d.app \in [App -> Row]
  BY DEF Tables
<1>3. e.app[a].state = tr.to
  BY <1>1, <1>2 DEF RowAfter
<1>4. e.app[a].state \in Stage => \E i : OpenAt(e.task, i, a, e.app[a].state)
  BY <1>3, FireOpensTask
<1>5. ASSUME NEW b \in App, b # a, e.app[b].state \in Stage
      PROVE  \E i : OpenAt(e.task, i, b, e.app[b].state)
  <2>1. e.app[b] = d.app[b]
    BY <1>1, <1>2, <1>5
  <2>2. PICK i : OpenAt(d.task, i, b, d.app[b].state)
    BY <1>5, <2>1
  <2>3. OpenAt(e.task, i, b, d.app[b].state)
    BY <1>5, <2>2, FireKeepsOthers
  <2> QED BY <2>1, <2>3
<1> QED BY <1>4, <1>5

LEMMA NoDeadEndFromBoth ==
  ASSUME NEW d \in Tables, NEW e, NEW a \in App,
         NEW first \in Transition, NEW second \in Transition,
         FireBoth(d, e, a, first, second),
         first.to \notin Decided, second.to \notin Decided,
         \A b \in App \ {a} : d.app[b].state \in Stage =>
           \E i : OpenAt(d.task, i, b, d.app[b].state)
  PROVE  \A b \in App : e.app[b].state \in Stage =>
           \E i : OpenAt(e.task, i, b, e.app[b].state)
<1> DEFINE mid == Fire(d, a, first, None, NoPayload)
<1>1. NoPayload \in Payload /\ None \in Actor
  BY DEF NoPayload, Payload, Actor
<1>2. mid \in Tables
  BY <1>1, FireType
<1>3. e = Fire(mid, a, second, None, NoPayload)
  BY DEF FireBoth
<1>4. \A b \in App : mid.app[b].state \in Stage =>
        \E i : OpenAt(mid.task, i, b, mid.app[b].state)
  BY <1>1, NoDeadEndFrom
<1> QED
  <2> HIDE DEF mid
  <2> QED BY <1>1, <1>2, <1>3, <1>4, NoDeadEndFrom

\* Opening, claiming or starting a task keeps every open task open.
LEMMA NoDeadEndKept ==
  ASSUME TypeOK, NoDeadEnd, db'.app = db.app,
         NEW i, NEW t,
         db'.task = [db.task EXCEPT ![i] = t],
         i \in DOMAIN db.task => /\ t.app = db.task[i].app
                                /\ t.stage = db.task[i].stage
                                /\ t.status \in OpenStatus
  PROVE  NoDeadEnd'
<1>1. ASSUME NEW j, NEW b, NEW s, OpenAt(db.task, j, b, s)
      PROVE  OpenAt(db'.task, j, b, s)
  BY <1>1 DEF OpenAt
<1>2. \A a \in App : db.app[a].state \in Stage =>
        \E j : OpenAt(db.task, j, a, db.app[a].state)
  BY NoDeadEndIs
<1>3. \A a \in App : db'.app[a].state \in Stage =>
        \E j : OpenAt(db'.task, j, a, db'.app[a].state)
  BY <1>1, <1>2
<1> QED BY <1>3 DEF NoDeadEnd, OpenAt, OpenTasks

LEMMA NoDeadEndStep ==
  ASSUME TypeOK, NoDeadEnd, [Next]_vars
  PROVE  NoDeadEnd'
<1> USE DEF TypeOK
<1>0. \A b \in App : db.app[b].state \in Stage =>
        \E i : OpenAt(db.task, i, b, db.app[b].state)
  BY NoDeadEndIs
<1>1. NoDeadEnd' <=> \A a \in App : db'.app[a].state \in Stage =>
                       \E i : OpenAt(db'.task, i, a, db'.app[a].state)
  BY DEF NoDeadEnd, OpenAt, OpenTasks
<1>2. CASE UNCHANGED db
  BY <1>0, <1>1, <1>2
<1>3. ASSUME NEW a \in App, Submit(a)
      PROVE  NoDeadEnd'
  BY <1>0, <1>1, <1>3, UndecidedNames, NoDeadEndFromBoth DEF Submit
<1>4. ASSUME NEW o \in Officer, NEW i \in DOMAIN db.task, AssignTask(o, i)
      PROVE  NoDeadEnd'
  <2>1. db.task[i] \in Task
    BY TaskAt DEF Tables
  <2>2. /\ db'.app = db.app
        /\ db'.task = [db.task EXCEPT ![i] = HeldBy(db.task[i], o)]
    BY <1>4 DEF AssignTask, Tables
  <2> QED BY <2>1, <2>2, NoDeadEndKept DEF HeldBy, Started, Task, OpenStatus
<1>5. ASSUME NEW r \in Request, Claim(r)
      PROVE  NoDeadEnd'
  <2> DEFINE i == req[r].task
             t == db.task[i]
  <2>1. i \in DOMAIN db.task => t \in Task
    BY TaskAt DEF Tables
  <2>2. CASE db' = db
    BY <1>2, <2>2
  <2>3. ASSUME NEW u \in {HeldBy(t, req[r].officer), Started(t)},
               db' = [db EXCEPT !.task[i] = u]
        PROVE  NoDeadEnd'
    <3>1. db'.app = db.app /\ db'.task = [db.task EXCEPT ![i] = u]
      BY <2>3 DEF Tables
    <3>2. i \in DOMAIN db.task =>
            u.app = t.app /\ u.stage = t.stage /\ u.status \in OpenStatus
      BY <2>1 DEF HeldBy, Started, Task, OpenStatus
    <3> QED BY <3>1, <3>2, NoDeadEndKept
  <2> QED BY <1>5, <2>2, <2>3 DEF Claim
<1>6. ASSUME NEW r \in Request, Act(r)
      PROVE  NoDeadEnd'
  <2>1. req[r] \in RequestState
    BY <1>6, RequestInFlight DEF Act
  <2>2. PICK tr \in Allowed(req[r]) :
          db' = Fire(db, req[r].app, tr, req[r].officer, req[r].payload)
    BY <1>6 DEF Act
  <2>3. tr \in Transition /\ tr.from \in Stage
    BY <2>1, <2>2 DEF Allowed, Requested, RequestState
  <2>4. /\ req[r].app \in App /\ req[r].officer \in Actor
        /\ req[r].payload \in Payload
    BY <2>1 DEF RequestState, Actor
  <2>5. db \in Tables
    OBVIOUS
  <2> DEFINE a == req[r].app
             o == req[r].officer
             pay == req[r].payload
  <2>6. db' = Fire(db, a, tr, o, pay)
    BY <2>2
  <2>7. a \in App /\ o \in Actor /\ pay \in Payload
    BY <2>4
  <2>8. \A b \in App : db'.app[b].state \in Stage =>
          \E i : OpenAt(db'.task, i, b, db'.app[b].state)
    <3> HIDE DEF a, o, pay
    <3> QED BY ONLY <1>0, <2>3, <2>5, <2>6, <2>7, NoDeadEndFrom
  <2> QED BY <1>1, <2>8
<1>7. CASE WritesOutput
  <2>1. db'.app = db.app /\ db'.task = db.task
    BY <1>7, OutputWriters
  <2> QED BY <1>0, <1>1, <2>1
<1>8. ASSUME NEW r \in Request, Close(r)
      PROVE  NoDeadEnd'
  <2>1. req[r] \in RequestState
    BY <1>8, RequestInFlight DEF Close
  <2>2. PICK tr \in Transition :
          db' = Fire(db, req[r].app, tr, None, NoPayload)
    BY <1>8 DEF Close
  <2>3. /\ req[r].app \in App /\ None \in Actor
        /\ NoPayload \in Payload
    BY <2>1 DEF RequestState, Actor, NoPayload, Payload
  <2>4. \A b \in App : db'.app[b].state \in Stage =>
          \E i : OpenAt(db'.task, i, b, db'.app[b].state)
    BY <1>0, <2>2, <2>3, NoDeadEndFrom
  <2> QED BY <1>1, <2>4
<1>9. ASSUME NEW c \in Responder, Respond(c)
      PROVE  NoDeadEnd'
  <2> DEFINE p == resp[c]
             d == Answered(db, p)
  <2>1. p \in ResponseState /\ p.app \in App
    BY <1>9, ResponseInFlight DEF Respond, ResponseState
  <2>2. PICK first \in Transition, second \in Transition :
          /\ first.name = "QUERY_RESPOND" /\ second.name = "RESUBMIT_ROUTE"
          /\ FireBoth(d, db', p.app, first, second)
    BY <1>9 DEF Respond
  <2>3. d \in Tables /\ d.task = db.task
        /\ d.app = [db.app EXCEPT ![p.app] = RowAnswered(@, p)]
    BY <2>1, AnsweredType
  <2>4. \A b \in App \ {p.app} : d.app[b] = db.app[b]
    BY <2>1, <2>3 DEF Tables
  <2>5. first.to \notin Decided /\ second.to \notin Decided
    BY <2>2, UndecidedNames
  <2> HIDE DEF d, p
  <2>6. \A b \in App \ {p.app} : d.app[b].state \in Stage =>
          \E i : OpenAt(d.task, i, b, d.app[b].state)
    BY <1>0, <2>3, <2>4
  <2>7. \A b \in App : db'.app[b].state \in Stage =>
          \E i : OpenAt(db'.task, i, b, db'.app[b].state)
    BY <2>1, <2>2, <2>3, <2>5, <2>6, NoDeadEndFromBoth
  <2> QED BY <1>1, <2>7
<1> QED
  BY <1>2, <1>3, <1>4, <1>5, <1>6, <1>7, <1>8, <1>9
     DEF Next, Serve, vars, Receive, ClaimRefused, ActRefused, RequestFails,
         ReadForResponse, CheckQuery, RespondFails, WritesOutput

\* An application that requires a task always has an open one, so that some
\* officer can act: whatever the pack, with or without ASSIGN_NEXT_TASK on
\* the system transitions.
THEOREM NoDeadEndAlways == Spec => []NoDeadEnd
<1>1. Init => NoDeadEnd
  BY PackAssumption DEF Init, NoDeadEnd, SystemState
<1>2. TypeOK /\ NoDeadEnd /\ [Next]_vars => NoDeadEnd'
  BY NoDeadEndStep
<1> QED BY <1>1, <1>2, TypeCorrect, PTL DEF Spec

(***************************************************************************)
(* Decision and disposal.                                                  *)
(***************************************************************************)
\* DecisionMatchesDisposal of one row and the decisions made about it.
Made(d, a) == {x \in d.decision : x.app = a}

Matches(row, made) ==
  /\ row.disposal # "NONE" <=> row.state \in Decided \cup {"CLOSED"}
  /\ row.state \in Decided => row.disposal = row.state
  /\ row.disposal # "NONE" => \E x \in made : made = {x}
  /\ \A x \in made : DisposalType(x.type) = row.disposal
  /\ row.paused => row.state = "QUERY_PENDING"

AllMatch(d) == \A a \in App : Matches(d.app[a], Made(d, a))

LEMMA AllMatchIs == DecisionMatchesDisposal <=> AllMatch(db)
BY DEF DecisionMatchesDisposal, AllMatch, Matches, Made

\* A transition from the row's own state keeps them in agreement, when a
\* decision is the one its name tells and an answer has ended the pause.
Sound(row, tr, pay) ==
  /\ tr.from = row.state
  /\ "RECORD_DECISION" \in tr.actions => pay.decision = tr.name
  /\ tr.name = "QUERY_RESPOND" => ~row.paused

LEMMA DecisionOpens ==
  ASSUME NEW row \in Row, NEW made, Matches(row, made),
         row.state \notin Decided \cup {"CLOSED"}
  PROVE  row.disposal = "NONE" /\ made = {}
BY DEF Matches, DisposalType

LEMMA StateAfter ==
  ASSUME NEW row \in Row, NEW tr \in Transition, NEW pay \in Payload
  PROVE  /\ RowAfter(row, tr, pay).state = tr.to
         /\ RowAfter(row, tr, pay).paused
              <=> (row.paused \/ ("RAISE_QUERY" \in tr.actions /\ pay.message))
         /\ RowAfter(row, tr, pay).disposal
              = IF "RECORD_DECISION" \in tr.actions
                  THEN DisposalType(pay.decision) ELSE row.disposal
BY DEF RowAfter

LEMMA RowMatches ==
  ASSUME NEW row \in Row, NEW made, NEW after, NEW tr \in Transition,
         NEW pay \in Payload, Sound(row, tr, pay), Matches(row, made),
         "RECORD_DECISION" \notin tr.actions => after = made,
         "RECORD_DECISION" \in tr.actions =>
           \E x : /\ after = made \cup {x}
                  /\ x.type = DecisionType(pay.decision)
  PROVE  Matches(RowAfter(row, tr, pay), after)
<1> DEFINE new == RowAfter(row, tr, pay)
<1>1. /\ new.state = tr.to
      /\ new.paused <=> (row.paused \/ ("RAISE_QUERY" \in tr.actions /\ pay.message))
      /\ new.disposal = IF "RECORD_DECISION" \in tr.actions
                          THEN DisposalType(pay.decision) ELSE row.disposal
  BY StateAfter
<1>2. new.paused => new.state = "QUERY_PENDING"
  <2>1. CASE row.paused
    <3>1. tr.from = "QUERY_PENDING"
      BY <2>1 DEF Sound, Matches
    <3> QED BY <2>1, <3>1, PackAssumption DEF Sound
  <2>2. CASE "RAISE_QUERY" \in tr.actions
    BY <1>1, <2>2, PackAssumption
  <2> QED BY <1>1, <2>1, <2>2
<1> HIDE DEF new
<1>3. CASE tr.to \in Decided
  <2>1. /\ "RECORD_DECISION" \in tr.actions /\ tr.from \in Stage
        /\ tr.name \in {"APPROVE", "REJECT"}
        /\ tr.to = "APPROVED" <=> tr.name = "APPROVE"
    BY <1>3, PackAssumption
  <2>2. row.state \notin Decided \cup {"CLOSED"}
    BY <2>1, PackAssumption DEF Sound, SystemState, Decided
  <2>3. made = {}
    BY <2>2, DecisionOpens
  <2>4. new.disposal = tr.to
    BY <1>1, <1>3, <2>1 DEF Sound, DisposalType, Decided
  <2>5. PICK x : after = {x} /\ x.type = DecisionType(pay.decision)
    BY <2>1, <2>3
  <2>6. DisposalType(x.type) = tr.to
    BY <1>3, <2>1, <2>5 DEF Sound, DisposalType, DecisionType, Decided
  <2>7. tr.to # "NONE"
    BY <1>3 DEF Decided
  <2>8. Matches(new, after)
    BY ONLY <1>1, <1>2, <1>3, <2>4, <2>5, <2>6, <2>7 DEF Matches
  <2> QED BY <2>8 DEF new
<1>4. CASE tr.to \notin Decided
  <2>1. "RECORD_DECISION" \notin tr.actions
    BY <1>4, PackAssumption
  <2>2. new.disposal = row.disposal /\ after = made
    BY <1>1, <2>1
  <2>3. tr.to = "CLOSED" <=> row.state \in Decided \cup {"CLOSED"}
    BY PackAssumption DEF Sound
  <2>4. Matches(new, after)
    BY ONLY <1>1, <1>2, <1>4, <2>2, <2>3, Matches(row, made) DEF Matches
  <2> QED BY <2>4 DEF new
<1> QED BY <1>3, <1>4

LEMMA FireMatches ==
  ASSUME NEW d \in Tables, NEW a \in App, NEW tr \in Transition, NEW o,
         NEW pay \in Payload, AllMatch(d), Sound(d.app[a], tr, pay)
  PROVE  AllMatch(Fire(d, a, tr, o, pay))
<1> DEFINE e == Fire(d, a, tr, o, pay)
<1>1. /\ e.app = [d.app EXCEPT ![a] = RowAfter(d.app[a], tr, pay)]
      /\ e.decision = DecisionsAfter(d, a, tr, o, pay)
  BY DEF Fire
<1>2. d.app \in [App -> Row]
  BY DEF Tables
<1> DEFINE x == [app |-> a, type |-> DecisionType(pay.decision),
                 by |-> o, task |-> ActiveTask(d, a)]
<1>3. x.app = a /\ x.type = DecisionType(pay.decision)
  OBVIOUS
<1>4. e.decision = IF "RECORD_DECISION" \in tr.actions
                     THEN d.decision \cup {x} ELSE d.decision
  BY <1>1 DEF DecisionsAfter
<1> HIDE DEF e, x
<1>5. ASSUME NEW b \in App, b # a
      PROVE  Matches(e.app[b], Made(e, b))
  <2>1. e.app[b] = d.app[b]
    BY <1>1, <1>2, <1>5
  <2>2. Made(e, b) = Made(d, b)
    BY <1>3, <1>4, <1>5 DEF Made
  <2> QED BY <2>1, <2>2 DEF AllMatch
<1>6. Matches(e.app[a], Made(e, a))
  <2>1. e.app[a] = RowAfter(d.app[a], tr, pay) /\ d.app[a] \in Row
    BY <1>1, <1>2
  <2>2. Matches(d.app[a], Made(d, a))
    BY DEF AllMatch
  <2>3. /\ "RECORD_DECISION" \notin tr.actions => Made(e, a) = Made(d, a)
        /\ "RECORD_DECISION" \in tr.actions => Made(e, a) = Made(d, a) \cup {x}
    BY <1>3, <1>4 DEF Made
  <2> QED BY <1>3, <2>1, <2>2, <2>3, RowMatches
<1>7. AllMatch(e)
  BY <1>5, <1>6 DEF AllMatch
<1> QED BY <1>7 DEF e

\* The citizen's and the system's transitions record no decision.
LEMMA RecordsNothing ==
  ASSUME NEW tr \in Transition, tr.to \notin Decided
  PROVE  "RECORD_DECISION" \notin tr.actions
BY PackAssumption

\* A transition of the citizen or the system, from the row's own state.
LEMMA SoundBySystem ==
  ASSUME NEW d, NEW a, NEW tr \in Transition, NEW actorType, NEW roles,
         Permitted(d, a, tr, actorType, roles), tr.to \notin Decided,
         tr.name = "QUERY_RESPOND" => ~d.app[a].paused
  PROVE  Sound(d.app[a], tr, NoPayload)
BY RecordsNothing DEF Sound, Permitted

LEMMA FireBothMatches ==
  ASSUME NEW d \in Tables, NEW e, NEW a \in App,
         NEW first \in Transition, NEW second \in Transition,
         FireBoth(d, e, a, first, second), AllMatch(d),
         first.to \notin Decided, second.to \notin Decided,
         first.name = "QUERY_RESPOND" => ~d.app[a].paused,
         second.name # "QUERY_RESPOND"
  PROVE  AllMatch(e)
<1> DEFINE mid == Fire(d, a, first, None, NoPayload)
<1>1. NoPayload \in Payload /\ None \in Actor
  BY DEF NoPayload, Payload, Actor
<1>2. /\ Permitted(d, a, first, "CITIZEN", {})
      /\ Permitted(mid, a, second, "SYSTEM", {})
      /\ e = Fire(mid, a, second, None, NoPayload)
  BY DEF FireBoth
<1>3. Sound(d.app[a], first, NoPayload)
  BY <1>2, SoundBySystem
<1>4. mid \in Tables /\ AllMatch(mid)
  BY <1>1, <1>3, FireType, FireMatches
<1> HIDE DEF mid
<1>5. Sound(mid.app[a], second, NoPayload)
  BY <1>2, SoundBySystem
<1> QED BY <1>1, <1>2, <1>4, <1>5, FireMatches

\* The writes of an answer end the pause and leave the rest as it is.
LEMMA AnsweredMatches ==
  ASSUME NEW d \in Tables, NEW p \in ResponseState, AllMatch(d)
  PROVE  AllMatch(Answered(d, p)) /\ ~Answered(d, p).app[p.app].paused
<1> DEFINE e == Answered(d, p)
<1>1. /\ e.app = [d.app EXCEPT ![p.app] = RowAnswered(d.app[p.app], p)]
      /\ e.decision = d.decision
  BY AnsweredType
<1>2. d.app \in [App -> Row] /\ p.app \in App
  BY DEF Tables, ResponseState
<1> HIDE DEF e
<1> DEFINE row == d.app[p.app]
<1>3. /\ RowAnswered(row, p).state = row.state
      /\ RowAnswered(row, p).disposal = row.disposal
      /\ ~RowAnswered(row, p).paused
  <2>1. row \in Row
    BY <1>2
  <2> QED BY <2>1 DEF RowAnswered, Row
<1>4. ASSUME NEW b \in App
      PROVE  Matches(e.app[b], Made(e, b))
  <2>1. Made(e, b) = Made(d, b) /\ Matches(d.app[b], Made(d, b))
    BY <1>1 DEF Made, AllMatch
  <2>2. CASE b # p.app
    BY <1>1, <1>2, <2>1, <2>2
  <2>3. CASE b = p.app
    <3>1. e.app[b] = RowAnswered(row, p) /\ row = d.app[b]
      BY <1>1, <1>2, <2>3
    <3> HIDE DEF row
    <3> QED BY ONLY <1>3, <2>1, <3>1 DEF Matches
  <2> QED BY <2>2, <2>3
<1>5. ~e.app[p.app].paused
  BY <1>1, <1>2, <1>3
<1>6. AllMatch(e)
  BY <1>4 DEF AllMatch
<1> QED BY <1>5, <1>6 DEF e

\* An officer's request fires the transition it names.
LEMMA ActFires ==
  ASSUME TypeOK, NEW r \in Request, Act(r)
  PROVE  \E tr \in Transition :
           /\ db' = Fire(db, req[r].app, tr, req[r].officer, req[r].payload)
           /\ Permitted(db, req[r].app, tr, "OFFICER", RolesOf[req[r].officer])
           /\ tr.from \in Stage /\ tr.name = req[r].payload.decision
           /\ req' = [req EXCEPT ![r] = IF tr.to \in Decided
                        THEN [req[r] EXCEPT !.pc = "decided"] ELSE IdleRequest]
<1>1. req[r] \in RequestState
  BY RequestInFlight DEF Act
<1> QED BY <1>1 DEF Act, Allowed, Requested, RequestState

\* The closing transition of a request.
LEMMA CloseFires ==
  ASSUME TypeOK, NEW r \in Request, Close(r)
  PROVE  \E tr \in Transition :
           /\ db' = Fire(db, req[r].app, tr, None, NoPayload)
           /\ Permitted(db, req[r].app, tr, "SYSTEM", {})
           /\ tr.name \in {"CLOSE_APPROVED", "CLOSE_REJECTED"}
           /\ tr.to \notin Decided /\ tr.from \notin Stage
BY UndecidedNames DEF Close, ClosingName

\* Tables whose rows and decisions a step leaves alone.
LEMMA MatchesKept ==
  ASSUME AllMatch(db), db'.app = db.app, db'.decision = db.decision
  PROVE  DecisionMatchesDisposal'
BY DEF AllMatch, Made, Matches, DecisionMatchesDisposal

LEMMA MatchesIsNext ==
  ASSUME AllMatch(db')
  PROVE  DecisionMatchesDisposal'
BY DEF AllMatch, Made, Matches, DecisionMatchesDisposal

LEMMA MatchesStep ==
  ASSUME TypeOK, DecisionMatchesDisposal, [Next]_vars
  PROVE  DecisionMatchesDisposal'
<1>0. AllMatch(db) /\ db \in Tables
  BY AllMatchIs DEF TypeOK
<1>1. CASE UNCHANGED db
  BY <1>0, <1>1, MatchesKept
<1>2. ASSUME NEW a \in App, Submit(a)
      PROVE  DecisionMatchesDisposal'
  <2>1. AllMatch(db')
    BY <1>0, <1>2, UndecidedNames, FireBothMatches DEF Submit
  <2> QED BY <2>1, MatchesIsNext
<1>3. ASSUME NEW o \in Officer, NEW i \in DOMAIN db.task, AssignTask(o, i)
      PROVE  DecisionMatchesDisposal'
  <2>1. db'.app = db.app /\ db'.decision = db.decision
    BY <1>3 DEF AssignTask, TypeOK, Tables
  <2> QED BY <1>0, <2>1, MatchesKept
<1>4. ASSUME NEW r \in Request, Claim(r)
      PROVE  DecisionMatchesDisposal'
  <2>1. db'.app = db.app /\ db'.decision = db.decision
    BY <1>4 DEF Claim, TypeOK, Tables
  <2> QED BY <1>0, <2>1, MatchesKept
<1>5. ASSUME NEW r \in Request, Act(r)
      PROVE  DecisionMatchesDisposal'
  <2> DEFINE q == req[r]
  <2>1. q.app \in App /\ q.officer \in Officer /\ q.payload \in Payload
    BY <1>5, RequestInFlight DEF Act, RequestState
  <2>2. PICK tr \in Transition :
          /\ db' = Fire(db, q.app, tr, q.officer, q.payload)
          /\ Permitted(db, q.app, tr, "OFFICER", RolesOf[q.officer])
          /\ tr.from \in Stage /\ tr.name = q.payload.decision
    BY <1>5, ActFires
  <2>3. Sound(db.app[q.app], tr, q.payload)
    BY <2>2, PackAssumption DEF Sound, Permitted, SystemState
  <2>4. AllMatch(db')
    BY <1>0, <2>1, <2>2, <2>3, FireMatches
  <2> QED BY <2>4, MatchesIsNext
<1>6. ASSUME NEW r \in Request, Close(r)
      PROVE  DecisionMatchesDisposal'
  <2>1. req[r].app \in App /\ NoPayload \in Payload
    BY <1>6, RequestInFlight DEF Close, RequestState, NoPayload, Payload
  <2>2. AllMatch(db')
    BY <1>0, <1>6, <2>1, CloseFires, SoundBySystem, FireMatches
  <2> QED BY <2>2, MatchesIsNext
<1>7. ASSUME NEW c \in Responder, Respond(c)
      PROVE  DecisionMatchesDisposal'
  <2> DEFINE p == resp[c]
  <2>1. p \in ResponseState /\ p.app \in App
    BY <1>7, ResponseInFlight DEF Respond, ResponseState
  <2>2. PICK first \in Transition, second \in Transition :
          /\ first.name = "QUERY_RESPOND" /\ second.name = "RESUBMIT_ROUTE"
          /\ FireBoth(Answered(db, p), db', p.app, first, second)
    BY <1>7 DEF Respond
  <2> HIDE DEF p
  <2>3. /\ Answered(db, p) \in Tables /\ AllMatch(Answered(db, p))
        /\ ~Answered(db, p).app[p.app].paused
    BY <1>0, <2>1, AnsweredType, AnsweredMatches
  <2>4. AllMatch(db')
    BY <2>1, <2>2, <2>3, UndecidedNames, FireBothMatches
  <2> QED BY <2>4, MatchesIsNext
<1>8. CASE WritesOutput
  BY <1>0, <1>8, OutputWriters, MatchesKept
<1> QED
  BY <1>1, <1>2, <1>3, <1>4, <1>5, <1>6, <1>7, <1>8
     DEF Next, Serve, vars, Receive, ClaimRefused, ActRefused, RequestFails,
         ReadForResponse, CheckQuery, RespondFails, WritesOutput

\* However the requests of several officers interleave, an application has
\* one decision record exactly when it was disposed, and record, disposal and
\* state agree.
THEOREM DecisionAlwaysMatches == Spec => []DecisionMatchesDisposal
<1>1. Init => DecisionMatchesDisposal
  BY DEF Init, DecisionMatchesDisposal, Decided
<1>2. TypeOK /\ DecisionMatchesDisposal /\ [Next]_vars => DecisionMatchesDisposal'
  BY MatchesStep
<1> QED BY <1>1, <1>2, TypeCorrect, PTL DEF Spec

(***************************************************************************)
(* One output.                                                             *)
(***************************************************************************)
\* A disposal, once given, is never replaced.
DisposalKept(d, e) ==
  \A a \in App : d.app[a].disposal # "NONE" =>
    e.app[a].disposal = d.app[a].disposal

LEMMA FireKeepsDisposal ==
  ASSUME NEW d \in Tables, NEW a \in App, NEW tr \in Transition, NEW o,
         NEW pay \in Payload, AllMatch(d), tr.from = d.app[a].state
  PROVE  /\ DisposalKept(d, Fire(d, a, tr, o, pay))
         /\ Fire(d, a, tr, o, pay).output = d.output
         /\ Fire(d, a, tr, o, pay).locker = d.locker
<1> DEFINE e == Fire(d, a, tr, o, pay)
<1>1. /\ e.app = [d.app EXCEPT ![a] = RowAfter(d.app[a], tr, pay)]
      /\ e.output = d.output /\ e.locker = d.locker
  BY DEF Fire
<1>2. d.app \in [App -> Row]
  BY DEF Tables
<1> HIDE DEF e
<1>3. ASSUME NEW b \in App, d.app[b].disposal # "NONE"
      PROVE  e.app[b].disposal = d.app[b].disposal
  <2>1. CASE b # a
    BY <1>1, <1>2, <2>1
  <2>2. CASE b = a
    <3>1. e.app[b].disposal = IF "RECORD_DECISION" \in tr.actions
                                THEN DisposalType(pay.decision)
                                ELSE d.app[b].disposal
      BY <1>1, <1>2, <2>2, StateAfter
    <3>2. d.app[b].state \in Decided \cup {"CLOSED"}
      BY <1>2, <1>3, DecisionOpens DEF AllMatch
    <3>3. "RECORD_DECISION" \notin tr.actions
      BY <2>2, <3>2, PackAssumption DEF Decided, SystemState
    <3> QED BY <3>1, <3>3
  <2> QED BY <2>1, <2>2
<1>4. DisposalKept(d, e)
  BY <1>3 DEF DisposalKept
<1> QED BY <1>1, <1>4 DEF e

LEMMA FireBothKeepsDisposal ==
  ASSUME NEW d \in Tables, NEW e, NEW a \in App,
         NEW first \in Transition, NEW second \in Transition,
         FireBoth(d, e, a, first, second), AllMatch(d),
         first.to \notin Decided,
         first.name = "QUERY_RESPOND" => ~d.app[a].paused
  PROVE  DisposalKept(d, e) /\ e.output = d.output /\ e.locker = d.locker
<1> DEFINE mid == Fire(d, a, first, None, NoPayload)
<1>1. NoPayload \in Payload /\ None \in Actor
  BY DEF NoPayload, Payload, Actor
<1>2. /\ Permitted(d, a, first, "CITIZEN", {})
      /\ Permitted(mid, a, second, "SYSTEM", {})
      /\ e = Fire(mid, a, second, None, NoPayload)
  BY DEF FireBoth
<1>3. mid \in Tables /\ AllMatch(mid)
  BY <1>1, <1>2, SoundBySystem, FireType, FireMatches
<1>4. /\ DisposalKept(d, mid)
      /\ mid.output = d.output /\ mid.locker = d.locker
  BY <1>1, <1>2, FireKeepsDisposal DEF Permitted
<1> HIDE DEF mid
<1>5. /\ DisposalKept(mid, e)
      /\ e.output = mid.output /\ e.locker = mid.locker
  BY <1>1, <1>2, <1>3, FireKeepsDisposal DEF Permitted
<1> QED BY <1>4, <1>5 DEF DisposalKept

\* What a step may do to the outputs: nothing, unless it produces one.
LEMMA OutputsStep ==
  ASSUME TypeOK, DecisionMatchesDisposal, [Next]_vars
  PROVE  /\ DisposalKept(db, db')
         /\ ~WritesOutput =>
              db'.output = db.output /\ db'.locker = db.locker
<1>0. AllMatch(db) /\ db \in Tables
  BY AllMatchIs DEF TypeOK
<1> DEFINE Kept == /\ DisposalKept(db, db')
                   /\ db'.output = db.output /\ db'.locker = db.locker
<1>1. CASE UNCHANGED db
  BY <1>1 DEF DisposalKept
<1>2. ASSUME NEW a \in App, Submit(a)
      PROVE  Kept
  BY <1>0, <1>2, UndecidedNames, FireBothKeepsDisposal DEF Submit
<1>3. ASSUME NEW o \in Officer, NEW i \in DOMAIN db.task, AssignTask(o, i)
      PROVE  Kept
  BY <1>0, <1>3 DEF AssignTask, Tables, DisposalKept
<1>4. ASSUME NEW r \in Request, Claim(r)
      PROVE  Kept
  BY <1>0, <1>4 DEF Claim, Tables, DisposalKept
<1>5. CASE WritesOutput
  BY <1>5, OutputWriters DEF DisposalKept
<1>6. ASSUME NEW r \in Request, Act(r)
      PROVE  Kept
  <2> DEFINE q == req[r]
  <2>1. q.app \in App /\ q.officer \in Officer /\ q.payload \in Payload
    BY <1>6, RequestInFlight DEF Act, RequestState
  <2>2. PICK tr \in Transition :
          /\ db' = Fire(db, q.app, tr, q.officer, q.payload)
          /\ tr.from = db.app[q.app].state
    BY <1>6, ActFires DEF Permitted
  <2> HIDE DEF q
  <2> QED BY <1>0, <2>1, <2>2, FireKeepsDisposal
<1>7. ASSUME NEW r \in Request, Close(r)
      PROVE  Kept
  <2>1. req[r].app \in App /\ NoPayload \in Payload
    BY <1>7, RequestInFlight DEF Close, RequestState, NoPayload, Payload
  <2>2. PICK tr \in Transition :
          /\ db' = Fire(db, req[r].app, tr, None, NoPayload)
          /\ tr.from = db.app[req[r].app].state
    BY <1>7, CloseFires DEF Permitted
  <2> QED BY <1>0, <2>1, <2>2, FireKeepsDisposal
<1>8. ASSUME NEW c \in Responder, Respond(c)
      PROVE  Kept
  <2> DEFINE p == resp[c]
             d == Answered(db, p)
  <2>1. p \in ResponseState /\ p.app \in App
    BY <1>8, ResponseInFlight DEF Respond, ResponseState
  <2>2. PICK first \in Transition, second \in Transition :
          /\ first.name = "QUERY_RESPOND" /\ second.name = "RESUBMIT_ROUTE"
          /\ FireBoth(d, db', p.app, first, second)
    BY <1>8 DEF Respond
  <2>3. d \in Tables /\ AllMatch(d) /\ ~d.app[p.app].paused
    BY <1>0, <2>1, AnsweredType, AnsweredMatches
  <2>4. /\ d.output = db.output /\ d.locker = db.locker
        /\ d.app = [db.app EXCEPT ![p.app] = RowAnswered(db.app[p.app], p)]
    BY <1>0, <2>1, AnsweredType DEF Answered, Tables
  <2>5. DisposalKept(db, d)
    <3>1. db.app \in [App -> Row]
      BY <1>0 DEF Tables
    <3>2. \A row \in Row : RowAnswered(row, p).disposal = row.disposal
      BY DEF RowAnswered, Row
    <3> HIDE DEF d, p
    <3> QED BY <2>1, <2>4, <3>1, <3>2 DEF DisposalKept
  <2> HIDE DEF d, p
  <2>6. DisposalKept(d, db') /\ db'.output = d.output /\ db'.locker = d.locker
    BY <2>1, <2>2, <2>3, UndecidedNames, FireBothKeepsDisposal
  <2> QED BY <2>4, <2>5, <2>6 DEF DisposalKept
<1> QED
  BY <1>1, <1>2, <1>3, <1>4, <1>5, <1>6, <1>7, <1>8
     DEF Next, Serve, vars, Receive, ClaimRefused, ActRefused, RequestFails,
         ReadForResponse, CheckQuery, RespondFails, WritesOutput

\* The outputs of one application, as OutputsAccountedFor has them.
Accounted(row, disposal) ==
  row.says = disposal \/ (row.by # None /\ row.says = "APPROVED")
OutputOf(d, a) ==
  /\ \A i, j \in DOMAIN d.output[a] :
       d.output[a][i].by = d.output[a][j].by => i = j
  /\ \A i \in DOMAIN d.output[a] :
       Accounted(d.output[a][i], d.app[a].disposal)
  /\ d.locker[a] <= Len(d.output[a])

\* Application a has no output by x yet.
NoneBy(d, a, x) == \A i \in DOMAIN d.output[a] : d.output[a][i].by # x

\* A request about to produce the output of its application is the only one,
\* and finds it disposed and without an output of a decision.
Producing(r) == req[r].pc = "decided"
OneProducer ==
  /\ \A r \in Request : Producing(r) =>
       /\ db.app[req[r].app].disposal # "NONE"
       /\ NoneBy(db, req[r].app, None)
  /\ \A r, s \in Request :
       Producing(r) /\ Producing(s) /\ r # s => req[r].app # req[s].app

\* A download that found no output makes the first of its slot, and what it
\* has rendered, of an undecided application or of a decided one, stays
\* accounted for.
Making(w) == down[w].pc \in {"needed", "rendered"}
DownloadsInv ==
  \A w \in Downloader : Making(w) =>
    /\ NoneBy(db, down[w].app, w)
    /\ down[w].pc = "rendered" =>
         down[w].says \in {"APPROVED", db.app[down[w].app].disposal}

OutputInv == (\A a \in App : OutputOf(db, a)) /\ OneProducer /\ DownloadsInv

LEMMA OutputInvImplies == OutputInv => OutputsAccountedFor
BY DEF OutputInv, OutputOf, Accounted, OutputsAccountedFor

\* One more output, the first of its slot or of a decision.
LEMMA OutputAdded ==
  ASSUME NEW d \in Tables, NEW e, NEW a \in App, NEW says \in Decided,
         NEW by \in Downloader \cup {None}, NEW n \in {0, 1},
         e = WithOutput(d, a, says, by, n), \A b \in App : OutputOf(d, b),
         NoneBy(d, a, by), Accounted([says |-> says, by |-> by], d.app[a].disposal)
  PROVE  /\ \A b \in App : OutputOf(e, b)
         /\ \A b \in App : \A x : (b # a \/ x # by) /\ NoneBy(d, b, x) =>
              NoneBy(e, b, x)
<1> DEFINE row == [says |-> says, by |-> by]
           old == d.output[a]
           new == Append(old, row)
<1>1. /\ d.output \in [App -> Seq(Output)] /\ d.locker \in [App -> Nat]
      /\ old \in Seq(Output) /\ row \in Output
  BY DEF Tables, Output
<1>2. e.app = d.app
  BY WithOutputType
<1>3. /\ e.output[a] = new /\ e.locker[a] = d.locker[a] + n
      /\ \A b \in App \ {a} : e.output[b] = d.output[b] /\ e.locker[b] = d.locker[b]
  BY WithOutputType
<1>4. row.by = by /\ row.says = says
  OBVIOUS
<1>5. /\ Len(old) \in Nat /\ Len(new) = Len(old) + 1
      /\ DOMAIN old = 1..Len(old) /\ DOMAIN new = 1..(Len(old) + 1)
      /\ \A i \in DOMAIN old : new[i] = old[i]
      /\ new[Len(old) + 1] = row
  <2> HIDE DEF row, old
  <2>1. /\ new \in Seq(Output) /\ Len(new) = Len(old) + 1
        /\ \A i \in 1..Len(old) : new[i] = old[i]
        /\ new[Len(old) + 1] = row
    BY <1>1, AppendProperties
  <2> QED BY <1>1, <2>1, LenProperties
<1>6. /\ \A i, j \in DOMAIN old : old[i].by = old[j].by => i = j
      /\ \A i \in DOMAIN old : /\ old[i].by # by
                               /\ Accounted(old[i], d.app[a].disposal)
      /\ d.locker[a] \in Nat /\ d.locker[a] <= Len(old)
  BY <1>1 DEF OutputOf, NoneBy
<1>7. Accounted(row, d.app[a].disposal)
  OBVIOUS
<1> HIDE DEF row, old, new
<1>8. \A i \in DOMAIN new : \/ i \in DOMAIN old /\ new[i] = old[i]
                            \/ i = Len(old) + 1 /\ new[i] = row
  BY <1>5
<1>9. OutputOf(e, a)
  <2>1. \A i, j \in DOMAIN new : new[i].by = new[j].by => i = j
    BY <1>4, <1>6, <1>8
  <2>2. \A i \in DOMAIN new : Accounted(new[i], d.app[a].disposal)
    BY <1>6, <1>7, <1>8
  <2>3. d.locker[a] + n <= Len(new)
    BY <1>5, <1>6
  <2> QED BY <1>2, <1>3, <2>1, <2>2, <2>3 DEF OutputOf
<1>10. \A b \in App \ {a} : OutputOf(e, b)
  BY <1>2, <1>3 DEF OutputOf
<1>11. ASSUME NEW b \in App, NEW x, b # a \/ x # by, NoneBy(d, b, x)
       PROVE  NoneBy(e, b, x)
  <2>1. CASE b # a
    BY <1>3, <1>11, <2>1 DEF NoneBy
  <2>2. CASE b = a
    BY <1>3, <1>4, <1>8, <1>11, <2>2 DEF NoneBy, old
  <2> QED BY <2>1, <2>2
<1> QED BY <1>9, <1>10, <1>11

\* A step that leaves the outputs and the disposals given as they are.
LEMMA OutputsStay ==
  ASSUME TypeOK, OutputInv, DisposalKept(db, db'),
         db'.output = db.output, db'.locker = db.locker
  PROVE  \A a \in App : OutputOf(db', a)
<1> SUFFICES ASSUME NEW a \in App PROVE OutputOf(db', a)
  OBVIOUS
<1>1. OutputOf(db, a)
  BY DEF OutputInv
<1>2. db.app[a].disposal # "NONE" => db'.app[a].disposal = db.app[a].disposal
  BY DEF DisposalKept
<1>3. \A i \in DOMAIN db.output[a] : db.output[a][i].says \in Decided
  <2>1. db.output[a] \in Seq(Output)
    BY DEF TypeOK, Tables
  <2>2. \A i \in DOMAIN db.output[a] : db.output[a][i] \in Output
    BY <2>1, LenProperties, ElementOfSeq
  <2> QED BY <2>2 DEF Output
<1>4. \A i \in DOMAIN db.output[a] :
        Accounted(db.output[a][i], db'.app[a].disposal)
  BY <1>1, <1>2, <1>3 DEF OutputOf, Accounted, Decided
<1> QED BY <1>1, <1>4 DEF OutputOf

\* So do the downloads it finds, and those that go on or begin.
LEMMA DownloadsStay ==
  ASSUME TypeOK, DownloadsInv, DisposalKept(db, db'), db'.output = db.output,
         down' = down
  PROVE  DownloadsInv'
<1> SUFFICES ASSUME NEW w \in Downloader, Making(w)
             PROVE  /\ NoneBy(db', down[w].app, w)
                    /\ down[w].pc = "rendered" =>
                         down[w].says \in {"APPROVED", db'.app[down[w].app].disposal}
  BY DEF DownloadsInv, Making
<1>1. /\ down[w].app \in App
      /\ down[w].pc = "rendered" => down[w].says \in Decided
  BY DownloadInFlight DEF Making
<1>2. NoneBy(db', down[w].app, w)
  BY DEF DownloadsInv, NoneBy
<1> QED BY <1>1, <1>2 DEF DownloadsInv, DisposalKept, Decided

\* Nobody else begins to produce.
NoNewProducer ==
  \A r \in Request : Producing(r)' => Producing(r) /\ req'[r].app = req[r].app

LEMMA ProducersStay ==
  ASSUME TypeOK, OutputInv, DisposalKept(db, db'), db'.output = db.output,
         NoNewProducer
  PROVE  OneProducer'
<1>1. \A r \in Request : Producing(r) => req[r].app \in App
  BY RequestInFlight DEF Producing, RequestState
<1>2. ASSUME NEW r \in Request, Producing(r)'
      PROVE  /\ db'.app[req'[r].app].disposal # "NONE"
             /\ NoneBy(db', req'[r].app, None)
  BY <1>1, <1>2
     DEF OutputInv, OneProducer, NoNewProducer, DisposalKept, NoneBy
<1>3. ASSUME NEW r \in Request, NEW s \in Request,
             Producing(r)', Producing(s)', r # s
      PROVE  req'[r].app # req'[s].app
  BY <1>3 DEF OutputInv, OneProducer, NoNewProducer
<1> QED BY <1>2, <1>3 DEF OneProducer

\* Every step but a decision leaves the producers alone.
LEMMA ProducersStep ==
  ASSUME TypeOK, [Next]_vars, ~\E r \in Request : Act(r)
  PROVE  NoNewProducer
<1> USE DEF NoNewProducer, Producing
<1>0. req \in [Request -> {IdleRequest} \cup RequestState] /\ IdleRequest.pc # "decided"
  BY DEF TypeOK, IdleRequest
<1>1. CASE req' = req
  BY <1>1
<1>2. ASSUME NEW r \in Request, req' = [req EXCEPT ![r] = IdleRequest]
      PROVE  NoNewProducer
  BY <1>0, <1>2
<1>3. ASSUME NEW r \in Request, NEW p \in {"claimed", "issued"}, req[r].pc # "idle",
             req' = [req EXCEPT ![r] = [req[r] EXCEPT !.pc = p]]
      PROVE  NoNewProducer
  <2>1. req[r] \in RequestState
    BY <1>3, RequestInFlight
  <2>2. [req[r] EXCEPT !.pc = p].pc # "decided"
    BY <1>3, <2>1 DEF RequestState
  <2>3. req'[r].pc # "decided" /\ \A s \in Request \ {r} : req'[s] = req[s]
    BY <1>0, <1>3, <2>2
  <2> QED BY <2>3
<1>4. ASSUME NEW r \in Request, NEW o \in Officer, NEW i \in DOMAIN db.task,
             NEW action \in TaskAction, NEW message \in BOOLEAN,
             Receive(r, o, i, action, message)
      PROVE  NoNewProducer
  <2>1. req'[r].pc = "read" /\ \A s \in Request \ {r} : req'[s] = req[s]
    BY <1>0, <1>4 DEF Receive
  <2> QED BY <2>1
<1>5. ASSUME NEW r \in Request, Claim(r)
      PROVE  NoNewProducer
  BY <1>3, <1>5 DEF Claim
<1>6. ASSUME NEW r \in Request, ProduceOutput(r)
      PROVE  NoNewProducer
  BY <1>3, <1>6 DEF ProduceOutput
<1>7. ASSUME NEW r \in Request,
             Close(r) \/ ClaimRefused(r) \/ ActRefused(r) \/ RequestFails(r)
      PROVE  NoNewProducer
  <2>1. req' = [req EXCEPT ![r] = IdleRequest]
    BY <1>7 DEF Close, ClaimRefused, ActRefused, RequestFails
  <2> QED BY <1>2, <2>1
<1>8. ASSUME NEW a \in App, Submit(a)
      PROVE  NoNewProducer
  BY <1>1, <1>8 DEF Submit
<1>9. ASSUME NEW o \in Officer, NEW i \in DOMAIN db.task, AssignTask(o, i)
      PROVE  NoNewProducer
  BY <1>1, <1>9 DEF AssignTask
<1>10. ASSUME NEW c \in Responder, CheckQuery(c) \/ Respond(c) \/ RespondFails(c)
       PROVE  NoNewProducer
  BY <1>1, <1>10 DEF CheckQuery, Respond, RespondFails
<1>11. ASSUME NEW c \in Responder, NEW i \in DOMAIN db.query,
              NEW edits \in BOOLEAN, ReadForResponse(c, i, edits)
       PROVE  NoNewProducer
  BY <1>1, <1>11 DEF ReadForResponse
<1>12. CASE UNCHANGED vars
  BY <1>1, <1>12 DEF vars
<1>13. ASSUME NEW w \in Downloader, Download(w)
       PROVE  NoNewProducer
  BY <1>1, <1>13, DownloadLeaves
<1> QED
  BY <1>4, <1>5, <1>6, <1>7, <1>8, <1>9, <1>10, <1>11, <1>12, <1>13
     DEF Next, Serve

\* The decision makes its request a producer: the application was in review,
\* so it had neither a disposal nor an output nor another producer.
LEMMA ActProduces ==
  ASSUME TypeOK, DecisionMatchesDisposal, OutputInv, NEW r \in Request, Act(r),
         DisposalKept(db, db'), db'.output = db.output
  PROVE  OneProducer'
<1> DEFINE q == req[r]
           a == q.app
<1>1. q \in RequestState /\ a \in App /\ q.payload \in Payload
  BY RequestInFlight DEF Act, RequestState
<1>2. PICK tr \in Transition :
        /\ db' = Fire(db, q.app, tr, q.officer, q.payload)
        /\ Permitted(db, q.app, tr, "OFFICER", RolesOf[q.officer])
        /\ tr.from \in Stage /\ tr.name = q.payload.decision
        /\ req' = [req EXCEPT ![r] = IF tr.to \in Decided
                     THEN [q EXCEPT !.pc = "decided"] ELSE IdleRequest]
  BY ActFires
<1>3. req \in [Request -> {IdleRequest} \cup RequestState]
  BY DEF TypeOK
<1>4. CASE tr.to \notin Decided
  <2>1. NoNewProducer
    BY <1>2, <1>3, <1>4 DEF NoNewProducer, Producing, IdleRequest
  <2> QED BY <2>1, ProducersStay
<1>5. CASE tr.to \in Decided
  <2>1. db.app[a].state = tr.from
    BY <1>2 DEF Permitted
  <2>2. db.app[a].state \notin Decided \cup {"CLOSED"}
    BY <1>2, <2>1, PackAssumption DEF Decided, SystemState
  <2>3. db.app[a].disposal = "NONE"
    BY <1>1, <2>2, AllMatchIs, DecisionOpens DEF AllMatch, TypeOK, Tables
  <2>4. NoneBy(db, a, None) /\ \A s \in Request : Producing(s) => req[s].app # a
    <3>1. db.output[a] \in Seq(Output)
      BY <1>1 DEF TypeOK, Tables
    <3>2. \A i \in DOMAIN db.output[a] : db.output[a][i] \in Output
      BY <3>1, LenProperties, ElementOfSeq
    <3>3. \A i \in DOMAIN db.output[a] : db.output[a][i].says # "NONE"
      BY <3>2 DEF Output, Decided
    <3> QED BY <1>1, <2>3, <3>3
            DEF OutputInv, OutputOf, Accounted, NoneBy, OneProducer
  <2>5. db'.app[a].disposal # "NONE"
    <3>1. db'.app = [db.app EXCEPT ![a] = RowAfter(db.app[a], tr, q.payload)]
      BY <1>2 DEF Fire
    <3>2. db.app \in [App -> Row]
      BY DEF TypeOK, Tables
    <3>3. db'.app[a] = RowAfter(db.app[a], tr, q.payload)
      BY <1>1, <3>1, <3>2
    <3>4. db'.app[a].disposal = DisposalType(q.payload.decision)
      BY <1>1, <1>5, <3>2, <3>3, StateAfter, PackAssumption
    <3> QED BY <3>4 DEF DisposalType
  <2>6. req'[r].app = a /\ \A s \in Request \ {r} : req'[s] = req[s]
    <3>1. [q EXCEPT !.pc = "decided"].app = a
      BY <1>1 DEF RequestState
    <3> QED BY <1>2, <1>3, <1>5, <3>1
  <2>7. \A s \in Request \ {r} : Producing(s)' =>
          Producing(s) /\ req'[s].app = req[s].app
    BY <2>6 DEF Producing
  <2>8. \A s \in Request : Producing(s) => req[s].app \in App
    BY RequestInFlight DEF Producing, RequestState
  <2> HIDE DEF q, a
  <2>9. ASSUME NEW s \in Request, Producing(s)'
        PROVE  /\ db'.app[req'[s].app].disposal # "NONE"
               /\ NoneBy(db', req'[s].app, None)
    <3>1. CASE s = r
      BY <2>4, <2>5, <2>6, <3>1 DEF NoneBy
    <3>2. CASE s # r
      BY <2>7, <2>8, <2>9, <3>2
         DEF OutputInv, OneProducer, DisposalKept, NoneBy
    <3> QED BY <3>1, <3>2
  <2>10. ASSUME NEW s \in Request, NEW t \in Request,
                Producing(s)', Producing(t)', s # t
         PROVE  req'[s].app # req'[t].app
    <3>1. CASE s # r /\ t # r
      BY <2>7, <2>10, <3>1 DEF OutputInv, OneProducer
    <3>2. CASE s = r \/ t = r
      BY <2>4, <2>6, <2>7, <2>10, <3>2
    <3> QED BY <3>1, <3>2
  <2> QED BY <2>9, <2>10 DEF OneProducer
<1> QED BY <1>4, <1>5

\* The one producer adds the output of its decision.
LEMMA ProduceOutputStep ==
  ASSUME TypeOK, OutputInv, NEW r \in Request, ProduceOutput(r)
  PROVE  OutputInv'
<1> DEFINE a == req[r].app
<1>1. req[r] \in RequestState /\ a \in App /\ Producing(r)
  BY RequestInFlight DEF ProduceOutput, RequestState, Producing
<1>2. /\ db.app[a].disposal # "NONE" /\ NoneBy(db, a, None)
      /\ \A s \in Request \ {r} : Producing(s) => req[s].app # a
  BY <1>1 DEF OutputInv, OneProducer
<1>3. req'[r].pc = "issued" /\ \A s \in Request \ {r} : req'[s] = req[s]
  <2>1. [req[r] EXCEPT !.pc = "issued"].pc = "issued"
    BY <1>1 DEF RequestState
  <2> QED BY <2>1 DEF ProduceOutput, TypeOK
<1>4. \A s \in Request : Producing(s)' =>
        s # r /\ Producing(s) /\ req'[s].app = req[s].app
  BY <1>3 DEF Producing
<1>5. db'.app = db.app /\ down' = down
  BY OutputWriters DEF ProduceOutput, WritesOutput
<1> DEFINE Added ==
      /\ \A b \in App : OutputOf(db', b)
      /\ \A b \in App : \A x : (b # a \/ x # None) /\ NoneBy(db, b, x) =>
           NoneBy(db', b, x)
<1>6. Added
  <2>1. CASE db' = db
    BY <2>1 DEF OutputInv
  <2>2. ASSUME NEW n \in {0, 1},
               db' = WithOutput(db, a, Says(db.app[a]), None, n)
        PROVE  Added
    <3> DEFINE says == Says(db.app[a])
    <3>1. says = db.app[a].disposal
      BY <1>2 DEF Says
    <3>2. says \in Decided /\ db \in Tables
      BY <1>1, SaysType DEF TypeOK, Tables
    <3>3. Accounted([says |-> says, by |-> None], db.app[a].disposal)
      BY <3>1 DEF Accounted
    <3> HIDE DEF a, says
    <3> QED BY <1>1, <1>2, <2>2, <3>2, <3>3, OutputAdded DEF OutputInv, says
  <2> QED BY <2>1, <2>2 DEF ProduceOutput, Issued
<1>7. \A s \in Request : Producing(s) => req[s].app \in App
  BY RequestInFlight DEF Producing, RequestState
<1>8. \A w \in Downloader : Making(w) => down[w].app \in App
  BY DownloadInFlight DEF Making
<1> HIDE DEF a
<1>9. OneProducer'
  BY <1>2, <1>4, <1>5, <1>6, <1>7 DEF OutputInv, OneProducer
<1>10. DownloadsInv'
  BY <1>5, <1>6, <1>8, ActorsAssumption DEF OutputInv, DownloadsInv, Making
<1> QED BY <1>6, <1>9, <1>10 DEF OutputInv, OutputOf

\* A download inserts what it rendered, the first output of its slot.
LEMMA InsertOutputStep ==
  ASSUME TypeOK, OutputInv, NEW w \in Downloader, InsertOutput(w)
  PROVE  OutputInv'
<1> DEFINE a == down[w].app
           says == down[w].says
<1>1. a \in App /\ says \in Decided /\ db \in Tables /\ w # None
  BY DownloadInFlight, ActorsAssumption DEF InsertOutput, TypeOK
<1>2. NoneBy(db, a, w) /\ says \in {"APPROVED", db.app[a].disposal}
  BY DEF InsertOutput, OutputInv, DownloadsInv, Making
<1>3. Accounted([says |-> says, by |-> w], db.app[a].disposal)
  BY <1>1, <1>2 DEF Accounted
<1>4. PICK n \in {0, 1} : db' = WithOutput(db, a, says, w, n)
  BY DEF InsertOutput, Issued
<1>5. /\ db'.app = db.app /\ req' = req
      /\ ~Making(w)' /\ \A v \in Downloader \ {w} : down'[v] = down[v]
  <2>1. db'.app = db.app
    BY <1>1, <1>4, WithOutputType
  <2> QED BY <2>1 DEF InsertOutput, TypeOK, Making, IdleDownload
<1> HIDE DEF a, says
<1>6. /\ \A b \in App : OutputOf(db', b)
      /\ \A b \in App : \A x : (b # a \/ x # w) /\ NoneBy(db, b, x) =>
           NoneBy(db', b, x)
  BY <1>1, <1>2, <1>3, <1>4, OutputAdded DEF OutputInv
<1>7. \A s \in Request : Producing(s) => req[s].app \in App
  BY RequestInFlight DEF Producing, RequestState
<1>8. \A v \in Downloader : Making(v) => down[v].app \in App
  BY DownloadInFlight DEF Making
<1>9. OneProducer'
  BY <1>1, <1>5, <1>6, <1>7 DEF OutputInv, OneProducer, Producing
<1>10. DownloadsInv'
  BY <1>5, <1>6, <1>8 DEF OutputInv, DownloadsInv, Making
<1> QED BY <1>6, <1>9, <1>10 DEF OutputInv, OutputOf

\* The other steps of a download write no table: it goes on when there is no
\* output at all, and renders what it reads.
LEMMA DownloadStep ==
  ASSUME TypeOK, OutputInv, NEW w \in Downloader, Download(w)
  PROVE  OutputInv'
<1>1. CASE InsertOutput(w)
  BY <1>1, InsertOutputStep
<1>2. ASSUME UNCHANGED <<db, req>>, \A v \in Downloader \ {w} : down'[v] = down[v],
             Making(w)' =>
               /\ NoneBy(db, down'[w].app, w)
               /\ down'[w].pc = "rendered" =>
                    down'[w].says \in {"APPROVED", db.app[down'[w].app].disposal}
      PROVE  OutputInv'
  <2>1. DownloadsInv'
    BY <1>2 DEF OutputInv, DownloadsInv, Making
  <2>2. OneProducer' /\ \A a \in App : OutputOf(db', a)
    BY <1>2 DEF OutputInv, OneProducer, Producing
  <2> QED BY <2>1, <2>2 DEF OutputInv
<1>3. down \in [Downloader -> {IdleDownload} \cup DownloadState]
  BY DEF TypeOK
<1>4. ASSUME NEW a \in App, AskDownload(w, a) PROVE OutputInv'
  <2>1. down'[w].pc = "asked" /\ \A v \in Downloader \ {w} : down'[v] = down[v]
    BY <1>3, <1>4 DEF AskDownload
  <2> QED BY <1>2, <1>4, <2>1 DEF AskDownload, Making
<1>5. CASE DownloadFails(w)
  <2>1. down'[w] = IdleDownload /\ \A v \in Downloader \ {w} : down'[v] = down[v]
    BY <1>3, <1>5 DEF DownloadFails
  <2> QED BY <1>2, <1>5, <2>1 DEF DownloadFails, Making, IdleDownload
<1>6. CASE CheckOutput(w)
  <2>1. \A v \in Downloader \ {w} : down'[v] = down[v]
    BY <1>3, <1>6 DEF CheckOutput
  <2>2. CASE db.output[down[w].app] # <<>>
    <3>1. down'[w] = IdleDownload
      BY <1>3, <1>6, <2>2 DEF CheckOutput
    <3> QED BY <1>2, <1>6, <2>1, <3>1 DEF CheckOutput, Making, IdleDownload
  <2>3. CASE db.output[down[w].app] = <<>>
    <3>1. down'[w] = [down[w] EXCEPT !.pc = "needed"]
      BY <1>3, <1>6, <2>3 DEF CheckOutput
    <3>2. down[w] \in [pc : {"asked", "needed"}, app : App]
      BY <1>6, DownloadInFlight DEF CheckOutput, DownloadState
    <3>3. down'[w].app = down[w].app /\ down'[w].pc = "needed"
      BY <3>1, <3>2
    <3>4. NoneBy(db, down'[w].app, w)
      BY <2>3, <3>3 DEF NoneBy
    <3> QED BY <1>2, <1>6, <2>1, <3>3, <3>4 DEF CheckOutput
  <2> QED BY <2>2, <2>3
<1>7. CASE RenderOutput(w)
  <2>1. /\ down'[w].app = down[w].app
        /\ down'[w].says = Says(db.app[down[w].app])
        /\ \A v \in Downloader \ {w} : down'[v] = down[v]
    BY <1>3, <1>7 DEF RenderOutput
  <2>2. NoneBy(db, down[w].app, w)
    BY <1>7 DEF RenderOutput, OutputInv, DownloadsInv, Making
  <2>3. down'[w].says \in {"APPROVED", db.app[down'[w].app].disposal}
    BY <2>1 DEF Says
  <2> QED BY <1>2, <1>7, <2>1, <2>2, <2>3 DEF RenderOutput
<1> QED BY <1>1, <1>4, <1>5, <1>6, <1>7 DEF Download

\* Every step but a download leaves the downloads alone.
LEMMA DownStays ==
  ASSUME [Next]_vars, ~\E w \in Downloader : Download(w)
  PROVE  down' = down
BY DEF Next, Serve, vars, Submit, AssignTask, Receive, Claim, ClaimRefused,
       Act, ActRefused, ProduceOutput, Close, RequestFails, ReadForResponse,
       CheckQuery, Respond, RespondFails

LEMMA OutputInvStep ==
  ASSUME TypeOK, DecisionMatchesDisposal, OutputInv, [Next]_vars
  PROVE  OutputInv'
<1>1. CASE WritesOutput
  BY <1>1, ProduceOutputStep, DownloadStep DEF WritesOutput
<1>2. CASE ~WritesOutput
  <2>1. /\ DisposalKept(db, db') /\ db'.output = db.output
        /\ db'.locker = db.locker /\ down' = down
    BY <1>2, OutputsStep, DownStays DEF WritesOutput
  <2>2. \A a \in App : OutputOf(db', a)
    BY <2>1, OutputsStay
  <2>3. OneProducer'
    BY <2>1, ActProduces, ProducersStep, ProducersStay
  <2>4. DownloadsInv'
    BY <2>1, DownloadsStay DEF OutputInv
  <2> QED BY <2>2, <2>3, <2>4 DEF OutputInv, OutputOf
<1> QED BY <1>1, <1>2

\* However many requests decide, whichever of them fail and whatever downloads
\* of the certificate run beside them: an application has one output of its
\* decision at most, no two of one download slot, and what does not say its
\* disposal is an approval that a download rendered; the locker never holds
\* more documents than there are outputs.
THEOREM OutputsAlwaysAccountedFor == Spec => []OutputsAccountedFor
<1>1. Init => OutputInv
  <2> SUFFICES ASSUME Init
               PROVE  OutputInv
    OBVIOUS
  <2>1. \A a \in App : OutputOf(db, a)
    BY DEF Init, OutputOf
  <2>2. OneProducer
    BY DEF Init, OneProducer, Producing, IdleRequest
  <2>3. DownloadsInv
    BY DEF Init, DownloadsInv, Making, IdleDownload
  <2> QED BY <2>1, <2>2, <2>3 DEF OutputInv
<1>2. TypeOK /\ DecisionMatchesDisposal /\ OutputInv /\ [Next]_vars => OutputInv'
  BY OutputInvStep
<1> QED
  BY <1>1, <1>2, TypeCorrect, DecisionAlwaysMatches, OutputInvImplies, PTL DEF Spec

(***************************************************************************)
(* Claims.                                                                 *)
(***************************************************************************)
\* A task is PENDING only while nobody holds it, and a request that saw a
\* holder saw a task that was no longer PENDING: its late start of the task
\* cannot reopen one completed meanwhile.
TaskRow(t) == /\ t.status = "PENDING" => t.assignee = None
              /\ t.status = "COMPLETED" => t.assignee # None
TasksConsistent ==
  /\ \A i \in DOMAIN db.task : TaskRow(db.task[i])
  /\ \A r \in Request : req[r].pc = "read" =>
       (req[r].status = "PENDING" => req[r].seen = None)

\* What a step may do to a task row.
TaskKept(t, u) == /\ u.app = t.app /\ u.stage = t.stage
                  /\ t.assignee # None => u.assignee = t.assignee
                  /\ t.status = "COMPLETED" => u = t
                  /\ TaskRow(u)

LEMMA CompletedKeeps ==
  ASSUME NEW tasks \in Seq(Task), NEW a, NEW o, NEW i \in DOMAIN tasks,
         TaskRow(tasks[i])
  PROVE  TaskKept(tasks[i], Completed(tasks, a, o)[i])
<1>1. tasks[i] \in Task
  BY TaskAt
<1> DEFINE t == tasks[i]
           u == [t EXCEPT !.status = "COMPLETED"]
<1>2. /\ u.assignee = t.assignee /\ u.status = "COMPLETED"
      /\ u.app = t.app /\ u.stage = t.stage
  BY <1>1 DEF Task
<1>3. /\ t.status = "COMPLETED" => t.status \notin OpenStatus
      /\ Completed(tasks, a, o)[i]
           = IF /\ o # None /\ t.app = a /\ t.assignee = o
                /\ t.status \in OpenStatus
               THEN u ELSE t
      /\ TaskRow(t)
  BY DEF Completed, OpenStatus
<1> HIDE DEF t, u
<1>4. TaskKept(t, Completed(tasks, a, o)[i])
  BY <1>2, <1>3 DEF TaskKept, TaskRow, OpenStatus
<1> QED BY <1>4 DEF t

\* The rows of a table after a step: each one kept, and a new one nobody's.
TasksKept(tasks, after) ==
  /\ DOMAIN tasks \subseteq DOMAIN after
  /\ \A i \in DOMAIN tasks : TaskKept(tasks[i], after[i])
  /\ \A i \in DOMAIN after : TaskRow(after[i])

LEMMA TasksKeptTrans ==
  ASSUME NEW x, NEW y, NEW z, TasksKept(x, y), TasksKept(y, z)
  PROVE  TasksKept(x, z)
<1>1. ASSUME NEW i \in DOMAIN x
      PROVE  TaskKept(x[i], z[i])
  <2>1. i \in DOMAIN y /\ TaskKept(x[i], y[i]) /\ TaskKept(y[i], z[i])
    BY DEF TasksKept
  <2> QED BY <2>1 DEF TaskKept
<1> QED BY <1>1 DEF TasksKept

LEMMA SameTasksKept ==
  ASSUME NEW tasks, \A i \in DOMAIN tasks : TaskRow(tasks[i])
  PROVE  TasksKept(tasks, tasks)
BY DEF TasksKept, TaskKept

LEMMA WithNextTaskRows ==
  ASSUME NEW d \in Tables, NEW a \in App, NEW tr,
         \A i \in DOMAIN d.task : TaskRow(d.task[i])
  PROVE  TasksKept(d.task, WithNextTask(d, a, tr))
<1>1. d.task \in Seq(Task)
  BY DEF Tables
<1>2. CASE NeedsTask(d, a, tr)
  <2> DEFINE t == [app |-> a, stage |-> tr.to, status |-> "PENDING",
                   assignee |-> None]
  <2>1. t \in Task /\ TaskRow(t)
    BY <1>2 DEF NeedsTask, Task, OpenStatus, TaskRow
  <2>2. WithNextTask(d, a, tr) = Append(d.task, t)
    BY <1>2 DEF WithNextTask
  <2> HIDE DEF t
  <2>3. /\ Append(d.task, t) \in Seq(Task)
        /\ Len(Append(d.task, t)) = Len(d.task) + 1
        /\ \A i \in 1..Len(d.task) : Append(d.task, t)[i] = d.task[i]
        /\ Append(d.task, t)[Len(d.task) + 1] = t
    BY <1>1, <2>1, AppendProperties
  <2>4. /\ DOMAIN d.task = 1..Len(d.task) /\ Len(d.task) \in Nat
        /\ DOMAIN Append(d.task, t) = 1..(Len(d.task) + 1)
    BY <1>1, <2>3, LenProperties
  <2>5. \A i \in DOMAIN d.task : TaskKept(d.task[i], Append(d.task, t)[i])
    BY <2>3, <2>4 DEF TaskKept
  <2>6. \A i \in DOMAIN Append(d.task, t) : TaskRow(Append(d.task, t)[i])
    BY <2>1, <2>3, <2>4
  <2> QED BY <2>2, <2>4, <2>5, <2>6 DEF TasksKept
<1>3. CASE ~NeedsTask(d, a, tr)
  BY <1>3, SameTasksKept DEF WithNextTask
<1> QED BY <1>2, <1>3

LEMMA FireKeepsTasks ==
  ASSUME NEW d \in Tables, NEW a \in App, NEW tr, NEW o, NEW pay,
         \A i \in DOMAIN d.task : TaskRow(d.task[i])
  PROVE  TasksKept(d.task, Fire(d, a, tr, o, pay).task)
<1> DEFINE ts == WithNextTask(d, a, tr)
<1>1. TasksKept(d.task, ts) /\ ts \in Seq(Task)
  BY WithNextTaskRows, WithNextTaskType
<1> HIDE DEF ts
<1>2. \A i \in DOMAIN ts : TaskKept(ts[i], Completed(ts, a, o)[i])
  BY <1>1, CompletedKeeps DEF TasksKept
<1>3. DOMAIN Completed(ts, a, o) = DOMAIN ts
  BY DEF Completed
<1>4. TasksKept(ts, Completed(ts, a, o))
  BY <1>2, <1>3 DEF TasksKept, TaskKept
<1>5. TasksKept(d.task, Completed(ts, a, o))
  BY <1>1, <1>4, TasksKeptTrans
<1> QED BY <1>5 DEF Fire, ts

LEMMA FireBothKeepsTasks ==
  ASSUME NEW d \in Tables, NEW e, NEW a \in App,
         NEW first \in Transition, NEW second \in Transition,
         FireBoth(d, e, a, first, second), first.to \notin Decided,
         \A i \in DOMAIN d.task : TaskRow(d.task[i])
  PROVE  TasksKept(d.task, e.task)
<1> DEFINE mid == Fire(d, a, first, None, NoPayload)
<1>1. NoPayload \in Payload /\ None \in Actor
  BY DEF NoPayload, Payload, Actor
<1>2. mid \in Tables /\ TasksKept(d.task, mid.task)
  BY <1>1, FireType, FireKeepsTasks
<1>3. e = Fire(mid, a, second, None, NoPayload)
  BY DEF FireBoth
<1> HIDE DEF mid
<1>4. TasksKept(mid.task, e.task)
  BY <1>2, <1>3, FireKeepsTasks DEF TasksKept
<1> QED BY <1>2, <1>4, TasksKeptTrans

\* A task nobody holds may be claimed; it is not COMPLETED.
LEMMA ClaimKeepsTasks ==
  ASSUME NEW tasks \in Seq(Task), NEW i, NEW o \in Officer,
         \A j \in DOMAIN tasks : TaskRow(tasks[j]),
         i \in DOMAIN tasks => tasks[i].assignee = None
  PROVE  TasksKept(tasks, [tasks EXCEPT ![i] = HeldBy(@, o)])
<1> DEFINE after == [tasks EXCEPT ![i] = HeldBy(@, o)]
<1>1. DOMAIN after = DOMAIN tasks
  OBVIOUS
<1>2. ASSUME NEW j \in DOMAIN tasks
      PROVE  TaskKept(tasks[j], after[j])
  <2>1. CASE j # i
    BY <2>1 DEF TaskKept
  <2>2. CASE j = i
    <3>1. tasks[i] \in Task /\ TaskRow(tasks[i])
      BY <2>2, TaskAt
    <3>2. after[j] = HeldBy(tasks[i], o)
      BY <2>2
    <3>3. /\ HeldBy(tasks[i], o).status = "IN_PROGRESS"
          /\ HeldBy(tasks[i], o).app = tasks[i].app
          /\ HeldBy(tasks[i], o).stage = tasks[i].stage
      BY <3>1 DEF HeldBy, Started, Task
    <3> HIDE DEF after
    <3> QED BY <2>2, <3>1, <3>2, <3>3 DEF TaskKept, TaskRow
  <2> QED BY <2>1, <2>2
<1>3. \A j \in DOMAIN tasks : TaskRow(after[j])
  BY <1>2 DEF TaskKept
<1> QED BY <1>1, <1>2, <1>3 DEF TasksKept

\* Every step keeps the task rows.
LEMMA TasksStep ==
  ASSUME TypeOK, TasksConsistent, [Next]_vars
  PROVE  TasksKept(db.task, db'.task)
<1>0. /\ db \in Tables /\ db.task \in Seq(Task)
      /\ \A i \in DOMAIN db.task : TaskRow(db.task[i])
  BY DEF TypeOK, Tables, TasksConsistent
<1>1. CASE db'.task = db.task
  BY <1>0, <1>1, SameTasksKept
<1>2. ASSUME NEW a \in App, Submit(a)
      PROVE  TasksKept(db.task, db'.task)
  BY <1>0, <1>2, UndecidedNames, FireBothKeepsTasks DEF Submit
<1>3. ASSUME NEW o \in Officer, NEW i \in DOMAIN db.task, AssignTask(o, i)
      PROVE  TasksKept(db.task, db'.task)
  <2>1. db.task[i].assignee = None
    BY <1>0, <1>3 DEF AssignTask, TaskRow
  <2>2. db'.task = [db.task EXCEPT ![i] = HeldBy(@, o)]
    BY <1>0, <1>3 DEF AssignTask, Tables
  <2> QED BY <1>0, <2>1, <2>2, ClaimKeepsTasks
<1>4. ASSUME NEW r \in Request, Claim(r)
      PROVE  TasksKept(db.task, db'.task)
  <2> DEFINE q == req[r]
  <2>1. q \in RequestState /\ q.pc = "read" /\ q.officer \in Officer
    BY <1>4, RequestInFlight DEF Claim, RequestState
  <2>2. CASE /\ ClaimWins(q)
             /\ db' = [db EXCEPT !.task[q.task] = HeldBy(@, q.officer)]
    <3>1. db'.task = [db.task EXCEPT ![q.task] = HeldBy(@, q.officer)]
      BY <1>0, <2>2 DEF Tables
    <3>2. db.task[q.task].assignee = None
      BY <2>2 DEF ClaimWins
    <3> HIDE DEF q
    <3> QED BY <1>0, <2>1, <3>1, <3>2, ClaimKeepsTasks
  <2>3. CASE Holds(q)
    <3>1. q.seen # None
      BY <2>1, <2>3, ActorsAssumption DEF Holds
    <3>2. q.status # "PENDING"
      BY <2>1, <3>1 DEF TasksConsistent
    <3>3. ~ClaimWins(q)
      BY <3>1 DEF ClaimWins
    <3>4. db' = db
      BY <1>4, <3>2, <3>3 DEF Claim
    <3> QED BY <1>1, <3>4
  <2> QED BY <1>4, <2>2, <2>3 DEF Claim
<1>5. CASE WritesOutput
  BY <1>1, <1>5, OutputWriters
<1>6. ASSUME NEW r \in Request, Act(r)
      PROVE  TasksKept(db.task, db'.task)
  <2>1. req[r].app \in App
    BY <1>6, RequestInFlight DEF Act, RequestState
  <2> QED BY <1>0, <1>6, <2>1, FireKeepsTasks DEF Act
<1>7. ASSUME NEW r \in Request, Close(r)
      PROVE  TasksKept(db.task, db'.task)
  <2>1. req[r].app \in App
    BY <1>7, RequestInFlight DEF Close, RequestState
  <2> QED BY <1>0, <1>7, <2>1, FireKeepsTasks DEF Close
<1>8. ASSUME NEW c \in Responder, Respond(c)
      PROVE  TasksKept(db.task, db'.task)
  <2> DEFINE p == resp[c]
             d == Answered(db, p)
  <2>1. p \in ResponseState /\ p.app \in App
    BY <1>8, ResponseInFlight DEF Respond, ResponseState
  <2>2. d \in Tables /\ d.task = db.task
    BY <1>0, <2>1, AnsweredType
  <2>3. PICK first \in Transition, second \in Transition :
          /\ first.name = "QUERY_RESPOND" /\ second.name = "RESUBMIT_ROUTE"
          /\ FireBoth(d, db', p.app, first, second)
    BY <1>8 DEF Respond
  <2> HIDE DEF d, p
  <2>4. TasksKept(d.task, db'.task)
    BY <1>0, <2>1, <2>2, <2>3, UndecidedNames, FireBothKeepsTasks
  <2> QED BY <2>2, <2>4
<1> QED
  BY <1>1, <1>2, <1>3, <1>4, <1>5, <1>6, <1>7, <1>8
     DEF Next, Serve, vars, Receive, ClaimRefused, ActRefused, RequestFails,
         ReadForResponse, CheckQuery, RespondFails, WritesOutput

\* A request in "read" was there before the step, or has just read its task.
LEMMA ReadersStep ==
  ASSUME TypeOK, TasksConsistent, [Next]_vars, NEW s \in Request,
         req'[s].pc = "read", req'[s].status = "PENDING"
  PROVE  req'[s].seen = None
<1>0. /\ req \in [Request -> {IdleRequest} \cup RequestState]
      /\ IdleRequest.pc # "read"
  BY DEF TypeOK, IdleRequest
<1>1. CASE req'[s] = req[s]
  BY <1>1 DEF TasksConsistent
<1>2. ASSUME NEW r \in Request, req' = [req EXCEPT ![r] = IdleRequest]
      PROVE  req'[s] = req[s]
  BY <1>0, <1>2
<1>3. ASSUME NEW r \in Request, NEW p \in {"claimed", "decided", "issued"},
             req[r].pc # "idle",
             req' = [req EXCEPT ![r] = [req[r] EXCEPT !.pc = p]]
      PROVE  req'[s] = req[s]
  <2>1. req[r] \in RequestState
    BY <1>3, RequestInFlight
  <2>2. [req[r] EXCEPT !.pc = p].pc # "read"
    BY <1>3, <2>1 DEF RequestState
  <2> QED BY <1>0, <1>3, <2>2
<1>4. ASSUME NEW r \in Request, NEW o \in Officer, NEW i \in DOMAIN db.task,
             NEW action \in TaskAction, NEW message \in BOOLEAN,
             Receive(r, o, i, action, message)
      PROVE  req'[s].seen = None
  <2>1. CASE s = r
    <3>1. /\ req'[s].seen = db.task[i].assignee
          /\ req'[s].status = db.task[i].status
      BY <1>0, <1>4, <2>1 DEF Receive
    <3> QED BY <3>1 DEF TasksConsistent, TaskRow
  <2>2. CASE s # r
    <3>1. req'[s] = req[s]
      BY <1>0, <1>4, <2>2 DEF Receive
    <3> QED BY <1>1, <3>1
  <2> QED BY <2>1, <2>2
<1>5. ASSUME NEW r \in Request, Act(r)
      PROVE  req'[s] = req[s]
  <2>1. \/ req' = [req EXCEPT ![r] = IdleRequest]
        \/ req' = [req EXCEPT ![r] = [req[r] EXCEPT !.pc = "decided"]]
    BY <1>5 DEF Act
  <2> QED BY <1>2, <1>3, <1>5, <2>1 DEF Act
<1>6. ASSUME NEW r \in Request, Claim(r) \/ ProduceOutput(r)
      PROVE  req'[s] = req[s]
  BY <1>3, <1>6 DEF Claim, ProduceOutput
<1>7. ASSUME NEW r \in Request,
             Close(r) \/ ClaimRefused(r) \/ ActRefused(r) \/ RequestFails(r)
      PROVE  req'[s] = req[s]
  <2>1. req' = [req EXCEPT ![r] = IdleRequest]
    BY <1>7 DEF Close, ClaimRefused, ActRefused, RequestFails
  <2> QED BY <1>2, <2>1
<1>8. CASE UNCHANGED req
  BY <1>1, <1>8
<1> QED
  BY <1>1, <1>4, <1>5, <1>6, <1>7, <1>8, DownloadLeaves
     DEF Next, Serve, vars, Submit, AssignTask, ReadForResponse, CheckQuery,
         Respond, RespondFails

\* Once an officer holds a task nobody else ever does, and a completed task
\* stays as it is, whichever way claims and actions read earlier interleave.
THEOREM ClaimsAlwaysFinal == Spec => ClaimsAreFinal
<1>1. Init => TasksConsistent
  BY DEF Init, TasksConsistent, IdleRequest
<1>2. TypeOK /\ TasksConsistent /\ [Next]_vars => TasksConsistent'
  BY TasksStep, ReadersStep DEF TasksConsistent, TasksKept
<1>3. TypeOK /\ TasksConsistent /\ [Next]_vars =>
        [\A i \in DOMAIN db.task :
           /\ db.task[i].assignee # None =>
                db'.task[i].assignee = db.task[i].assignee
           /\ db.task[i].status = "COMPLETED" => db'.task[i] = db.task[i]]_vars
  BY TasksStep DEF TasksKept, TaskKept
<1> QED BY <1>1, <1>2, <1>3, TypeCorrect, PTL DEF Spec, ClaimsAreFinal

(***************************************************************************)
(* Who decides.                                                            *)
(***************************************************************************)
\* What a request knows of its task stays true: the application and stage it
\* read, the holder it saw, and, once past the gate, that it is the holder.
TaskKnown(q, tasks) ==
  /\ q.task \in DOMAIN tasks
  /\ tasks[q.task].app = q.app /\ tasks[q.task].stage = q.stage
  /\ q.pc = "read" /\ q.seen # None => tasks[q.task].assignee = q.seen
  /\ q.pc = "claimed" => tasks[q.task].assignee = q.officer
GateHolds == \A r \in Request :
  req[r].pc \in {"read", "claimed"} => TaskKnown(req[r], db.task)

\* Task i of the table is the one on which decision x was made.
HeldAndDone(x, tasks, i) ==
  /\ i \in DOMAIN tasks
  /\ tasks[i].app = x.app /\ tasks[i].assignee = x.by
  /\ tasks[i].status = "COMPLETED"
  /\ \E tr \in Transition : tr.from = tasks[i].stage /\ tr.name = x.type

LEMMA TaskKnownStays ==
  ASSUME NEW q \in RequestState, NEW tasks, NEW after, TasksKept(tasks, after),
         TaskKnown(q, tasks)
  PROVE  TaskKnown(q, after)
<1>1. q.officer # None /\ q.task \in DOMAIN after
  BY ActorsAssumption DEF RequestState, TasksKept, TaskKnown
<1>2. TaskKept(tasks[q.task], after[q.task])
  BY DEF TasksKept, TaskKnown
<1> QED BY <1>1, <1>2 DEF TaskKnown, TaskKept

LEMMA GateStep ==
  ASSUME TypeOK, TasksConsistent, GateHolds, [Next]_vars, NEW s \in Request,
         req'[s].pc \in {"read", "claimed"}
  PROVE  TaskKnown(req'[s], db'.task)
<1>0. /\ req \in [Request -> {IdleRequest} \cup RequestState]
      /\ IdleRequest.pc \notin {"read", "claimed"}
      /\ TasksKept(db.task, db'.task)
  BY TasksStep DEF TypeOK, IdleRequest
<1>1. CASE req'[s] = req[s]
  <2>1. req[s] \in RequestState /\ TaskKnown(req[s], db.task)
    BY <1>1, RequestInFlight DEF GateHolds
  <2> QED BY <1>0, <1>1, <2>1, TaskKnownStays
<1>2. ASSUME NEW r \in Request, req' = [req EXCEPT ![r] = IdleRequest]
      PROVE  req'[s] = req[s]
  BY <1>0, <1>2
<1>3. ASSUME NEW r \in Request, NEW p \in {"decided", "issued"},
             req[r].pc # "idle",
             req' = [req EXCEPT ![r] = [req[r] EXCEPT !.pc = p]]
      PROVE  req'[s] = req[s]
  <2>1. req[r] \in RequestState
    BY <1>3, RequestInFlight
  <2>2. [req[r] EXCEPT !.pc = p].pc \notin {"read", "claimed"}
    BY <1>3, <2>1 DEF RequestState
  <2> QED BY <1>0, <1>3, <2>2
<1>4. ASSUME NEW r \in Request, NEW o \in Officer, NEW i \in DOMAIN db.task,
             NEW action \in TaskAction, NEW message \in BOOLEAN,
             Receive(r, o, i, action, message)
      PROVE  TaskKnown(req'[s], db'.task)
  <2>1. CASE s = r
    <3>1. /\ req'[s].task = i /\ req'[s].app = db.task[i].app
          /\ req'[s].stage = db.task[i].stage
          /\ req'[s].seen = db.task[i].assignee /\ req'[s].pc = "read"
      BY <1>0, <1>4, <2>1 DEF Receive
    <3>2. db'.task = db.task
      BY <1>4 DEF Receive
    <3> QED BY <3>1, <3>2 DEF TaskKnown
  <2>2. CASE s # r
    <3>1. req'[s] = req[s]
      BY <1>0, <1>4, <2>2 DEF Receive
    <3> QED BY <1>1, <3>1
  <2> QED BY <2>1, <2>2
<1>5. ASSUME NEW r \in Request, Claim(r)
      PROVE  TaskKnown(req'[s], db'.task)
  <2> DEFINE q == req[r]
             w == [q EXCEPT !.pc = "claimed"]
             i == q.task
  <2>1. q \in RequestState /\ q.pc = "read" /\ TaskKnown(q, db.task)
    BY <1>5, RequestInFlight DEF Claim, GateHolds
  <2>2. /\ w.pc = "claimed" /\ w.task = i /\ w.app = q.app
        /\ w.stage = q.stage /\ w.officer = q.officer
    BY <2>1 DEF RequestState
  <2>3. CASE s # r
    <3>1. req'[s] = req[s]
      BY <1>0, <1>5, <2>3 DEF Claim
    <3> QED BY <1>1, <3>1
  <2>4. CASE s = r
    <3>1. req'[s] = w
      BY <1>0, <1>5, <2>4 DEF Claim
    <3>2. TaskKept(db.task[i], db'.task[i]) /\ i \in DOMAIN db'.task
      BY <1>0, <2>1 DEF TasksKept, TaskKnown
    <3>3. db'.task[i].assignee = q.officer
      <4>1. CASE Holds(q)
        <5>1. db.task[i].assignee = q.officer /\ q.officer # None
          BY <2>1, <4>1, ActorsAssumption DEF Holds, TaskKnown, RequestState
        <5> QED BY <3>2, <5>1 DEF TaskKept
      <4>2. CASE db' = [db EXCEPT !.task[i] = HeldBy(@, q.officer)]
        <5>1. db'.task = [db.task EXCEPT ![i] = HeldBy(@, q.officer)]
          BY <4>2 DEF TypeOK, Tables
        <5>2. i \in DOMAIN db.task /\ db.task[i] \in Task
          BY <2>1, TaskAt DEF TaskKnown, TypeOK, Tables
        <5>3. db'.task[i] = HeldBy(db.task[i], q.officer)
          BY <5>1, <5>2
        <5> HIDE DEF i, q
        <5> QED BY <5>2, <5>3 DEF HeldBy, Started, Task
      <4> QED BY <1>5, <4>1, <4>2 DEF Claim
    <3> HIDE DEF w, q, i
    <3>4. TaskKnown(w, db'.task)
      BY <2>1, <2>2, <3>2, <3>3 DEF TaskKnown, TaskKept, i
    <3> QED BY <3>1, <3>4
  <2> QED BY <2>3, <2>4
<1>6. ASSUME NEW r \in Request, Act(r)
      PROVE  req'[s] = req[s]
  <2>1. \/ req' = [req EXCEPT ![r] = IdleRequest]
        \/ req' = [req EXCEPT ![r] = [req[r] EXCEPT !.pc = "decided"]]
    BY <1>6 DEF Act
  <2> QED BY <1>2, <1>3, <1>6, <2>1 DEF Act
<1>7. ASSUME NEW r \in Request, ProduceOutput(r)
      PROVE  req'[s] = req[s]
  BY <1>3, <1>7 DEF ProduceOutput
<1>8. ASSUME NEW r \in Request,
             Close(r) \/ ClaimRefused(r) \/ ActRefused(r) \/ RequestFails(r)
      PROVE  req'[s] = req[s]
  <2>1. req' = [req EXCEPT ![r] = IdleRequest]
    BY <1>8 DEF Close, ClaimRefused, ActRefused, RequestFails
  <2> QED BY <1>2, <2>1
<1>9. CASE UNCHANGED req
  BY <1>1, <1>9
<1> QED
  BY <1>1, <1>4, <1>5, <1>6, <1>7, <1>8, <1>9, DownloadLeaves
     DEF Next, Serve, vars, Submit, AssignTask, ReadForResponse, CheckQuery,
         Respond, RespondFails

\* Only an officer's transition records a decision.
LEMMA FireRecordsNothing ==
  ASSUME NEW d, NEW a, NEW tr \in Transition, NEW o, NEW pay,
         tr.to \notin Decided
  PROVE  Fire(d, a, tr, o, pay).decision = d.decision
BY RecordsNothing DEF Fire, DecisionsAfter

LEMMA FireBothRecordsNothing ==
  ASSUME NEW d, NEW e, NEW a, NEW first \in Transition,
         NEW second \in Transition, FireBoth(d, e, a, first, second),
         first.to \notin Decided, second.to \notin Decided
  PROVE  e.decision = d.decision
<1> DEFINE mid == Fire(d, a, first, None, NoPayload)
<1>1. mid.decision = d.decision
  BY FireRecordsNothing
<1>2. e = Fire(mid, a, second, None, NoPayload)
  BY DEF FireBoth
<1> HIDE DEF mid
<1>3. e.decision = mid.decision
  BY <1>2, FireRecordsNothing
<1> QED BY <1>1, <1>3

LEMMA DecisionsStep ==
  ASSUME TypeOK, [Next]_vars
  PROVE  db'.decision = db.decision \/ \E r \in Request : Act(r)
<1>1. ASSUME NEW a \in App, Submit(a)
      PROVE  db'.decision = db.decision
  BY <1>1, UndecidedNames, FireBothRecordsNothing DEF Submit
<1>2. ASSUME NEW o \in Officer, NEW i \in DOMAIN db.task, AssignTask(o, i)
      PROVE  db'.decision = db.decision
  BY <1>2 DEF AssignTask, TypeOK, Tables
<1>3. ASSUME NEW r \in Request, Claim(r)
      PROVE  db'.decision = db.decision
  BY <1>3 DEF Claim, TypeOK, Tables
<1>4. ASSUME NEW r \in Request, Close(r)
      PROVE  db'.decision = db.decision
  BY <1>4, CloseFires, FireRecordsNothing
<1>5. ASSUME NEW c \in Responder, Respond(c)
      PROVE  db'.decision = db.decision
  <2> DEFINE d == Answered(db, resp[c])
  <2>1. resp[c] \in ResponseState
    BY <1>5, ResponseInFlight DEF Respond
  <2>2. d.decision = db.decision
    BY <2>1, AnsweredType DEF TypeOK
  <2>3. PICK first \in Transition, second \in Transition :
          /\ first.name = "QUERY_RESPOND" /\ second.name = "RESUBMIT_ROUTE"
          /\ FireBoth(d, db', resp[c].app, first, second)
    BY <1>5 DEF Respond
  <2> HIDE DEF d
  <2>4. db'.decision = d.decision
    BY <2>3, UndecidedNames, FireBothRecordsNothing
  <2> QED BY <2>2, <2>4
<1> QED
  BY <1>1, <1>2, <1>3, <1>4, <1>5, OutputWriters
     DEF Next, Serve, vars, Receive, ClaimRefused, ActRefused, RequestFails,
         ReadForResponse, CheckQuery, RespondFails, WritesOutput

\* The task the request acted on was its officer's, and his open tasks of the
\* application are completed in the same transaction.
LEMMA ActCompletes ==
  ASSUME TypeOK, TasksConsistent, GateHolds, [Next]_vars,
         NEW r \in Request, Act(r)
  PROVE  \A x \in db'.decision \ db.decision : HeldAndDone(x, db'.task, req[r].task)
<1> DEFINE q == req[r]
           i == q.task
<1>1. /\ q \in RequestState /\ q.pc = "claimed" /\ q.app \in App
      /\ q.officer \in Officer /\ TaskKnown(q, db.task)
  BY RequestInFlight DEF Act, RequestState, GateHolds
<1>2. PICK tr \in Transition :
        /\ db' = Fire(db, q.app, tr, q.officer, q.payload)
        /\ tr.from = q.stage /\ tr.name = q.payload.decision
  BY DEF Act, Allowed, Requested
<1> SUFFICES ASSUME NEW x \in db'.decision \ db.decision
             PROVE  HeldAndDone(x, db'.task, i)
  OBVIOUS
<1>3. /\ "RECORD_DECISION" \in tr.actions
      /\ x.app = q.app /\ x.by = q.officer
      /\ x.type = DecisionType(q.payload.decision)
  BY <1>2 DEF Fire, DecisionsAfter
<1>4. x.type = tr.name
  <2>1. tr.name \in {"APPROVE", "REJECT"}
    BY <1>3, PackAssumption
  <2> QED BY <1>2, <1>3, <2>1 DEF DecisionType
<1>5. /\ i \in DOMAIN db.task /\ db.task[i].app = q.app
      /\ db.task[i].stage = q.stage /\ db.task[i].assignee = q.officer
  BY <1>1 DEF TaskKnown
<1>6. i \in DOMAIN db'.task /\ TaskKept(db.task[i], db'.task[i])
  BY <1>5, TasksStep DEF TasksKept
<1>7. q.officer # None
  BY <1>1, ActorsAssumption
<1>8. db'.task[i].status = "COMPLETED"
  <2> DEFINE ts == WithNextTask(db, q.app, tr)
  <2>1. i \in DOMAIN ts /\ ts[i] = db.task[i]
    BY <1>1, <1>5, WithNextTaskKeeps DEF TypeOK
  <2>2. db'.task = Completed(ts, q.app, q.officer)
    BY <1>2 DEF Fire
  <2>3. db.task[i] \in Task
    BY <1>5, TaskAt DEF TypeOK, Tables
  <2>4. [db.task[i] EXCEPT !.status = "COMPLETED"].status = "COMPLETED"
    BY <2>3 DEF Task
  <2> HIDE DEF ts, i, q
  <2>5. CASE db.task[i].status \in OpenStatus
    BY <1>5, <1>7, <2>1, <2>2, <2>4, <2>5 DEF Completed
  <2>6. CASE db.task[i].status = "COMPLETED"
    BY <1>6, <2>6 DEF TaskKept
  <2> QED BY <2>3, <2>5, <2>6 DEF Task
<1> HIDE DEF i, q
<1> QED BY <1>2, <1>3, <1>4, <1>5, <1>6, <1>7, <1>8 DEF HeldAndDone, TaskKept

LEMMA DecidersStep ==
  ASSUME TypeOK, TasksConsistent, GateHolds, DecidedByTaskHolder, [Next]_vars
  PROVE  DecidedByTaskHolder'
<1>1. ASSUME NEW x \in db.decision
      PROVE  \E i : HeldAndDone(x, db'.task, i)
  <2>1. PICK i : HeldAndDone(x, db.task, i)
    BY DEF DecidedByTaskHolder, HeldAndDone
  <2>2. i \in DOMAIN db'.task /\ db'.task[i] = db.task[i]
    BY <2>1, TasksStep DEF HeldAndDone, TasksKept, TaskKept
  <2> QED BY <2>1, <2>2 DEF HeldAndDone
<1>2. ASSUME NEW x \in db'.decision
      PROVE  \E i : HeldAndDone(x, db'.task, i)
  BY <1>1, <1>2, DecisionsStep, ActCompletes
<1> QED BY <1>2 DEF DecidedByTaskHolder, HeldAndDone

\* A decision was made by an officer who held, and has completed, a task of a
\* stage that may take it, however claims and late actions interleave.
THEOREM AlwaysDecidedByTaskHolder == Spec => []DecidedByTaskHolder
<1>1. Init => TasksConsistent /\ GateHolds /\ DecidedByTaskHolder
  BY DEF Init, TasksConsistent, GateHolds, DecidedByTaskHolder, IdleRequest
<1>2. TypeOK /\ TasksConsistent /\ GateHolds /\ DecidedByTaskHolder /\ [Next]_vars
        => TasksConsistent' /\ GateHolds' /\ DecidedByTaskHolder'
  <2> SUFFICES ASSUME TypeOK, TasksConsistent, GateHolds, DecidedByTaskHolder,
                      [Next]_vars
               PROVE  TasksConsistent' /\ GateHolds' /\ DecidedByTaskHolder'
    OBVIOUS
  <2>1. TasksConsistent'
    BY TasksStep, ReadersStep DEF TasksConsistent, TasksKept
  <2>2. GateHolds'
    BY GateStep DEF GateHolds
  <2> QED BY <2>1, <2>2, DecidersStep
<1> QED BY <1>1, <1>2, TypeCorrect, PTL DEF Spec

(***************************************************************************)
(* The engine implements the abstract lifecycle.                           *)
(***************************************************************************)
\* The abstract state of the tables.
PhaseOf(d) == [a \in App |-> d.app[a].state]
OutcomeOf(d) == [a \in App |-> d.app[a].disposal]

\* The stage where review begins, as the instance names it.
FirstStage == (CHOOSE tr \in Transition : tr.name = "ASSIGN_CLERK").to

LEMMA ReviewBeginsThere ==
  ASSUME NEW tr \in Transition, tr.name \in {"ASSIGN_CLERK", "RESUBMIT_ROUTE"}
  PROVE  tr.to = FirstStage
<1>1. PICK start \in Transition :
        /\ start.name = "ASSIGN_CLERK"
        /\ \A t \in Transition :
             t.name \in {"ASSIGN_CLERK", "RESUBMIT_ROUTE"} => t.to = start.to
  BY RouteAssumption
<1> DEFINE c == CHOOSE t \in Transition : t.name = "ASSIGN_CLERK"
<1>2. c \in Transition /\ c.name = "ASSIGN_CLERK"
  BY <1>1
<1> HIDE DEF c
<1>3. c.to = start.to /\ tr.to = start.to
  BY <1>1, <1>2
<1> QED BY <1>3 DEF FirstStage, c

\* The abstract effect of one transition.
LEMMA FireMoves ==
  ASSUME NEW d \in Tables, NEW a \in App, NEW tr \in Transition, NEW o,
         NEW pay \in Payload
  PROVE  /\ PhaseOf(Fire(d, a, tr, o, pay)) = [PhaseOf(d) EXCEPT ![a] = tr.to]
         /\ OutcomeOf(Fire(d, a, tr, o, pay))
              = [OutcomeOf(d) EXCEPT ![a] =
                   IF "RECORD_DECISION" \in tr.actions
                     THEN DisposalType(pay.decision) ELSE @]
<1> DEFINE e == Fire(d, a, tr, o, pay)
<1>1. e.app = [d.app EXCEPT ![a] = RowAfter(d.app[a], tr, pay)]
  BY DEF Fire
<1>2. d.app \in [App -> Row]
  BY DEF Tables
<1> HIDE DEF e
<1>3. /\ \A b \in App \ {a} : e.app[b] = d.app[b]
      /\ e.app[a].state = tr.to
      /\ e.app[a].disposal = IF "RECORD_DECISION" \in tr.actions
                               THEN DisposalType(pay.decision)
                               ELSE d.app[a].disposal
  BY <1>1, <1>2, StateAfter
<1>4. PhaseOf(e) = [PhaseOf(d) EXCEPT ![a] = tr.to]
  BY <1>3 DEF PhaseOf
<1>5. OutcomeOf(e) = [OutcomeOf(d) EXCEPT ![a] =
                        IF "RECORD_DECISION" \in tr.actions
                          THEN DisposalType(pay.decision) ELSE @]
  BY <1>3 DEF OutcomeOf
<1> QED BY <1>4, <1>5 DEF e

\* The citizen's transition and the system's after it, as one abstract step.
LEMMA FireBothMoves ==
  ASSUME NEW d \in Tables, NEW e, NEW a \in App,
         NEW first \in Transition, NEW second \in Transition,
         FireBoth(d, e, a, first, second),
         first.to \notin Decided, second.to \notin Decided
  PROVE  /\ first.from = d.app[a].state
         /\ PhaseOf(e) = [PhaseOf(d) EXCEPT ![a] = second.to]
         /\ OutcomeOf(e) = OutcomeOf(d)
<1> DEFINE mid == Fire(d, a, first, None, NoPayload)
<1>1. NoPayload \in Payload /\ None \in Actor
  BY DEF NoPayload, Payload, Actor
<1>2. first.from = d.app[a].state /\ e = Fire(mid, a, second, None, NoPayload)
  BY DEF FireBoth, Permitted
<1>3. mid \in Tables
  BY <1>1, FireType
<1>4. /\ "RECORD_DECISION" \notin first.actions
      /\ "RECORD_DECISION" \notin second.actions
  BY RecordsNothing
<1>5. /\ PhaseOf(mid) = [PhaseOf(d) EXCEPT ![a] = first.to]
      /\ OutcomeOf(mid) = [OutcomeOf(d) EXCEPT ![a] = @]
  BY <1>1, <1>4, FireMoves
<1> HIDE DEF mid
<1>6. /\ PhaseOf(e) = [PhaseOf(mid) EXCEPT ![a] = second.to]
      /\ OutcomeOf(e) = [OutcomeOf(mid) EXCEPT ![a] = @]
  BY <1>1, <1>2, <1>3, <1>4, FireMoves
<1>7. PhaseOf(e) = [PhaseOf(d) EXCEPT ![a] = second.to]
  BY <1>5, <1>6 DEF PhaseOf
<1>8. OutcomeOf(e) = OutcomeOf(d)
  BY <1>5, <1>6 DEF OutcomeOf
<1> QED BY <1>2, <1>7, <1>8

\* Steps that leave every application where it is.
LEMMA LifecycleStutters ==
  ASSUME PhaseOf(db') = PhaseOf(db), OutcomeOf(db') = OutcomeOf(db)
  PROVE  UNCHANGED Lifecycle!lifecycle
BY DEF PhaseOf, OutcomeOf, Lifecycle!lifecycle

LEMMA SubmitImplements ==
  ASSUME TypeOK, NEW a \in App, Submit(a)
  PROVE  Lifecycle!Submit(a)
<1>1. PICK first \in Transition, second \in Transition :
        /\ first.name = "SUBMIT" /\ second.name = "ASSIGN_CLERK"
        /\ FireBoth(db, db', a, first, second)
  BY DEF Submit
<1>2. /\ first.from = db.app[a].state
      /\ PhaseOf(db') = [PhaseOf(db) EXCEPT ![a] = second.to]
      /\ OutcomeOf(db') = OutcomeOf(db)
  BY <1>1, UndecidedNames, FireBothMoves DEF TypeOK
<1>3. db.app[a].state = "DRAFT" /\ second.to = FirstStage
  BY <1>1, <1>2, RouteAssumption, ReviewBeginsThere
<1> QED
  BY <1>2, <1>3
     DEF Lifecycle!Submit, Lifecycle!Moves, PhaseOf, OutcomeOf, FirstStage

LEMMA RespondImplements ==
  ASSUME TypeOK, NEW c \in Responder, Respond(c)
  PROVE  \E a \in App : Lifecycle!Answer(a)
<1> DEFINE p == resp[c]
           d == Answered(db, p)
<1>1. p \in ResponseState /\ p.app \in App
  BY ResponseInFlight DEF Respond, ResponseState
<1>2. /\ d \in Tables
      /\ d.app = [db.app EXCEPT ![p.app] = RowAnswered(db.app[p.app], p)]
  BY <1>1, AnsweredType DEF TypeOK
<1>3. PICK first \in Transition, second \in Transition :
        /\ first.name = "QUERY_RESPOND" /\ second.name = "RESUBMIT_ROUTE"
        /\ FireBoth(d, db', p.app, first, second)
  BY DEF Respond
<1>4. PhaseOf(d) = PhaseOf(db) /\ OutcomeOf(d) = OutcomeOf(db)
  <2>1. db.app \in [App -> Row]
    BY DEF TypeOK, Tables
  <2>2. \A row \in Row : /\ RowAnswered(row, p).state = row.state
                         /\ RowAnswered(row, p).disposal = row.disposal
    BY DEF RowAnswered, Row
  <2> HIDE DEF d, p
  <2>3. \A a \in App : /\ d.app[a].state = db.app[a].state
                       /\ d.app[a].disposal = db.app[a].disposal
    BY <1>1, <1>2, <2>1, <2>2
  <2> QED BY <2>3 DEF PhaseOf, OutcomeOf
<1> HIDE DEF d
<1>5. /\ first.from = d.app[p.app].state
      /\ PhaseOf(db') = [PhaseOf(d) EXCEPT ![p.app] = second.to]
      /\ OutcomeOf(db') = OutcomeOf(d)
  BY <1>1, <1>2, <1>3, UndecidedNames, FireBothMoves
<1>6. d.app[p.app].state = "QUERY_PENDING" /\ second.to = FirstStage
  BY <1>3, <1>5, PackAssumption, ReviewBeginsThere
<1>7. PhaseOf(db)[p.app] = "QUERY_PENDING"
  BY <1>1, <1>4, <1>6 DEF PhaseOf
<1>8. /\ PhaseOf(db') = [PhaseOf(db) EXCEPT ![p.app] = FirstStage]
      /\ OutcomeOf(db') = OutcomeOf(db)
  BY <1>4, <1>5, <1>6
<1>9. PICK a \in App : a = p.app
  BY <1>1
<1>10. Lifecycle!Answer(a)
  BY <1>7, <1>8, <1>9
     DEF Lifecycle!Answer, Lifecycle!Moves, PhaseOf, OutcomeOf, FirstStage
<1> QED BY <1>10

\* An officer's transition hands on, asks the citizen or decides.
LEMMA ActImplements ==
  ASSUME TypeOK, DecisionMatchesDisposal, NEW r \in Request, Act(r)
  PROVE  Lifecycle!Next
<1> DEFINE q == req[r]
<1>1. PICK a \in App : a = q.app /\ q \in RequestState /\ q.payload \in Payload
  BY RequestInFlight DEF Act, RequestState
<1>2. PICK tr \in Transition :
        /\ db' = Fire(db, a, tr, q.officer, q.payload)
        /\ tr.from = db.app[a].state
        /\ tr.from \in Stage /\ tr.name = q.payload.decision
  BY <1>1, ActFires DEF Permitted
<1>3. /\ PhaseOf(db') = [PhaseOf(db) EXCEPT ![a] = tr.to]
      /\ OutcomeOf(db') = [OutcomeOf(db) EXCEPT ![a] =
                             IF "RECORD_DECISION" \in tr.actions
                               THEN DisposalType(q.payload.decision) ELSE @]
  BY <1>1, <1>2, FireMoves DEF TypeOK
<1>4. PhaseOf(db)[a] = tr.from /\ PhaseOf(db') = [PhaseOf(db) EXCEPT ![a] = tr.to]
  BY <1>1, <1>2, <1>3 DEF PhaseOf
<1>5. CASE tr.to \in Stage \cup {"QUERY_PENDING"}
  <2>1. "RECORD_DECISION" \notin tr.actions
    BY <1>5, PackAssumption DEF Decided, SystemState
  <2>2. OutcomeOf(db') = OutcomeOf(db)
    BY <1>3, <2>1 DEF OutcomeOf
  <2>3. CASE tr.to = "QUERY_PENDING"
    <3>1. Lifecycle!Ask(a, tr.from)
      BY <1>4, <2>2, <2>3 DEF Lifecycle!Ask, Lifecycle!Moves, PhaseOf, OutcomeOf
    <3> QED BY <1>1, <1>2, <3>1 DEF Lifecycle!Next
  <2>4. CASE tr.to \in Stage
    <3>1. <<tr.from, tr.to>> \in
            {<<t.from, t.to>> : t \in
               {u \in Transition : u.from \in Stage /\ u.to \in Stage}}
      BY <1>2, <2>4
    <3>2. Lifecycle!Forward(a, tr.from, tr.to)
      BY <1>4, <2>2, <3>1
         DEF Lifecycle!Forward, Lifecycle!Moves, PhaseOf, OutcomeOf
    <3> QED BY <1>1, <1>2, <2>4, <3>2 DEF Lifecycle!Next
  <2> QED BY <1>5, <2>3, <2>4
<1>6. CASE tr.to \in Decided
  <2>1. /\ "RECORD_DECISION" \in tr.actions /\ tr.name \in {"APPROVE", "REJECT"}
        /\ tr.to = "APPROVED" <=> tr.name = "APPROVE"
    BY <1>6, PackAssumption
  <2>2. DisposalType(q.payload.decision) = tr.to
    BY <1>2, <1>6, <2>1 DEF DisposalType, Decided
  <2>3. OutcomeOf(db') = [OutcomeOf(db) EXCEPT ![a] = tr.to]
    BY <1>3, <2>1, <2>2
  <2>4. OutcomeOf(db)[a] = "NONE"
    <3>1. db.app[a].state \notin Decided \cup {"CLOSED"}
      BY <1>2, PackAssumption DEF Decided, SystemState
    <3>2. db.app[a] \in Row
      BY <1>1 DEF TypeOK, Tables
    <3>3. db.app[a].disposal = "NONE"
      BY <1>1, <3>1, <3>2, AllMatchIs, DecisionOpens DEF AllMatch
    <3> QED BY <1>1, <3>3 DEF OutcomeOf
  <2>5. tr.to = "APPROVED" =>
          tr.from \in {t.from : t \in {u \in Transition : u.name = "APPROVE"}}
    BY <2>1
  <2>6. Lifecycle!Decide(a, tr.from, tr.to)
    BY <1>4, <2>3, <2>4, <2>5
       DEF Lifecycle!Decide, Lifecycle!Moves, PhaseOf, OutcomeOf
  <2> QED BY <1>1, <1>2, <1>6, <2>6 DEF Lifecycle!Next, Decided
<1> QED BY <1>2, <1>5, <1>6, RouteAssumption

\* The closing transition starts from the decision the disposal names.
LEMMA CloseImplements ==
  ASSUME TypeOK, DecisionMatchesDisposal, NEW r \in Request, Close(r)
  PROVE  \E a \in App : Lifecycle!Close(a)
<1>1. PICK a \in App : a = req[r].app /\ NoPayload \in Payload
  BY RequestInFlight DEF Close, RequestState, NoPayload, Payload
<1>2. PICK tr \in Transition :
        /\ db' = Fire(db, a, tr, None, NoPayload)
        /\ tr.from = db.app[a].state /\ tr.to \notin Decided
        /\ tr.name \in {"CLOSE_APPROVED", "CLOSE_REJECTED"}
  BY <1>1, CloseFires DEF Permitted
<1>3. tr.from \in Decided /\ tr.to = "CLOSED"
  BY <1>2, RouteAssumption, PackAssumption
<1>4. db.app[a].disposal = tr.from
  BY <1>1, <1>2, <1>3, AllMatchIs DEF AllMatch, Matches
<1>5. /\ PhaseOf(db') = [PhaseOf(db) EXCEPT ![a] = "CLOSED"]
      /\ OutcomeOf(db') = [OutcomeOf(db) EXCEPT ![a] = @]
  BY <1>1, <1>2, <1>3, RecordsNothing, FireMoves DEF TypeOK
<1>6. PhaseOf(db)[a] = tr.from /\ OutcomeOf(db)[a] = tr.from
  BY <1>1, <1>2, <1>4 DEF PhaseOf, OutcomeOf
<1>7. OutcomeOf(db') = OutcomeOf(db)
  BY <1>5 DEF OutcomeOf
<1>8. tr.from # "NONE"
  BY <1>3 DEF Decided
<1>9. Lifecycle!Close(a)
  BY <1>5, <1>6, <1>7, <1>8
     DEF Lifecycle!Close, Lifecycle!Moves, PhaseOf, OutcomeOf
<1> QED BY <1>9

LEMMA LifecycleStep ==
  ASSUME TypeOK, DecisionMatchesDisposal, [Next]_vars
  PROVE  [Lifecycle!Next]_(Lifecycle!lifecycle)
<1>1. ASSUME NEW a \in App, Submit(a)
      PROVE  Lifecycle!Next
  BY <1>1, SubmitImplements DEF Lifecycle!Next
<1>2. ASSUME NEW r \in Request, Act(r)
      PROVE  Lifecycle!Next
  BY <1>2, ActImplements
<1>3. ASSUME NEW r \in Request, Close(r)
      PROVE  Lifecycle!Next
  BY <1>3, CloseImplements DEF Lifecycle!Next
<1>4. ASSUME NEW c \in Responder, Respond(c)
      PROVE  Lifecycle!Next
  BY <1>4, RespondImplements DEF Lifecycle!Next
<1>5. CASE db'.app = db.app
  <2>1. PhaseOf(db') = PhaseOf(db) /\ OutcomeOf(db') = OutcomeOf(db)
    BY <1>5 DEF PhaseOf, OutcomeOf
  <2> QED BY <2>1, LifecycleStutters
<1>6. ASSUME NEW r \in Request, Claim(r)
      PROVE  db'.app = db.app
  BY <1>6 DEF Claim, TypeOK, Tables
<1>7. ASSUME NEW o \in Officer, NEW i \in DOMAIN db.task, AssignTask(o, i)
      PROVE  db'.app = db.app
  BY <1>7 DEF AssignTask, TypeOK, Tables
<1> QED
  BY <1>1, <1>2, <1>3, <1>4, <1>5, <1>6, <1>7, OutputWriters
     DEF Next, Serve, vars, Receive, ClaimRefused, ActRefused, RequestFails,
         ReadForResponse, CheckQuery, RespondFails, WritesOutput

\* The engine, with its tasks, queries, outputs and concurrent requests, shows
\* nothing but the abstract lifecycle: stage by stage in the pack's order, one
\* decision, closed only when decided.
THEOREM EngineImplementsLifecycle == Spec => ImplementsLifecycle
<1>1. Init => Lifecycle!Init
  BY DEF Init, Lifecycle!Init
<1>2. TypeOK /\ DecisionMatchesDisposal /\ [Next]_vars =>
        [Lifecycle!Next]_(Lifecycle!lifecycle)
  BY LifecycleStep
<1> QED
  BY <1>1, <1>2, TypeCorrect, DecisionAlwaysMatches, PTL
     DEF Spec, ImplementsLifecycle, Lifecycle!Spec
=============================================================================
