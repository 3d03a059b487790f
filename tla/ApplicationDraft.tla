-------------------------- MODULE ApplicationDraft --------------------------
(***************************************************************************)
(* The application row as its citizen writes it (apps/api/src/             *)
(* applications.ts): drafts created and saved under row_version, the       *)
(* submission and its snapshot, and the answers that change the submitted  *)
(* data.  Several sessions of the citizen work at the same time, each with *)
(* one request under way; a request is a process with one step for each    *)
(* read and for each transaction.  The stages of the review and the tasks  *)
(* are left to WorkflowEngine: here an officer moves the application on,   *)
(* decides, or asks.                                                       *)
(***************************************************************************)
EXTENDS Naturals, Sequences

CONSTANTS
  App,          \* applications
  Session,      \* the citizen's browser sessions
  Field, Value, \* the form: leaf keys of data_jsonb (those under applicant,
                \* which come from the profile, left out), what they may hold
  Submittable,  \* form data that passes validation and has its documents
  MaxVersion,   \* bound: no save, review or query from this version on
  MaxQueries,   \* bound: no query once an application had this many
  None          \* no snapshot yet, nothing loaded yet

Data == [Field -> Value]

ASSUME DataAssumption == None \notin Data /\ Submittable \subseteq Data

VARIABLES
  row,    \* the application table
  query,  \* the query rows of each application
  view,   \* what a session has loaded: the body of the API's last answer
  req     \* the request of a session

vars == <<row, query, view, req>>

State == {"NEW", "DRAFT", "IN_REVIEW", "QUERY_PENDING", "DECIDED"}
Row == [state : State, version : Nat, data : Data, snapshot : Data \cup {None}]
Query == [status : {"PENDING", "RESPONDED"}, unlocked : SUBSET Field]
View == [app : App, version : Nat, data : Data] \cup {None}

\* updatedData of an answer: some fields and their new values.
Edits == UNION {[F -> Value] : F \in SUBSET Field}

Idle == [pc |-> "idle"]
RequestState ==
  {Idle}
  \cup [pc : {"saving"}, app : App, data : Data, version : Nat, named : BOOLEAN]
  \cup [pc : {"saved", "submitting"}, app : App]
  \cup [pc : {"answering", "checked"}, app : App, query : Nat,
        edits : Edits, data : Data]

Loaded(a) == [app |-> a, version |-> row[a].version, data |-> row[a].data]

\* NEW stands for a row that is not there yet; its data means nothing.
Init ==
  /\ row \in [App -> [state : {"NEW"}, version : {1}, data : Data,
                      snapshot : {None}]]
  /\ query = [a \in App |-> << >>]
  /\ view = [s \in Session |-> None]
  /\ req = [s \in Session |-> Idle]

Become(s, r) == req' = [req EXCEPT ![s] = r]

(***************************************************************************)
(* Drafts.                                                                 *)
(***************************************************************************)
\* createApplication: the row is inserted, then read back for the answer.
Create(s, a, data) ==
  /\ req[s] = Idle
  /\ row[a].state = "NEW"
  /\ row' = [row EXCEPT ![a] = [@ EXCEPT !.state = "DRAFT", !.data = data]]
  /\ Become(s, [pc |-> "saved", app |-> a])
  /\ UNCHANGED <<query, view>>

\* A session opens an application of its citizen.
Open(s, a) ==
  /\ req[s] = Idle
  /\ row[a].state # "NEW"
  /\ view' = [view EXCEPT ![s] = Loaded(a)]
  /\ UNCHANGED <<row, query, req>>

\* updateApplicationData reads the row: it must be a draft, and a rowVersion
\* that came with the request (named) must be the row's.
BeginSave(s, data, named) ==
  /\ req[s] = Idle /\ view[s] # None
  /\ LET a == view[s].app
     IN /\ row[a].state = "DRAFT" /\ row[a].version < MaxVersion
        /\ named => view[s].version = row[a].version
        /\ Become(s, [pc |-> "saving", app |-> a, data |-> data,
                      version |-> row[a].version, named |-> named])
  /\ UNCHANGED <<row, query, view>>

\* Fault: the UPDATE looks at the state alone.
StillDraft(r, version) == r.state = "DRAFT"

\* UPDATE ... SET row_version = row_version + 1 WHERE row_version = $3, which
\* does not look at the state again.
StillAt(r, version) == r.version = version
Saved(r, data) == [r EXCEPT !.data = data, !.version = @ + 1]

WriteSave(s) ==
  LET q == req[s]
  IN /\ q.pc = "saving"
     /\ IF StillAt(row[q.app], q.version)
          THEN /\ row' = [row EXCEPT ![q.app] = Saved(@, q.data)]
               /\ Become(s, [pc |-> "saved", app |-> q.app])
          ELSE Become(s, Idle) /\ UNCHANGED row
     /\ UNCHANGED <<query, view>>

\* The row is read again for the answer, whoever wrote it last.
Return(s) ==
  /\ req[s].pc = "saved"
  /\ view' = [view EXCEPT ![s] = Loaded(req[s].app)]
  /\ Become(s, Idle)
  /\ UNCHANGED <<row, query>>

(***************************************************************************)
(* Submission.                                                             *)
(***************************************************************************)
\* submitApplication reads and validates the row before its transaction.
BeginSubmit(s, a) ==
  /\ req[s] = Idle
  /\ row[a].state = "DRAFT"
  /\ row[a].data \in Submittable
  /\ Become(s, [pc |-> "submitting", app |-> a])
  /\ UNCHANGED <<row, query, view>>

\* SUBMIT leaves DRAFT only; executeTransition looks under the row's lock.
MaySubmit(r) == r.state = "DRAFT"

\* The snapshot, SUBMIT and ASSIGN_CLERK each count the version up.
Submitted(r) == [r EXCEPT !.state = "IN_REVIEW", !.version = @ + 3,
                          !.snapshot = r.data]

Submit(s) ==
  LET a == req[s].app
  IN /\ req[s].pc = "submitting"
     /\ IF MaySubmit(row[a]) THEN row' = [row EXCEPT ![a] = Submitted(@)]
                             ELSE UNCHANGED row
     /\ Become(s, Idle)
     /\ UNCHANGED <<query, view>>

(***************************************************************************)
(* Review and answers.                                                     *)
(***************************************************************************)
Moved(r, state) == [r EXCEPT !.state = state, !.version = @ + 1]

\* An officer forwards or decides: a transition of the engine.
Review(a, to) ==
  /\ row[a].state = "IN_REVIEW" /\ row[a].version < MaxVersion
  /\ row' = [row EXCEPT ![a] = Moved(@, to)]
  /\ UNCHANGED <<query, view, req>>

\* RAISE_QUERY with the fields the citizen may change.
Ask(a, unlocked) ==
  /\ row[a].state = "IN_REVIEW" /\ row[a].version < MaxVersion
  /\ Len(query[a]) < MaxQueries
  /\ row' = [row EXCEPT ![a] = Moved(@, "QUERY_PENDING")]
  /\ query' = [query EXCEPT ![a] =
                 Append(@, [status |-> "PENDING", unlocked |-> unlocked])]
  /\ UNCHANGED <<view, req>>

\* respondToQuery reads the application before its transaction.
BeginAnswer(s, a, i, edits) ==
  /\ req[s] = Idle
  /\ row[a].state = "QUERY_PENDING"
  /\ Become(s, [pc |-> "answering", app |-> a, query |-> i,
                edits |-> edits, data |-> row[a].data])
  /\ UNCHANGED <<row, query, view>>

\* Fault: any field may be changed.
AcceptsAnything(q, edits) == q.status = "PENDING"

\* The query, read without a lock, is PENDING and unlocks every field sent.
Accepts(q, edits) == q.status = "PENDING" /\ DOMAIN edits \subseteq q.unlocked

CheckAnswer(s) ==
  LET q == req[s]
  IN /\ q.pc = "answering"
     /\ Become(s, IF Accepts(query[q.app][q.query], q.edits)
                    THEN [q EXCEPT !.pc = "checked"] ELSE Idle)
     /\ UNCHANGED <<row, query, view>>

\* deepMerge of the data read at the start with the fields sent.
Merged(data, edits) ==
  [f \in Field |-> IF f \in DOMAIN edits THEN edits[f] ELSE data[f]]

\* The merged data is written when a field was sent; QUERY_RESPOND and
\* RESUBMIT_ROUTE follow in the same transaction.
Answered(r, q) ==
  IF q.edits = << >>
    THEN [r EXCEPT !.state = "IN_REVIEW", !.version = @ + 2]
    ELSE [r EXCEPT !.state = "IN_REVIEW", !.version = @ + 3,
                   !.data = Merged(q.data, q.edits)]

Responded(queries, i) == [queries EXCEPT ![i].status = "RESPONDED"]

\* QUERY_RESPOND leaves QUERY_PENDING only, or everything is rolled back.
Answer(s) ==
  LET q == req[s]
  IN /\ q.pc = "checked"
     /\ IF row[q.app].state = "QUERY_PENDING"
          THEN /\ row' = [row EXCEPT ![q.app] = Answered(@, q)]
               /\ query' = [query EXCEPT ![q.app] = Responded(@, q.query)]
          ELSE UNCHANGED <<row, query>>
     /\ Become(s, Idle)
     /\ UNCHANGED view

\* The process or the connection dies between two steps.
RequestFails(s) ==
  /\ req[s] # Idle
  /\ Become(s, Idle)
  /\ UNCHANGED <<row, query, view>>

Next ==
  \/ \E s \in Session, a \in App, data \in Data : Create(s, a, data)
  \/ \E s \in Session, a \in App : Open(s, a) \/ BeginSubmit(s, a)
  \/ \E s \in Session, data \in Data, named \in BOOLEAN : BeginSave(s, data, named)
  \/ \E s \in Session, a \in App, edits \in Edits :
       \E i \in DOMAIN query[a] : BeginAnswer(s, a, i, edits)
  \/ \E s \in Session : \/ WriteSave(s) \/ Return(s) \/ Submit(s)
                        \/ CheckAnswer(s) \/ Answer(s) \/ RequestFails(s)
  \/ \E a \in App, to \in {"IN_REVIEW", "DECIDED"} : Review(a, to)
  \/ \E a \in App, unlocked \in SUBSET Field : Ask(a, unlocked)

Spec == Init /\ [][Next]_vars

(***************************************************************************)
(* Properties.                                                             *)
(***************************************************************************)
\* Rows, queries, loaded bodies and requests have the shape the code gives them.
TypeOK ==
  /\ row \in [App -> Row]
  /\ query \in [App -> Seq(Query)]
  /\ view \in [Session -> View]
  /\ req \in [Session -> RequestState]
  /\ \A s \in Session : req[s].pc \in {"answering", "checked"} =>
       req[s].query \in DOMAIN query[req[s].app]

\* row_version identifies the form data: a session that holds the row's
\* version holds the row's data, whoever wrote in between.
VersionNamesData ==
  \A s \in Session : view[s] # None =>
    LET r == row[view[s].app]
    IN /\ view[s].version <= r.version
       /\ view[s].version = r.version => view[s].data = r.data

\* updateApplicationData prevents silent overwrites: a save that names its
\* version replaces exactly the data its session had loaded.
NoLostSave ==
  [][\A s \in Session :
       (req[s].pc = "saving" /\ req'[s].pc = "saved") =>
         (req[s].named => row[req[s].app].data = view[s].data)]_vars

\* The submission snapshot is taken once and never changes, whatever
\* submissions and saves are still under way.
SnapshotKept ==
  [][\A a \in App : row[a].snapshot # None =>
       row'[a].snapshot = row[a].snapshot]_vars

Unlocked(a) == UNION {query[a][i].unlocked : i \in DOMAIN query[a]}

\* After submission a form field keeps its submitted value until a query of
\* the application unlocks it: no late save and no stale answer changes it.
LockedFieldsKept ==
  \A a \in App : row[a].state \notin {"NEW", "DRAFT"} =>
    \A f \in Field \ Unlocked(a) : row[a].data[f] = row[a].snapshot[f]

\* What was submitted passed the validation of submitApplication.
SubmittedWasValidated ==
  \A a \in App : row[a].snapshot # None => row[a].snapshot \in Submittable
=============================================================================
