---------------------- MODULE MCApplicationDraftProofs ----------------------
(***************************************************************************)
(* Proofs about drafts, submissions and answers, for any number of         *)
(* sessions and applications, any form and any versions.                   *)
(***************************************************************************)
EXTENDS MCApplicationDraft, SequenceTheorems, TLAPS

(***************************************************************************)
(* The inductive invariant.                                                *)
(***************************************************************************)
\* What a session has loaded or written exists.
LoadedExists ==
  \A s \in Session :
    /\ view[s] # None => row[view[s].app].state # "NEW"
    /\ req[s].pc = "saved" => row[req[s].app].state # "NEW"

\* While the version a save has read is still the row's, the row is still the
\* draft it was; a save that named its version still has what it loaded.
SavesReachDrafts ==
  \A s \in Session : req[s].pc = "saving" =>
    LET q == req[s]
        r == row[q.app]
    IN /\ r.state # "NEW"
       /\ q.version <= r.version
       /\ q.version = r.version => r.state = "DRAFT"
       /\ q.named => /\ view[s] # None
                     /\ view[s].app = q.app /\ view[s].version = q.version

\* An answer works on a submitted application; the data it has read agrees
\* with the snapshot on the locked fields and it sends unlocked ones only.
AnswersKeepLockedFields ==
  \A s \in Session : req[s].pc \in {"answering", "checked"} =>
    LET q == req[s]
    IN /\ row[q.app].state \notin {"NEW", "DRAFT"}
       /\ \A f \in Field \ Unlocked(q.app) : q.data[f] = row[q.app].snapshot[f]
       /\ req[s].pc = "checked" => DOMAIN q.edits \subseteq Unlocked(q.app)

Inv == /\ TypeOK /\ VersionNamesData /\ LockedFieldsKept
       /\ LoadedExists /\ SavesReachDrafts /\ AnswersKeepLockedFields

(***************************************************************************)
(* Types.                                                                  *)
(***************************************************************************)
\* The fields a request has, by its pc.
LEMMA RequestFields ==
  ASSUME NEW q \in RequestState
  PROVE  /\ q.pc = "saving" => /\ q.app \in App /\ q.data \in Data
                               /\ q.version \in Nat /\ q.named \in BOOLEAN
         /\ q.pc \in {"saved", "submitting"} => q.app \in App
         /\ q.pc \in {"answering", "checked"} =>
              /\ q.app \in App /\ q.query \in Nat
              /\ q.edits \in Edits /\ q.data \in Data
              /\ [q EXCEPT !.pc = "checked"] \in RequestState
<1>1. CASE q.pc \in {"answering", "checked"}
  <2>1. q \in [pc : {"answering", "checked"}, app : App, query : Nat,
               edits : Edits, data : Data]
    BY <1>1 DEF RequestState, Idle
  <2>2. [q EXCEPT !.pc = "checked"] \in
          [pc : {"answering", "checked"}, app : App, query : Nat,
           edits : Edits, data : Data]
    BY <2>1
  <2> QED BY <1>1, <2>1, <2>2 DEF RequestState
<1>2. CASE q.pc \notin {"answering", "checked"}
  BY <1>2 DEF RequestState, Idle
<1> QED BY <1>1, <1>2

\* What the statements write is a row again.
LEMMA RowFields ==
  ASSUME NEW r \in Row
  PROVE  /\ Submitted(r) \in Row
         /\ \A state \in State : Moved(r, state) \in Row
         /\ \A content \in Data :
              /\ Saved(r, content) \in Row
              /\ \A state \in State :
                   [r EXCEPT !.state = state, !.data = content] \in Row
<1>1. "IN_REVIEW" \in State
  BY DEF State
<1>2. /\ r.version \in Nat /\ r.data \in Data
      /\ r.version + 1 \in Nat /\ r.version + 3 \in Nat
  BY DEF Row
<1>3. ASSUME NEW content \in Data, NEW state \in State
      PROVE  [r EXCEPT !.state = state, !.data = content] \in Row
  BY DEF Row
<1>4. ASSUME NEW content \in Data PROVE Saved(r, content) \in Row
  BY <1>2 DEF Row, Saved
<1>5. Submitted(r) \in Row
  BY <1>1, <1>2 DEF Row, Submitted
<1>6. ASSUME NEW state \in State PROVE Moved(r, state) \in Row
  BY <1>2 DEF Row, Moved
<1> QED BY <1>3, <1>4, <1>5, <1>6

LEMMA MergedType ==
  ASSUME NEW content \in Data, NEW sent \in Edits
  PROVE  Merged(content, sent) \in Data
<1>1. PICK F \in SUBSET Field : sent \in [F -> Value]
  BY DEF Edits
<1> QED BY <1>1 DEF Merged, Data

LEMMA AnsweredRow ==
  ASSUME NEW r \in Row, NEW q, q.data \in Data, q.edits \in Edits
  PROVE  /\ Answered(r, q) \in Row
         /\ Answered(r, q).version > r.version
         /\ Answered(r, q).state = "IN_REVIEW"
         /\ Answered(r, q).snapshot = r.snapshot
         /\ Answered(r, q).data \in {r.data, Merged(q.data, q.edits)}
<1>1. Merged(q.data, q.edits) \in Data
  BY MergedType
<1>2. r.version \in Nat /\ r.version + 2 \in Nat /\ r.version + 3 \in Nat
  BY DEF Row
<1> DEFINE d == Merged(q.data, q.edits)
<1>3. /\ [r EXCEPT !.state = "IN_REVIEW", !.version = @ + 2] \in Row
      /\ [r EXCEPT !.state = "IN_REVIEW", !.version = @ + 3, !.data = d] \in Row
  <2>1. "IN_REVIEW" \in State
    BY DEF State
  <2>2. [r EXCEPT !.state = "IN_REVIEW", !.version = @ + 2] \in Row
    BY <1>2, <2>1 DEF Row
  <2>3. d \in Data
    BY <1>1
  <2> HIDE DEF d
  <2>4. [r EXCEPT !.state = "IN_REVIEW", !.version = @ + 3, !.data = d] \in Row
    BY <1>2, <2>1, <2>3 DEF Row
  <2> QED BY <2>2, <2>4
<1>4. CASE q.edits = << >>
  <2>1. Answered(r, q) = [r EXCEPT !.state = "IN_REVIEW", !.version = @ + 2]
    BY <1>4 DEF Answered
  <2> QED BY <1>2, <1>3, <2>1 DEF Row
<1>5. CASE q.edits # << >>
  <2>1. Answered(r, q) =
          [r EXCEPT !.state = "IN_REVIEW", !.version = @ + 3, !.data = d]
    BY <1>5 DEF Answered
  <2> QED BY <1>2, <1>3, <2>1 DEF Row
<1> QED BY <1>4, <1>5

LEMMA LoadedType ==
  ASSUME TypeOK, NEW a \in App
  PROVE  Loaded(a) \in View
BY DEF TypeOK, Loaded, View, Row

LEMMA InitType == Init => TypeOK
<1> SUFFICES ASSUME Init PROVE TypeOK
  OBVIOUS
<1>1. row \in [App -> Row]
  BY DEF Init, Row, State
<1>2. query \in [App -> Seq(Query)]
  BY DEF Init
<1> QED BY <1>1, <1>2 DEF Init, TypeOK, View, RequestState, Idle

\* A session's request is replaced by r; queries only grow.
LEMMA BecomeType ==
  ASSUME TypeOK, NEW s \in Session, NEW r \in RequestState, Become(s, r),
         row' \in [App -> Row], query' \in [App -> Seq(Query)],
         view' \in [Session -> View],
         \A a \in App : DOMAIN query[a] \subseteq DOMAIN query'[a],
         r.pc \in {"answering", "checked"} => r.query \in DOMAIN query'[r.app]
  PROVE  TypeOK'
<1>1. req' \in [Session -> RequestState]
  BY DEF TypeOK, Become
<1>2. ASSUME NEW t \in Session, req'[t].pc \in {"answering", "checked"}
      PROVE  req'[t].query \in DOMAIN query'[req'[t].app]
  <2>1. CASE t = s
    BY <1>2, <2>1 DEF Become, TypeOK
  <2>2. CASE t # s
    <3>1. req'[t] = req[t]
      BY <2>2 DEF Become, TypeOK
    <3>2. req[t].app \in App /\ req[t].query \in DOMAIN query[req[t].app]
      BY <1>2, <3>1, RequestFields DEF TypeOK
    <3> QED BY <3>1, <3>2
  <2> QED BY <2>1, <2>2
<1> QED BY <1>1, <1>2 DEF TypeOK

LEMMA CreateType ==
  ASSUME TypeOK, NEW s \in Session, NEW a \in App, NEW content \in Data,
         Create(s, a, content)
  PROVE  TypeOK'
<1>1. row' \in [App -> Row]
  <2>1. "DRAFT" \in State /\ row[a] \in Row
    BY DEF State, TypeOK
  <2>2. [row[a] EXCEPT !.state = "DRAFT", !.data = content] \in Row
    BY <2>1, RowFields
  <2> QED BY <2>2 DEF Create, TypeOK
<1>2. [pc |-> "saved", app |-> a] \in RequestState
  BY DEF RequestState
<1> QED BY <1>1, <1>2, BecomeType DEF Create, TypeOK

LEMMA OpenType ==
  ASSUME TypeOK, NEW s \in Session, NEW a \in App, Open(s, a)
  PROVE  TypeOK'
BY LoadedType DEF Open, TypeOK

LEMMA BeginType ==
  ASSUME TypeOK, NEW s \in Session,
         \/ \E content \in Data, named \in BOOLEAN : BeginSave(s, content, named)
         \/ \E a \in App : BeginSubmit(s, a)
  PROVE  TypeOK'
<1>1. ASSUME NEW content \in Data, NEW named \in BOOLEAN, BeginSave(s, content, named)
      PROVE  TypeOK'
  <2> DEFINE a == view[s].app
             r == [pc |-> "saving", app |-> a, data |-> content,
                   version |-> row[a].version, named |-> named]
  <2>1. a \in App
    BY <1>1 DEF BeginSave, TypeOK, View
  <2>2. row[a].version \in Nat
    BY <2>1 DEF TypeOK, Row
  <2>3. r \in RequestState /\ r.pc = "saving"
    BY <2>1, <2>2 DEF RequestState
  <2>4. Become(s, r) /\ UNCHANGED <<row, query, view>>
    BY <1>1 DEF BeginSave
  <2> HIDE DEF r
  <2> QED BY <2>3, <2>4, BecomeType DEF TypeOK
<1>2. ASSUME NEW a \in App, BeginSubmit(s, a)
      PROVE  TypeOK'
  <2>1. [pc |-> "submitting", app |-> a] \in RequestState
    BY DEF RequestState
  <2> QED BY <1>2, <2>1, BecomeType DEF BeginSubmit, TypeOK
<1> QED BY <1>1, <1>2

LEMMA BeginAnswerType ==
  ASSUME TypeOK, NEW s \in Session, NEW a \in App, NEW sent \in Edits,
         NEW i \in DOMAIN query[a], BeginAnswer(s, a, i, sent)
  PROVE  TypeOK'
<1> DEFINE r == [pc |-> "answering", app |-> a, query |-> i,
                 edits |-> sent, data |-> row[a].data]
<1>1. i \in Nat
  BY LenProperties DEF TypeOK
<1>2. row[a].data \in Data
  BY DEF TypeOK, Row
<1>3. r \in RequestState /\ r.app = a /\ r.query = i
  BY <1>1, <1>2 DEF RequestState
<1>4. Become(s, r) /\ UNCHANGED <<row, query, view>>
  BY DEF BeginAnswer
<1> HIDE DEF r
<1> QED BY <1>3, <1>4, BecomeType DEF TypeOK

LEMMA IdleType == Idle \in RequestState /\ Idle.pc = "idle"
BY DEF RequestState, Idle

LEMMA WriteSaveType ==
  ASSUME TypeOK, NEW s \in Session, WriteSave(s)
  PROVE  TypeOK'
<1> DEFINE q == req[s]
<1>1. q.app \in App /\ q.data \in Data
  BY RequestFields DEF WriteSave, TypeOK
<1>2. CASE StillAt(row[q.app], q.version)
  <2>1. row' = [row EXCEPT ![q.app] = Saved(@, q.data)]
    BY <1>2 DEF WriteSave
  <2>2. row' \in [App -> Row]
    BY <1>1, <2>1, RowFields DEF TypeOK
  <2>3. [pc |-> "saved", app |-> q.app] \in RequestState
    BY <1>1 DEF RequestState
  <2> QED BY <1>2, <2>2, <2>3, BecomeType DEF WriteSave, TypeOK
<1>3. CASE ~StillAt(row[q.app], q.version)
  BY <1>3, IdleType, BecomeType DEF WriteSave, TypeOK
<1> QED BY <1>2, <1>3

LEMMA ReturnType ==
  ASSUME TypeOK, NEW s \in Session, Return(s)
  PROVE  TypeOK'
<1>1. view' \in [Session -> View]
  BY RequestFields, LoadedType DEF Return, TypeOK
<1> QED BY <1>1, IdleType, BecomeType DEF Return, TypeOK

LEMMA SubmitType ==
  ASSUME TypeOK, NEW s \in Session, Submit(s)
  PROVE  TypeOK'
<1>1. req[s].app \in App
  BY RequestFields DEF Submit, TypeOK
<1>2. row' \in [App -> Row]
  <2>1. row[req[s].app] \in Row
    BY <1>1 DEF TypeOK
  <2>2. Submitted(row[req[s].app]) \in Row
    BY <2>1, RowFields
  <2> QED BY <1>1, <2>2 DEF Submit, TypeOK
<1> QED BY <1>2, IdleType, BecomeType DEF Submit, TypeOK

LEMMA ReviewType ==
  ASSUME TypeOK, NEW a \in App, NEW to \in {"IN_REVIEW", "DECIDED"}, Review(a, to)
  PROVE  TypeOK'
<1>1. to \in State /\ row[a] \in Row
  BY DEF State, TypeOK
<1>2. Moved(row[a], to) \in Row
  BY <1>1, RowFields
<1> QED BY <1>2 DEF Review, TypeOK

\* A query is raised: the numbers of the earlier ones stay.
LEMMA AppendedQuery ==
  ASSUME TypeOK, NEW a \in App, NEW q \in Query
  PROVE  /\ Append(query[a], q) \in Seq(Query)
         /\ DOMAIN query[a] \subseteq DOMAIN Append(query[a], q)
         /\ \A i \in DOMAIN query[a] : Append(query[a], q)[i] = query[a][i]
<1>1. query[a] \in Seq(Query)
  BY DEF TypeOK
<1> QED BY <1>1, AppendProperties, LenProperties

LEMMA AskType ==
  ASSUME TypeOK, NEW a \in App, NEW unlocked \in SUBSET Field, Ask(a, unlocked)
  PROVE  TypeOK'
<1> DEFINE q == [status |-> "PENDING", unlocked |-> unlocked]
<1>1. q \in Query
  BY DEF Query
<1>2. row' \in [App -> Row]
  BY RowFields DEF Ask, TypeOK, State
<1>3. query' = [query EXCEPT ![a] = Append(query[a], q)]
  BY DEF Ask
<1> HIDE DEF q
<1>4. /\ query' \in [App -> Seq(Query)]
      /\ \A b \in App : DOMAIN query[b] \subseteq DOMAIN query'[b]
  BY <1>1, <1>3, AppendedQuery DEF TypeOK
<1>5. \A s \in Session : req[s].pc \in {"answering", "checked"} => req[s].app \in App
  BY RequestFields DEF TypeOK
<1> QED BY <1>2, <1>4, <1>5 DEF Ask, TypeOK

LEMMA CheckAnswerType ==
  ASSUME TypeOK, NEW s \in Session, CheckAnswer(s)
  PROVE  TypeOK'
<1> DEFINE q == req[s]
<1>1. q \in RequestState /\ q.pc = "answering" /\ q.query \in DOMAIN query[q.app]
  BY DEF CheckAnswer, TypeOK
<1>2. [q EXCEPT !.pc = "checked"] \in RequestState
  BY <1>1, RequestFields
<1>3. /\ [q EXCEPT !.pc = "checked"].query = q.query
      /\ [q EXCEPT !.pc = "checked"].app = q.app
  OBVIOUS
<1>4. \/ Become(s, [q EXCEPT !.pc = "checked"])
      \/ Become(s, Idle)
  BY DEF CheckAnswer
<1>5. UNCHANGED <<row, query, view>>
  BY DEF CheckAnswer
<1>6. CASE Become(s, Idle)
  BY <1>5, <1>6, IdleType, BecomeType DEF TypeOK
<1>7. CASE Become(s, [q EXCEPT !.pc = "checked"])
  BY <1>1, <1>2, <1>3, <1>5, <1>7, BecomeType DEF TypeOK
<1> QED BY <1>4, <1>6, <1>7

\* A query is answered: only its status changes.
LEMMA RespondedQuery ==
  ASSUME TypeOK, NEW a \in App, NEW i \in DOMAIN query[a]
  PROVE  LET qs == Responded(query[a], i)
         IN /\ qs \in Seq(Query) /\ DOMAIN qs = DOMAIN query[a]
            /\ \A j \in DOMAIN qs : qs[j].unlocked = query[a][j].unlocked
<1>1. query[a] \in Seq(Query)
  BY DEF TypeOK
<1>2. query[a][i] \in Query
  BY <1>1, ElementOfSeq
<1> DEFINE q == [query[a][i] EXCEPT !.status = "RESPONDED"]
<1>3. q \in Query /\ q.unlocked = query[a][i].unlocked
  BY <1>2 DEF Query
<1>4. Responded(query[a], i) = [query[a] EXCEPT ![i] = q]
  BY DEF Responded
<1> HIDE DEF q
<1> QED BY <1>1, <1>3, <1>4, ExceptSeq

LEMMA AnswerType ==
  ASSUME TypeOK, NEW s \in Session, Answer(s)
  PROVE  TypeOK'
<1> DEFINE q == req[s]
           qs == Responded(query[q.app], q.query)
<1>1. /\ q.app \in App /\ q.edits \in Edits /\ q.data \in Data
      /\ q.query \in DOMAIN query[q.app]
  BY RequestFields DEF Answer, TypeOK
<1>2. CASE row[q.app].state = "QUERY_PENDING"
  <2>1. row' = [row EXCEPT ![q.app] = Answered(@, q)]
    BY <1>2 DEF Answer
  <2>2. row' \in [App -> Row]
    BY <1>1, <2>1, AnsweredRow DEF TypeOK
  <2>3. query' = [query EXCEPT ![q.app] = qs]
    BY <1>2 DEF Answer
  <2>4. qs \in Seq(Query) /\ DOMAIN qs = DOMAIN query[q.app]
    BY <1>1, RespondedQuery
  <2> HIDE DEF qs
  <2>5. /\ query' \in [App -> Seq(Query)]
        /\ \A a \in App : DOMAIN query[a] \subseteq DOMAIN query'[a]
    BY <1>1, <2>3, <2>4 DEF TypeOK
  <2> QED BY <2>2, <2>5, IdleType, BecomeType DEF Answer, TypeOK
<1>3. CASE row[q.app].state # "QUERY_PENDING"
  BY <1>3, IdleType, BecomeType DEF Answer, TypeOK
<1> QED BY <1>2, <1>3

LEMMA RequestFailsType ==
  ASSUME TypeOK, NEW s \in Session, RequestFails(s)
  PROVE  TypeOK'
BY IdleType, BecomeType DEF RequestFails, TypeOK

LEMMA NextType == TypeOK /\ [Next]_vars => TypeOK'
<1> SUFFICES ASSUME TypeOK, [Next]_vars PROVE TypeOK'
  OBVIOUS
<1>1. CASE UNCHANGED vars
  BY <1>1 DEF vars, TypeOK
<1>2. CASE Next
  BY <1>2, CreateType, OpenType, BeginType, BeginAnswerType, WriteSaveType,
     ReturnType, SubmitType, ReviewType, AskType, CheckAnswerType, AnswerType,
     RequestFailsType
  DEF Next
<1> QED BY <1>1, <1>2

\* Rows, queries, loaded bodies and requests are well formed in every
\* behaviour of applications.ts, and an answer names an existing query.
THEOREM TypeCorrect == Spec => []TypeOK
BY InitType, NextType, PTL DEF Spec

(***************************************************************************)
(* What a step may do to a row.                                            *)
(***************************************************************************)
\* The version only goes up, and it does whenever an existing row changes.
RowsGrow ==
  \A a \in App : \/ row'[a] = row[a]
                 \/ row[a].state = "NEW" /\ row'[a].state = "DRAFT"
                 \/ /\ row[a].state # "NEW" /\ row'[a].state # "NEW"
                    /\ row'[a].version > row[a].version

\* A draft turns into what its snapshot says; after that the snapshot stays,
\* and so do the fields no query unlocked.
SubmissionKept ==
  \A a \in App :
    /\ (row[a].state \in {"NEW", "DRAFT"} /\ row'[a].state \notin {"NEW", "DRAFT"})
         => row'[a].snapshot = row'[a].data
    /\ row'[a].state \in {"NEW", "DRAFT"} => row'[a].snapshot = row[a].snapshot
    /\ row[a].state \notin {"NEW", "DRAFT"} =>
         /\ row'[a].state \notin {"NEW", "DRAFT"}
         /\ row'[a].snapshot = row[a].snapshot
         /\ \A f \in Field \ Unlocked(a) : row'[a].data[f] = row[a].snapshot[f]

UnlockedGrows == \A a \in App : Unlocked(a) \subseteq Unlocked(a)'

RowStep == RowsGrow /\ SubmissionKept /\ UnlockedGrows

LEMMA StillRow ==
  ASSUME TypeOK, LockedFieldsKept, UNCHANGED <<row, query>>
  PROVE  RowStep
BY DEF RowStep, RowsGrow, SubmissionKept, UnlockedGrows, LockedFieldsKept, Unlocked

LEMMA CreateRow ==
  ASSUME Inv, NEW s \in Session, NEW a \in App, NEW content \in Data, Create(s, a, content)
  PROVE  RowStep
<1>1. row'[a].state = "DRAFT" /\ \A b \in App : b # a => row'[b] = row[b]
  BY DEF Create, Inv, TypeOK, Row
<1> QED BY <1>1 DEF Create, Inv, RowStep, RowsGrow, SubmissionKept, UnlockedGrows,
           LockedFieldsKept, Unlocked

LEMMA WriteSaveRow ==
  ASSUME Inv, NEW s \in Session, WriteSave(s)
  PROVE  RowStep
<1> DEFINE q == req[s]
<1>1. q.app \in App /\ TypeOK
  BY RequestFields DEF WriteSave, Inv, TypeOK
<1>2. CASE StillAt(row[q.app], q.version)
  <2>1. row[q.app].state = "DRAFT"
    BY <1>2 DEF StillAt, WriteSave, Inv, SavesReachDrafts
  <2>2. /\ row'[q.app] = Saved(row[q.app], q.data)
        /\ \A b \in App : b # q.app => row'[b] = row[b]
    BY <1>1, <1>2 DEF WriteSave, TypeOK
  <2>3. row[q.app] \in Row
    BY <1>1 DEF TypeOK
  <2>4. /\ row'[q.app].state = "DRAFT" /\ row'[q.app].version > row[q.app].version
        /\ row'[q.app].snapshot = row[q.app].snapshot
    BY <2>1, <2>2, <2>3 DEF Saved, Row
  <2> QED BY <1>1, <2>1, <2>2, <2>4 DEF WriteSave, Inv, RowStep, RowsGrow,
             SubmissionKept, UnlockedGrows, LockedFieldsKept, Unlocked
<1>3. CASE ~StillAt(row[q.app], q.version)
  BY <1>1, <1>3, StillRow DEF WriteSave, Inv
<1> QED BY <1>2, <1>3

LEMMA SubmitRow ==
  ASSUME Inv, NEW s \in Session, Submit(s)
  PROVE  RowStep
<1> DEFINE a == req[s].app
<1>1. a \in App /\ TypeOK
  BY RequestFields DEF Submit, Inv, TypeOK
<1>2. CASE MaySubmit(row[a])
  <2>1. /\ row'[a] = Submitted(row[a])
        /\ \A b \in App : b # a => row'[b] = row[b]
    BY <1>1, <1>2 DEF Submit, TypeOK
  <2>2. row[a] \in Row
    BY <1>1 DEF TypeOK
  <2>3. /\ row'[a].state = "IN_REVIEW" /\ row'[a].version > row[a].version
        /\ row'[a].snapshot = row'[a].data
    BY <2>1, <2>2 DEF Submitted, Row
  <2> QED BY <1>1, <1>2, <2>1, <2>3 DEF Submit, MaySubmit, Inv, RowStep, RowsGrow,
             SubmissionKept, UnlockedGrows, LockedFieldsKept, Unlocked
<1>3. CASE ~MaySubmit(row[a])
  BY <1>1, <1>3, StillRow DEF Submit, Inv
<1> QED BY <1>2, <1>3

LEMMA MovedFields ==
  ASSUME NEW r \in Row, NEW to \in State
  PROVE  /\ Moved(r, to).state = to /\ Moved(r, to).version > r.version
         /\ Moved(r, to).data = r.data /\ Moved(r, to).snapshot = r.snapshot
BY DEF Moved, Row

\* An officer's transition: the data and the snapshot stay.
LEMMA MovedRow ==
  ASSUME Inv, NEW a \in App, NEW to \in State \ {"NEW", "DRAFT"},
         row[a].state = "IN_REVIEW", row' = [row EXCEPT ![a] = Moved(@, to)],
         UnlockedGrows
  PROVE  RowStep
<1>1. row[a] \in Row
  BY DEF Inv, TypeOK
<1>2. row'[a] = Moved(row[a], to) /\ \A b \in App : b # a => row'[b] = row[b]
  BY DEF Inv, TypeOK
<1>3. /\ row'[a].state = to /\ row'[a].version > row[a].version
      /\ row'[a].data = row[a].data /\ row'[a].snapshot = row[a].snapshot
  BY <1>1, <1>2, MovedFields
<1> QED BY <1>2, <1>3 DEF Inv, RowStep, RowsGrow, SubmissionKept, LockedFieldsKept

LEMMA AskRow ==
  ASSUME Inv, NEW a \in App, NEW unlocked \in SUBSET Field, Ask(a, unlocked)
  PROVE  RowStep
<1> DEFINE q == [status |-> "PENDING", unlocked |-> unlocked]
<1>1. q \in Query /\ query' = [query EXCEPT ![a] = Append(query[a], q)]
  BY DEF Query, Ask
<1> HIDE DEF q
<1>2. /\ DOMAIN query[a] \subseteq DOMAIN query'[a]
      /\ \A i \in DOMAIN query[a] : query'[a][i] = query[a][i]
      /\ \A b \in App : b # a => query'[b] = query[b]
  BY <1>1, AppendedQuery DEF Inv, TypeOK
<1>3. UnlockedGrows
  BY <1>2 DEF UnlockedGrows, Unlocked
<1>4. "QUERY_PENDING" \in State \ {"NEW", "DRAFT"}
  BY DEF State
<1> QED BY <1>3, <1>4, MovedRow DEF Ask

LEMMA AnswerRow ==
  ASSUME Inv, NEW s \in Session, Answer(s)
  PROVE  RowStep
<1> DEFINE q == req[s]
           a == q.app
<1>1. /\ a \in App /\ q.edits \in Edits /\ q.data \in Data /\ TypeOK
      /\ q.query \in DOMAIN query[a]
  BY RequestFields DEF Answer, Inv, TypeOK
<1>2. CASE row[a].state = "QUERY_PENDING"
  <2>1. /\ row'[a] = Answered(row[a], q)
        /\ \A b \in App : b # a => row'[b] = row[b]
    BY <1>1, <1>2 DEF Answer, TypeOK
  <2>2. /\ row'[a].version > row[a].version /\ row'[a].state = "IN_REVIEW"
        /\ row'[a].snapshot = row[a].snapshot
        /\ row'[a].data \in {row[a].data, Merged(q.data, q.edits)}
    BY <1>1, <2>1, AnsweredRow DEF TypeOK
  <2>3. ASSUME NEW f \in Field \ Unlocked(a)
        PROVE  Merged(q.data, q.edits)[f] = row[a].snapshot[f]
    <3>1. DOMAIN q.edits \subseteq Unlocked(a) /\ q.data[f] = row[a].snapshot[f]
      BY <2>3 DEF Answer, Inv, AnswersKeepLockedFields
    <3> QED BY <3>1 DEF Merged
  <2>4. \A f \in Field \ Unlocked(a) : row'[a].data[f] = row[a].snapshot[f]
    BY <1>1, <1>2, <2>2, <2>3 DEF Inv, LockedFieldsKept
  <2>5. UnlockedGrows
    <3> DEFINE qs == Responded(query[a], q.query)
    <3>1. query' = [query EXCEPT ![a] = qs]
      BY <1>2 DEF Answer
    <3>2. /\ DOMAIN qs = DOMAIN query[a]
          /\ \A j \in DOMAIN qs : qs[j].unlocked = query[a][j].unlocked
      BY <1>1, RespondedQuery
    <3> HIDE DEF qs
    <3> QED BY <1>1, <3>1, <3>2 DEF UnlockedGrows, Unlocked, TypeOK
  <2> QED BY <1>1, <1>2, <2>1, <2>2, <2>4, <2>5
          DEF Inv, RowStep, RowsGrow, SubmissionKept, LockedFieldsKept
<1>3. CASE row[a].state # "QUERY_PENDING"
  BY <1>1, <1>3, StillRow DEF Answer, Inv
<1> QED BY <1>2, <1>3

LEMMA NextRow ==
  ASSUME Inv, Next
  PROVE  RowStep
<1>1. ASSUME NEW a \in App, NEW to \in {"IN_REVIEW", "DECIDED"}, Review(a, to)
      PROVE  RowStep
  <2>1. to \in State \ {"NEW", "DRAFT"} /\ UnlockedGrows
    BY <1>1 DEF State, Review, UnlockedGrows, Unlocked
  <2> QED BY <1>1, <2>1, MovedRow DEF Review
<1>2. ASSUME NEW s \in Session,
             \/ \E a \in App : Open(s, a) \/ BeginSubmit(s, a)
             \/ \E content \in Data, named \in BOOLEAN : BeginSave(s, content, named)
             \/ \E a \in App, sent \in Edits :
                  \E i \in DOMAIN query[a] : BeginAnswer(s, a, i, sent)
             \/ Return(s) \/ CheckAnswer(s) \/ RequestFails(s)
      PROVE  UNCHANGED <<row, query>>
  BY <1>2 DEF Open, BeginSubmit, BeginSave, BeginAnswer, Return, CheckAnswer,
              RequestFails
<1> QED BY <1>1, <1>2, StillRow, CreateRow, WriteSaveRow, SubmitRow, AskRow,
           AnswerRow DEF Next, Inv

(***************************************************************************)
(* What a step may do to a request.                                        *)
(***************************************************************************)
\* A request in one of its states was there before, or has just come there.
LEMMA RequestStep ==
  ASSUME TypeOK, Next, NEW t \in Session
  PROVE  /\ req'[t].pc = "saving" =>
              \/ req'[t] = req[t] /\ view'[t] = view[t]
              \/ \E content \in Data, named \in BOOLEAN : BeginSave(t, content, named)
         /\ req'[t].pc = "saved" =>
              \/ req'[t] = req[t]
              \/ \E a \in App, content \in Data : Create(t, a, content) /\ req'[t].app = a
              \/ WriteSave(t) /\ req[t].pc = "saving" /\ req'[t].app = req[t].app
                   /\ row'[req[t].app] = Saved(row[req[t].app], req[t].data)
                   /\ row[req[t].app].version = req[t].version
         /\ req'[t].pc \in {"answering", "checked"} =>
              \/ req'[t] = req[t]
              \/ \E a \in App, sent \in Edits :
                   \E i \in DOMAIN query[a] : BeginAnswer(t, a, i, sent)
              \/ CheckAnswer(t)
<1>1. ASSUME NEW s \in Session, s # t,
             \/ \E a \in App, content \in Data : Create(s, a, content)
             \/ \E a \in App : Open(s, a) \/ BeginSubmit(s, a)
             \/ \E content \in Data, named \in BOOLEAN : BeginSave(s, content, named)
             \/ \E a \in App, sent \in Edits :
                  \E i \in DOMAIN query[a] : BeginAnswer(s, a, i, sent)
             \/ WriteSave(s) \/ Return(s) \/ Submit(s)
             \/ CheckAnswer(s) \/ Answer(s) \/ RequestFails(s)
      PROVE  req'[t] = req[t] /\ view'[t] = view[t]
  BY <1>1 DEF TypeOK, Become, Create, Open, BeginSubmit, BeginSave, BeginAnswer,
     WriteSave, Return, Submit, CheckAnswer, Answer, RequestFails
<1>2. ASSUME \/ \E a \in App, to \in {"IN_REVIEW", "DECIDED"} : Review(a, to)
             \/ \E a \in App, unlocked \in SUBSET Field : Ask(a, unlocked)
      PROVE  req'[t] = req[t] /\ view'[t] = view[t]
  BY <1>2 DEF Review, Ask
<1>3. ASSUME NEW a \in App, NEW content \in Data, Create(t, a, content)
      PROVE  req'[t].pc = "saved" /\ req'[t].app = a
  BY <1>3 DEF Create, Become, TypeOK
<1>4. ASSUME NEW a \in App, Open(t, a)
      PROVE  req'[t].pc = "idle"
  BY <1>4 DEF Open, Idle
<1>5. ASSUME NEW a \in App, BeginSubmit(t, a)
      PROVE  req'[t].pc = "submitting"
  BY <1>5 DEF BeginSubmit, Become, TypeOK
<1>6. ASSUME NEW content \in Data, NEW named \in BOOLEAN, BeginSave(t, content, named)
      PROVE  req'[t].pc = "saving"
  BY <1>6 DEF BeginSave, Become, TypeOK
<1>7. ASSUME NEW a \in App, NEW sent \in Edits, NEW i \in DOMAIN query[a],
             BeginAnswer(t, a, i, sent)
      PROVE  req'[t].pc = "answering"
  BY <1>7 DEF BeginAnswer, Become, TypeOK
<1>8. ASSUME Return(t) \/ Submit(t) \/ Answer(t) \/ RequestFails(t)
      PROVE  req'[t].pc = "idle"
  BY <1>8 DEF Return, Submit, Answer, RequestFails, Become, TypeOK, Idle
<1>9. ASSUME CheckAnswer(t)
      PROVE  req'[t].pc \in {"checked", "idle"}
  <2>1. req[t] \in RequestState /\ req[t].pc = "answering"
    BY <1>9 DEF CheckAnswer, TypeOK
  <2>2. [req[t] EXCEPT !.pc = "checked"].pc = "checked"
    BY <2>1 DEF RequestState, Idle
  <2> QED BY <1>9, <2>2 DEF CheckAnswer, Become, TypeOK, Idle
<1>10. ASSUME WriteSave(t)
       PROVE  \/ req'[t].pc = "idle"
              \/ /\ req'[t].pc = "saved" /\ req[t].pc = "saving"
                 /\ req'[t].app = req[t].app
                 /\ row'[req[t].app] = Saved(row[req[t].app], req[t].data)
                 /\ row[req[t].app].version = req[t].version
  <2>1. req[t].app \in App
    BY <1>10, RequestFields DEF WriteSave, TypeOK
  <2> QED BY <1>10, <2>1 DEF WriteSave, Become, TypeOK, Idle, StillAt
<1> QED BY <1>1, <1>2, <1>3, <1>4, <1>5, <1>6, <1>7, <1>8, <1>9, <1>10 DEF Next

\* What a session has loaded was there before, or is the row as it stands.
LEMMA ViewStep ==
  ASSUME TypeOK, Next, NEW t \in Session
  PROVE  \/ view'[t] = view[t]
         \/ /\ row' = row
            /\ \E a \in App : /\ view'[t] = Loaded(a)
                              /\ \/ row[a].state # "NEW"
                                 \/ req[t].pc = "saved" /\ req[t].app = a
<1>1. ASSUME NEW s \in Session, NEW a \in App, Open(s, a)
      PROVE  \/ view'[t] = view[t]
             \/ row' = row /\ view'[t] = Loaded(a) /\ row[a].state # "NEW"
  BY <1>1 DEF Open, TypeOK
<1>2. ASSUME NEW s \in Session, Return(s)
      PROVE  \/ view'[t] = view[t]
             \/ /\ row' = row /\ view'[t] = Loaded(req[t].app)
                /\ req[t].pc = "saved" /\ req[t].app \in App
  BY <1>2, RequestFields DEF Return, TypeOK
<1> QED BY <1>1, <1>2 DEF Next, Create, BeginSubmit, BeginSave, BeginAnswer,
           WriteSave, Submit, CheckAnswer, Answer, RequestFails, Review, Ask

(***************************************************************************)
(* The conjuncts of the invariant, one by one.                             *)
(***************************************************************************)
LEMMA InitInv == Init => Inv
<1> SUFFICES ASSUME Init PROVE Inv
  OBVIOUS
<1>1. \A a \in App : row[a].state = "NEW"
  BY DEF Init
<1>2. \A s \in Session : req[s].pc = "idle" /\ view[s] = None
  BY DEF Init, Idle
<1> QED BY <1>1, <1>2, InitType DEF Inv, VersionNamesData, LockedFieldsKept,
           LoadedExists, SavesReachDrafts, AnswersKeepLockedFields

\* What a session has loaded names a row, which has a version.
LEMMA ViewFields ==
  ASSUME TypeOK, NEW s \in Session, view[s] # None
  PROVE  /\ view[s].app \in App /\ view[s].version \in Nat
         /\ row[view[s].app] \in Row /\ row[view[s].app].version \in Nat
BY DEF TypeOK, View, Row

LEMMA NextVersions ==
  ASSUME Inv, Next, RowStep, TypeOK'
  PROVE  VersionNamesData' /\ LoadedExists'
<1>1. ASSUME NEW s \in Session, view'[s] # None
      PROVE  LET r == row'[view'[s].app]
             IN /\ view'[s].version <= r.version
                /\ view'[s].version = r.version => view'[s].data = r.data
                /\ r.state # "NEW"
  <2>1. CASE view'[s] = view[s]
    <3> DEFINE a == view[s].app
    <3>1. /\ a \in App /\ view[s].version \in Nat /\ row[a].version \in Nat
          /\ row'[a].version \in Nat
      BY <1>1, <2>1, ViewFields DEF Inv, TypeOK, Row
    <3>2. /\ row[a].state # "NEW" /\ view[s].version <= row[a].version
          /\ view[s].version = row[a].version => view[s].data = row[a].data
      BY <1>1, <2>1 DEF Inv, VersionNamesData, LoadedExists
    <3>3. \/ row'[a] = row[a]
          \/ row'[a].state # "NEW" /\ row'[a].version > row[a].version
      BY <3>1, <3>2 DEF RowStep, RowsGrow
    <3> QED BY <2>1, <3>1, <3>2, <3>3
  <2>2. ASSUME row' = row, NEW a \in App, view'[s] = Loaded(a),
               row[a].state # "NEW" \/ (req[s].pc = "saved" /\ req[s].app = a)
        PROVE  LET r == row'[view'[s].app]
               IN /\ view'[s].version <= r.version
                  /\ view'[s].version = r.version => view'[s].data = r.data
                  /\ r.state # "NEW"
    <3>1. row[a].state # "NEW" /\ row[a].version \in Nat
      BY <2>2 DEF Inv, LoadedExists, TypeOK, Row
    <3> QED BY <2>2, <3>1 DEF Loaded
  <2> QED BY <2>1, <2>2, ViewStep DEF Inv
<1>2. ASSUME NEW s \in Session, req'[s].pc = "saved"
      PROVE  row'[req'[s].app].state # "NEW"
  <2> DEFINE a == req'[s].app
  <2>1. a \in App
    BY <1>2, RequestFields DEF TypeOK
  <2>2. CASE req'[s] = req[s]
    BY <1>2, <2>1, <2>2 DEF Inv, LoadedExists, RowStep, RowsGrow
  <2>3. ASSUME NEW b \in App, NEW content \in Data, Create(s, b, content), a = b
        PROVE  row'[a].state # "NEW"
    BY <2>3 DEF Create, Inv, TypeOK, Row
  <2>4. ASSUME req[s].pc = "saving", a = req[s].app
        PROVE  row'[a].state # "NEW"
    BY <2>1, <2>4 DEF Inv, SavesReachDrafts, RowStep, RowsGrow
  <2> QED BY <1>2, <2>2, <2>3, <2>4, RequestStep DEF Inv
<1> QED BY <1>1, <1>2 DEF VersionNamesData, LoadedExists

LEMMA NextLocked ==
  ASSUME Inv, Next, RowStep, TypeOK'
  PROVE  LockedFieldsKept'
<1> SUFFICES ASSUME NEW a \in App, row'[a].state \notin {"NEW", "DRAFT"},
                    NEW f \in Field, f \notin Unlocked(a)'
             PROVE  row'[a].data[f] = row'[a].snapshot[f]
  BY DEF LockedFieldsKept
<1>1. f \notin Unlocked(a)
  BY DEF RowStep, UnlockedGrows
<1> QED BY <1>1 DEF RowStep, SubmissionKept

LEMMA NextSaves ==
  ASSUME Inv, Next, RowStep, TypeOK'
  PROVE  SavesReachDrafts'
<1> SUFFICES ASSUME NEW s \in Session, req'[s].pc = "saving"
             PROVE  LET q == req'[s]
                        r == row'[q.app]
                    IN /\ r.state # "NEW" /\ q.version <= r.version
                       /\ q.version = r.version => r.state = "DRAFT"
                       /\ q.named => /\ view'[s] # None
                                     /\ view'[s].app = q.app
                                     /\ view'[s].version = q.version
  BY DEF SavesReachDrafts
<1> DEFINE q == req'[s]
           a == q.app
<1>1. a \in App /\ q.version \in Nat /\ row'[a].version \in Nat /\ row[a].version \in Nat
  BY RequestFields DEF TypeOK, Inv, Row
<1>2. CASE req'[s] = req[s] /\ view'[s] = view[s]
  <2>1. /\ row[a].state # "NEW" /\ q.version <= row[a].version
        /\ q.version = row[a].version => row[a].state = "DRAFT"
        /\ q.named => /\ view'[s] # None /\ view'[s].app = a
                      /\ view'[s].version = q.version
    BY <1>2 DEF Inv, SavesReachDrafts
  <2>2. \/ row'[a] = row[a]
        \/ row'[a].state # "NEW" /\ row'[a].version > row[a].version
    BY <1>1, <2>1 DEF RowStep, RowsGrow
  <2> QED BY <1>1, <2>1, <2>2
<1>3. ASSUME NEW content \in Data, NEW named \in BOOLEAN, BeginSave(s, content, named)
      PROVE  /\ row'[a].state # "NEW" /\ q.version <= row'[a].version
             /\ q.version = row'[a].version => row'[a].state = "DRAFT"
             /\ q.named => /\ view'[s] # None /\ view'[s].app = a
                           /\ view'[s].version = q.version
  <2>1. q = [pc |-> "saving", app |-> view[s].app, data |-> content,
             version |-> row[view[s].app].version, named |-> named]
    BY <1>3 DEF BeginSave, Become, Inv, TypeOK
  <2>2. /\ row' = row /\ view' = view /\ view[s] # None
        /\ row[a].state = "DRAFT"
        /\ named => view[s].version = row[a].version
    BY <1>3, <2>1 DEF BeginSave
  <2> QED BY <1>1, <2>1, <2>2
<1> QED BY <1>2, <1>3, RequestStep DEF Inv

LEMMA NextAnswers ==
  ASSUME Inv, Next, RowStep, TypeOK'
  PROVE  AnswersKeepLockedFields'
<1>1. \A s \in Session : req'[s].pc \in {"answering", "checked"} => req'[s].app \in App
  BY RequestFields DEF TypeOK
<1> SUFFICES ASSUME NEW s \in Session, req'[s].pc \in {"answering", "checked"},
                    NEW a \in App, a = req'[s].app
             PROVE  LET q == req'[s]
                    IN /\ row'[a].state \notin {"NEW", "DRAFT"}
                       /\ \A f \in Field \ Unlocked(a)' : q.data[f] = row'[a].snapshot[f]
                       /\ q.pc = "checked" => DOMAIN q.edits \subseteq Unlocked(a)'
  BY <1>1 DEF AnswersKeepLockedFields, Unlocked
<1> DEFINE q == req'[s]
\* It is enough to look at the rows and queries before the step.
<1>2. SUFFICES /\ row[a].state \notin {"NEW", "DRAFT"}
               /\ \A f \in Field \ Unlocked(a) : q.data[f] = row[a].snapshot[f]
               /\ q.pc = "checked" => DOMAIN q.edits \subseteq Unlocked(a)
  <2>1. Unlocked(a) \subseteq Unlocked(a)'
    BY DEF RowStep, UnlockedGrows
  <2>2. row[a].state \notin {"NEW", "DRAFT"} =>
          row'[a].state \notin {"NEW", "DRAFT"} /\ row'[a].snapshot = row[a].snapshot
    BY DEF RowStep, SubmissionKept
  <2> QED BY <2>1, <2>2
<1>3. CASE req'[s] = req[s]
  BY <1>3 DEF Inv, AnswersKeepLockedFields
<1>4. ASSUME NEW b \in App, NEW sent \in Edits, NEW i \in DOMAIN query[b],
             BeginAnswer(s, b, i, sent)
      PROVE  /\ row[a].state \notin {"NEW", "DRAFT"}
             /\ \A f \in Field \ Unlocked(a) : q.data[f] = row[a].snapshot[f]
             /\ q.pc = "checked" => DOMAIN q.edits \subseteq Unlocked(a)
  <2>1. q = [pc |-> "answering", app |-> b, query |-> i, edits |-> sent,
             data |-> row[b].data]
    BY <1>4 DEF BeginAnswer, Become, Inv, TypeOK
  <2>2. row[b].state = "QUERY_PENDING"
    BY <1>4 DEF BeginAnswer
  <2> QED BY <1>1, <2>1, <2>2 DEF Inv, LockedFieldsKept
<1>5. ASSUME CheckAnswer(s)
      PROVE  /\ row[a].state \notin {"NEW", "DRAFT"}
             /\ \A f \in Field \ Unlocked(a) : q.data[f] = row[a].snapshot[f]
             /\ q.pc = "checked" => DOMAIN q.edits \subseteq Unlocked(a)
  <2> DEFINE p == req[s]
  <2>1. /\ p.pc = "answering" /\ p.query \in DOMAIN query[p.app]
        /\ p \in RequestState
    BY <1>5 DEF CheckAnswer, Inv, TypeOK
  <2>2. q = [p EXCEPT !.pc = "checked"] /\ Accepts(query[p.app][p.query], p.edits)
    BY <1>5 DEF CheckAnswer, Become, Inv, TypeOK, Idle
  <2>3. q.app = p.app /\ q.data = p.data /\ q.edits = p.edits
    BY <2>2
  <2>4. DOMAIN p.edits \subseteq Unlocked(p.app)
    BY <2>1, <2>2 DEF Accepts, Unlocked
  <2> QED BY <2>1, <2>3, <2>4 DEF Inv, AnswersKeepLockedFields
<1> QED BY <1>3, <1>4, <1>5, RequestStep DEF Inv

LEMMA NextInv == Inv /\ [Next]_vars => Inv'
<1> SUFFICES ASSUME Inv, [Next]_vars PROVE Inv'
  OBVIOUS
<1>1. CASE Next
  BY <1>1, NextType, NextRow, NextVersions, NextLocked, NextSaves, NextAnswers
  DEF Inv
<1>2. CASE UNCHANGED vars
  BY <1>2 DEF vars, Inv, TypeOK, VersionNamesData, LockedFieldsKept, LoadedExists,
     SavesReachDrafts, AnswersKeepLockedFields, Unlocked
<1> QED BY <1>1, <1>2

LEMMA InvAlways == Spec => []Inv
BY InitInv, NextInv, PTL DEF Spec

(***************************************************************************)
(* The theorems.                                                           *)
(***************************************************************************)
\* row_version is a sound concurrency token: in every behaviour a session
\* whose version is the row's has the row's data.
THEOREM VersionsNameData == Spec => []VersionNamesData
<1>1. Inv => VersionNamesData
  BY DEF Inv
<1> QED BY <1>1, InvAlways, PTL

\* Whatever saves and answers are under way, submitted form data changes only
\* in fields that a query of the application has unlocked.
THEOREM LockedFieldsAlwaysKept == Spec => []LockedFieldsKept
<1>1. Inv => LockedFieldsKept
  BY DEF Inv
<1> QED BY <1>1, InvAlways, PTL

\* No step of updateApplicationData overwrites data that the saving session,
\* which named its version, had not loaded.
THEOREM NoSaveIsLost == Spec => NoLostSave
<1>1. ASSUME Inv, Next, NEW s \in Session,
             req[s].pc = "saving", req'[s].pc = "saved", req[s].named
      PROVE  row[req[s].app].data = view[s].data
  <2>1. row[req[s].app].version = req[s].version
    <3>1. \A a \in App, content \in Data : ~Create(s, a, content)
      BY <1>1 DEF Create, Idle
    <3> QED BY <1>1, <3>1, RequestStep DEF Inv
  <2>2. view[s] # None /\ view[s].app = req[s].app /\ view[s].version = req[s].version
    BY <1>1 DEF Inv, SavesReachDrafts
  <2> QED BY <1>1, <2>1, <2>2 DEF Inv, VersionNamesData
<1> DEFINE A == \A s \in Session :
                  (req[s].pc = "saving" /\ req'[s].pc = "saved") =>
                    (req[s].named => row[req[s].app].data = view[s].data)
<1>2. Inv /\ [Next]_vars => [A]_vars
  BY <1>1
<1>3. NoLostSave <=> [][A]_vars
  BY DEF NoLostSave
<1> HIDE DEF A
<1> QED BY <1>2, <1>3, InvAlways, PTL DEF Spec

\* What was submitted is fixed at the submission: no save, answer or second
\* submission that was under way at the time takes another snapshot.  A row
\* has none as long as it is a draft.
THEOREM SnapshotAlwaysKept == Spec => SnapshotKept
<1> DEFINE NoneYet == \A a \in App : row[a].state \in {"NEW", "DRAFT"} => row[a].snapshot = None
           A == \A a \in App : row[a].snapshot # None => row'[a].snapshot = row[a].snapshot
<1>1. Init => NoneYet
  BY DEF Init
<1>2. Inv /\ NoneYet /\ [Next]_vars => NoneYet'
  <2>1. CASE Next
    BY <2>1, NextRow DEF RowStep, SubmissionKept
  <2>2. CASE UNCHANGED vars
    BY <2>2 DEF vars
  <2> QED BY <2>1, <2>2
<1>3. Inv /\ NoneYet /\ [Next]_vars => [A]_vars
  BY NextRow DEF RowStep, SubmissionKept
<1>4. SnapshotKept <=> [][A]_vars
  BY DEF SnapshotKept
<1> HIDE DEF NoneYet, A
<1> QED BY <1>1, <1>2, <1>3, <1>4, InvAlways, PTL DEF Spec

(***************************************************************************)
(* The form of a new application.                                          *)
(***************************************************************************)
\* Where the form's groups are: the form's own, and those a lookup remembers.
Place == [upn : Upn, of : Upn \cup {None}]
Copies == {data} \cup {c.data : c \in C!Looked}
Apart(d) == d["purpose"] = 0 \/ d["purpose"] # d["property"]

\* Every copy is of objects there are, and no object is of two groups; once
\* there is a property, all copies share its object; what a lookup remembers
\* of the purpose is what the form has, unless it was made since.
FormShape ==
  /\ objects \in Seq(Place \cup Nat)
  /\ \A d \in Copies : d \in [C!Group -> 0 .. Len(objects)] /\ Apart(d)
  /\ data["property"] # 0 => objects[data["property"]] \in Place
  /\ \A c \in C!Looked : c.data["property"] = data["property"] /\ c.at \in Upn
  /\ C!Looked # {} => data["property"] # 0
  /\ "purpose" \notin crossed => \A c \in C!Looked : c.data["purpose"] = data["purpose"]
  /\ typed \in Nat /\ profile \in Nat /\ C!KeepsWhatWasTyped

IsCall(c) ==
  /\ c = [kind |-> c.kind, at |-> c.at, data |-> c.data, answer |-> c.answer,
          refused |-> c.refused]
  /\ c.refused \in BOOLEAN

\* The payments that are fetched and posted are of the property chosen, what
\* says that they are settled is right, and one posting is under way.
DueCall(c) ==
  /\ IsCall(c)
  /\ c.kind \in {"status", "post"} =>
       /\ c.answer # None => c.answer.upn = c.at /\ (c.answer.settled => c.at \in settled)
       /\ ~mixed => c.at = C!ChosenUpn
  /\ c.kind = "profile" /\ c.answer # None => c.answer \in Nat
  /\ c.kind = "post" => posting /\ \A d \in calls : d.kind = "post" => d = c
  /\ c.kind = "properties" => data["property"] # 0

LedgerOfChosen ==
  ledger # None =>
    /\ ledger.settled => ledger.upn \in settled
    /\ ~mixed /\ ~loading => ledger.upn = C!ChosenUpn

DuesRight == (\A c \in calls : DueCall(c)) /\ LedgerOfChosen /\ C!CreatedWhenSettled

CreateInv == FormShape /\ DuesRight

(***************************************************************************)
(* The page of an application.                                             *)
(***************************************************************************)
RowShape(r, a) ==
  r = [arn |-> a, asked |-> r.asked, pending |-> r.pending, value |-> r.value, paid |-> r.paid]
RowIs(r, a) ==
  /\ RowShape(r, a)
  /\ r.asked \in Nat /\ r.pending \in BOOLEAN /\ r.value \in Nat /\ r.paid \in BOOLEAN
FormIs(f) == f \in [of : Arn, value : Nat, typed : BOOLEAN]

IsPageCall(c) ==
  /\ c = [kind |-> c.kind, arn |-> c.arn, query |-> c.query, form |-> c.form,
          answer |-> c.answer, refused |-> c.refused, mounted |-> c.mounted, seeded |-> c.seeded]
  /\ c.arn \in Arn
  /\ c.answer # None => RowIs(c.answer, c.arn) /\ c.answer.asked <= rows[c.arn].asked

\* Copies are older than their rows.
RowsTyped ==
  /\ DOMAIN rows = Arn /\ \A a \in Arn : RowIs(rows[a], a)
  /\ DOMAIN cache = Arn
  /\ \A a \in Arn : cache[a] # None => RowIs(cache[a], a) /\ cache[a].asked <= rows[a].asked
  /\ edits \in Nat
  /\ detail # None => /\ detail.arn \in Arn
                      /\ detail.asked \in Nat /\ detail.asked <= rows[detail.arn].asked

\* The form is of the application shown, and a field that was not typed is
\* the row's, unless it was overtaken.
FormOfShown ==
  current # None =>
    /\ current.arn \in Arn /\ FormIs(form) /\ form.of = current.arn
    /\ ~form.typed /\ form.of \notin outdated => form.value = rows[form.of].value

\* An answer carries a form of its own application, and what it would
\* overwrite untyped is the row's still.
Carries(c) ==
  /\ c.query = <<c.query[1], c.query[2]>> /\ c.query[1] \in Arn
  /\ c.query[2] \in Nat /\ c.query[2] <= rows[c.query[1]].asked
  /\ FormIs(c.form) /\ c.form.of = c.arn
  /\ c.answer = None /\ D!Accepted(c) /\ ~c.form.typed /\ c.arn \notin outdated =>
       c.form.value = rows[c.arn].value

\* It is the only answer the page waits for, and has the form on the page as
\* long as that was not opened anew.
Awaited(c) ==
  /\ c.mounted => responding /\ \A d \in calls : d.kind = "respond" /\ d.mounted => d = c
  /\ c.seeded /\ current # None => c.mounted /\ c.form = form

\* Payments are fetched for the application shown, and posted for it unless
\* another was opened meanwhile.
PaidForShown(c) ==
  /\ c.kind = "status" => online /\ c.arn = current.arn
  /\ c.kind = "post" /\ c.mounted /\ ~mixed => c.arn = current.arn

CallRight(c) ==
  IsPageCall(c) /\ PaidForShown(c) /\ (c.kind = "respond" => Carries(c) /\ Awaited(c))

DetailInv ==
  /\ RowsTyped /\ FormOfShown /\ \A c \in calls : CallRight(c)
  /\ {online, mixed} \subseteq BOOLEAN
  /\ D!AnswersAsShown /\ D!PaysAsShown

\* One side moves, and nothing has happened on the others.
PagesInv ==
  /\ beside = "create" => CreateInv
  /\ beside # "create" => typed = 0 /\ created = {}
  /\ beside = "detail" => DetailInv
  /\ beside # "detail" => wrong = {} /\ current = None

(***************************************************************************)
(* Writing into the form of a new application.                             *)
(***************************************************************************)
LEMMA GroupsAre ==
  /\ "property" \in C!Group /\ "purpose" \in C!Group /\ "applicant" \in C!Group
  /\ "purpose" # "property" /\ "applicant" # "property" /\ "applicant" # "purpose"
BY DEF C!Group

\* What a write into a copy d leaves.
Wrote(d, g, x) ==
  /\ objects' \in Seq(Place \cup Nat) /\ Len(objects) \in Nat /\ Len(objects') \in Nat
  /\ Len(objects) <= Len(objects')
  /\ data' \in [C!Group -> 0 .. Len(objects')]
  /\ data'[g] # 0 /\ objects'[data'[g]] = x
  /\ \A h \in C!Group \ {g} : data'[h] = d[h]
  /\ \A i \in 1 .. Len(objects) : i # data'[g] => objects'[i] = objects[i]

LEMMA AppendedObject ==
  ASSUME objects \in Seq(Place \cup Nat), NEW x \in Place \cup Nat, objects' = Append(objects, x)
  PROVE  /\ objects' \in Seq(Place \cup Nat) /\ Len(objects') = Len(objects) + 1
         /\ Len(objects) \in Nat
         /\ objects'[Len(objects) + 1] = x
         /\ \A i \in 1 .. Len(objects) : objects'[i] = objects[i]
<1> DEFINE S == Place \cup Nat
<1>1. objects \in Seq(S) /\ x \in S
  OBVIOUS
<1> HIDE DEF S
<1>2. /\ Append(objects, x) \in Seq(S) /\ Len(Append(objects, x)) = Len(objects) + 1
      /\ \A i \in 1 .. Len(objects) : Append(objects, x)[i] = objects[i]
      /\ Append(objects, x)[Len(objects) + 1] = x
  BY <1>1, AppendProperties
<1>3. Len(objects) \in Nat
  BY <1>1, LenProperties
<1> QED BY <1>2, <1>3 DEF S

LEMMA CopiedIs ==
  ASSUME objects \in Seq(Place \cup Nat), NEW d \in [C!Group -> 0 .. Len(objects)],
         NEW g \in C!Group, NEW x \in Place \cup Nat, C!Copied(d, g, x)
  PROVE  Wrote(d, g, x) /\ data'[g] = Len(objects) + 1
<1>1. /\ objects' \in Seq(Place \cup Nat) /\ Len(objects') = Len(objects) + 1
      /\ Len(objects) \in Nat
      /\ objects'[Len(objects) + 1] = x
      /\ \A i \in 1 .. Len(objects) : objects'[i] = objects[i]
  BY AppendedObject DEF C!Copied
<1>2. data' = [d EXCEPT ![g] = Len(objects) + 1]
  BY DEF C!Copied
<1>3. data'[g] = Len(objects) + 1 /\ \A h \in C!Group \ {g} : data'[h] = d[h]
  BY <1>2
<1>4. Len(objects) + 1 # 0 /\ Len(objects) <= Len(objects') /\ Len(objects') \in Nat
      /\ Len(objects) + 1 \in 0 .. Len(objects')
      /\ \A i \in 0 .. Len(objects) : i \in 0 .. Len(objects')
  BY <1>1
<1>5. data' \in [C!Group -> 0 .. Len(objects')]
  BY <1>2, <1>4
<1> QED BY <1>1, <1>3, <1>4, <1>5 DEF Wrote

LEMMA WrittenIs ==
  ASSUME objects \in Seq(Place \cup Nat), NEW d \in [C!Group -> 0 .. Len(objects)],
         NEW g \in C!Group, NEW x \in Place \cup Nat, C!Write(d, g, x)
  PROVE  /\ Wrote(d, g, x)
         /\ data'[g] = IF d[g] = 0 THEN Len(objects) + 1 ELSE d[g]
<1>1. CASE d[g] = 0
  <2>1. C!Copied(d, g, x)
    BY <1>1 DEF C!Write, C!Written, C!Copied
  <2> QED BY <1>1, <2>1, CopiedIs
<1>2. CASE d[g] # 0
  <2> DEFINE S == Place \cup Nat
             k == d[g]
  <2>1. objects' = [objects EXCEPT ![k] = x] /\ data' = d
    BY <1>2 DEF C!Write, C!Written
  <2>2. objects \in Seq(S) /\ x \in S
    OBVIOUS
  <2>3. Len(objects) \in Nat /\ DOMAIN objects = 1 .. Len(objects)
    BY <2>2, LenProperties
  <2>4. k \in 1 .. Len(objects)
    BY <1>2, <2>3
  <2> HIDE DEF S, k
  <2>5. objects' \in Seq(S) /\ Len(objects') = Len(objects)
        /\ objects'[k] = x /\ \A i \in 1 .. Len(objects) : i # k => objects'[i] = objects[i]
    BY <2>1, <2>2, <2>3, <2>4, ExceptSeq
  <2> USE DEF k
  <2>6. Len(objects) <= Len(objects') /\ k # 0
    BY <2>3, <2>4, <2>5
  <2>7. data' \in [C!Group -> 0 .. Len(objects')] /\ data'[g] = k
    BY <2>1, <2>5
  <2> QED BY <1>2, <2>1, <2>3, <2>5, <2>6, <2>7 DEF Wrote, S
<1> QED BY <1>1, <1>2

LEMMA CopyIs ==
  ASSUME FormShape, NEW d \in Copies
  PROVE  /\ d \in [C!Group -> 0 .. Len(objects)] /\ Apart(d) /\ Len(objects) \in Nat
         /\ d["property"] \in 0 .. Len(objects) /\ d["purpose"] \in 0 .. Len(objects)
<1>1. Len(objects) \in Nat
  BY LenProperties DEF FormShape
<1>2. d \in [C!Group -> 0 .. Len(objects)] /\ Apart(d)
  BY DEF FormShape
<1> QED BY <1>1, <1>2, GroupsAre

LEMMA ChosenIs ==
  ASSUME FormShape
  PROVE  /\ data["property"] = 0 => C!ChosenUpn = None
         /\ data["property"] # 0 => /\ C!ChosenUpn = objects[data["property"]].upn
                                    /\ C!ChosenUpn \in Upn /\ C!ChosenUpn # None
BY PagesAssumption DEF FormShape, C!ChosenUpn, C!Content, Place

\* The shape after a step, from what the step leaves of it.
LEMMA ShapeAfter ==
  ASSUME objects' \in Seq(Place \cup Nat), typed' \in Nat, profile' \in Nat,
         \A d \in Copies' : d \in [C!Group -> 0 .. Len(objects')] /\ Apart(d),
         data'["property"] # 0 => objects'[data'["property"]] \in Place,
         \A c \in C!Looked' : /\ c.data["property"] = data'["property"] /\ c.at \in Upn
                              /\ data'["property"] # 0
                              /\ "purpose" \notin crossed' =>
                                   c.data["purpose"] = data'["purpose"],
         typed' # 0 /\ "purpose" \notin crossed' =>
           data'["purpose"] # 0 /\ objects'[data'["purpose"]] = typed'
  PROVE  FormShape'
BY DEF FormShape, C!KeepsWhatWasTyped, C!Content, Apart

LEMMA PropertyWritten ==
  ASSUME FormShape, NEW d \in Copies, d["property"] = data["property"],
         NEW p \in Place, C!Write(d, "property", p), C!Looked' \subseteq C!Looked,
         "purpose" \notin crossed => d["purpose"] = data["purpose"],
         UNCHANGED <<crossed, typed, profile>>
  PROVE  FormShape' /\ data'["property"] # 0 /\ C!ChosenUpn' = p.upn
<1>1. /\ Wrote(d, "property", p)
      /\ data'["property"] = IF d["property"] = 0 THEN Len(objects) + 1 ELSE d["property"]
  BY CopyIs, WrittenIs, GroupsAre DEF FormShape
<1>2. data'["purpose"] = d["purpose"] /\ data'["property"] # 0
      /\ objects'[data'["property"]] = p
  BY <1>1, GroupsAre DEF Wrote
<1>3. Apart(data') /\ d["purpose"] \in 0 .. Len(objects) /\ Len(objects) \in Nat
  BY <1>1, <1>2, CopyIs DEF Apart
<1>4. \A c \in C!Looked' : /\ c \in C!Looked /\ c.data \in Copies
                           /\ c.data["property"] = data'["property"]
  BY <1>1 DEF FormShape, Copies
<1>5. \A e \in Copies' : e \in [C!Group -> 0 .. Len(objects')] /\ Apart(e)
  <2>1. ASSUME NEW c \in C!Looked'
        PROVE  c.data \in [C!Group -> 0 .. Len(objects')] /\ Apart(c.data)
    <3>1. c.data \in [C!Group -> 0 .. Len(objects)] /\ Apart(c.data)
      BY <1>4, <2>1, CopyIs
    <3>2. \A i \in 0 .. Len(objects) : i \in 0 .. Len(objects')
      BY <1>1 DEF Wrote
    <3> QED BY <3>1, <3>2
  <2>2. data' \in [C!Group -> 0 .. Len(objects')]
    BY <1>1 DEF Wrote
  <2> QED BY <1>3, <2>1, <2>2 DEF Copies
<1>6. \A c \in C!Looked' : /\ c.at \in Upn
                           /\ "purpose" \notin crossed' => c.data["purpose"] = data'["purpose"]
  BY <1>2, <1>4 DEF FormShape
<1>7. ASSUME typed' # 0, "purpose" \notin crossed'
      PROVE  data'["purpose"] # 0 /\ objects'[data'["purpose"]] = typed'
  <2>1. data["purpose"] # 0 /\ objects[data["purpose"]] = typed /\ data'["purpose"] = data["purpose"]
    BY <1>2, <1>7 DEF FormShape, C!KeepsWhatWasTyped, C!Content
  <2>2. data["purpose"] \in 1 .. Len(objects) /\ data["purpose"] # data'["property"]
    BY <1>2, <1>3, <2>1 DEF Apart
  <2> QED BY <1>1, <1>7, <2>1, <2>2 DEF Wrote
<1>8. FormShape'
  BY <1>1, <1>2, <1>4, <1>5, <1>6, <1>7, ShapeAfter DEF Wrote, FormShape
<1>9. C!ChosenUpn' = p.upn
  BY <1>2 DEF C!ChosenUpn, C!Content
<1> QED BY <1>2, <1>8, <1>9

LEMMA PurposeWritten ==
  ASSUME FormShape, C!Type
  PROVE  /\ FormShape' /\ C!ChosenUpn' = C!ChosenUpn
         /\ data'["property"] # 0 <=> data["property"] # 0
<1>0. data \in Copies
  BY DEF Copies
<1>1. /\ typed' = typed + 1 /\ C!Write(data, "purpose", typed') /\ typed' \in Nat
      /\ UNCHANGED <<calls, profile>>
      /\ data["purpose"] = 0 /\ C!Looked # {} => "purpose" \in crossed'
      /\ crossed \subseteq crossed'
  BY DEF C!Type, C!Crossing, FormShape
<1>2. PICK n \in Nat : n = typed'
  BY <1>1
<1>3. /\ Wrote(data, "purpose", n)
      /\ data'["purpose"] = IF data["purpose"] = 0 THEN Len(objects) + 1 ELSE data["purpose"]
  BY <1>0, <1>1, <1>2, CopyIs, WrittenIs, GroupsAre DEF FormShape
<1>4. data'["property"] = data["property"] /\ data'["purpose"] # 0
      /\ objects'[data'["purpose"]] = n
  BY <1>3, GroupsAre DEF Wrote
<1>5. data["property"] # data'["purpose"] /\ data["property"] \in 0 .. Len(objects)
  BY <1>0, <1>3, <1>4, CopyIs DEF Apart
<1>6. data["property"] # 0 => objects'[data["property"]] = objects[data["property"]]
  BY <1>3, <1>5 DEF Wrote
<1>7. C!Looked' = C!Looked
  BY <1>1 DEF C!Looked
<1>8. \A e \in Copies' : e \in [C!Group -> 0 .. Len(objects')] /\ Apart(e)
  <2>1. ASSUME NEW c \in C!Looked
        PROVE  c.data \in [C!Group -> 0 .. Len(objects')] /\ Apart(c.data)
    <3>1. c.data \in [C!Group -> 0 .. Len(objects)] /\ Apart(c.data)
      BY <2>1, CopyIs DEF Copies
    <3>2. \A i \in 0 .. Len(objects) : i \in 0 .. Len(objects')
      BY <1>3 DEF Wrote
    <3> QED BY <3>1, <3>2
  <2>2. data' \in [C!Group -> 0 .. Len(objects')] /\ Apart(data')
    BY <1>3, <1>4, <1>5 DEF Wrote, Apart
  <2> QED BY <1>7, <2>1, <2>2 DEF Copies
<1>9. \A c \in C!Looked' :
        /\ c.data["property"] = data'["property"] /\ c.at \in Upn /\ data'["property"] # 0
        /\ "purpose" \notin crossed' => c.data["purpose"] = data'["purpose"]
  BY <1>1, <1>3, <1>4, <1>7 DEF FormShape
<1>10. FormShape'
  BY <1>1, <1>2, <1>3, <1>4, <1>6, <1>8, <1>9, ShapeAfter DEF Wrote, FormShape
<1>11. C!ChosenUpn' = C!ChosenUpn
  BY <1>4, <1>6 DEF C!ChosenUpn, C!Content
<1> QED BY <1>4, <1>10, <1>11

LEMMA ApplicantCopied ==
  ASSUME FormShape, NEW n \in Nat, C!Copied(data, "applicant", n), C!Looked' \subseteq C!Looked,
         UNCHANGED <<typed, profile>>, "purpose" \in crossed' <=> "purpose" \in crossed
  PROVE  /\ FormShape' /\ C!ChosenUpn' = C!ChosenUpn
         /\ data'["property"] # 0 <=> data["property"] # 0
<1>0. data \in Copies
  BY DEF Copies
<1>3. Wrote(data, "applicant", n) /\ data'["applicant"] = Len(objects) + 1
  BY <1>0, CopyIs, CopiedIs, GroupsAre DEF FormShape
<1>4. data'["property"] = data["property"] /\ data'["purpose"] = data["purpose"]
  BY <1>3, GroupsAre DEF Wrote
<1>5. /\ data["property"] # 0 => objects'[data["property"]] = objects[data["property"]]
      /\ data["purpose"] # 0 => objects'[data["purpose"]] = objects[data["purpose"]]
  <2>1. /\ data["property"] \in 0 .. Len(objects) /\ data["purpose"] \in 0 .. Len(objects)
        /\ Len(objects) \in Nat
    BY <1>0, CopyIs
  <2>2. data["property"] # Len(objects) + 1 /\ data["purpose"] # Len(objects) + 1
    BY <2>1
  <2>3. /\ data["property"] # 0 => data["property"] \in 1 .. Len(objects)
        /\ data["purpose"] # 0 => data["purpose"] \in 1 .. Len(objects)
    BY <2>1
  <2> QED BY <1>3, <2>2, <2>3 DEF Wrote
<1>8. \A e \in Copies' : e \in [C!Group -> 0 .. Len(objects')] /\ Apart(e)
  <2>1. ASSUME NEW c \in C!Looked
        PROVE  c.data \in [C!Group -> 0 .. Len(objects')] /\ Apart(c.data)
    <3>1. c.data \in [C!Group -> 0 .. Len(objects)] /\ Apart(c.data)
      BY <2>1, CopyIs DEF Copies
    <3>2. \A i \in 0 .. Len(objects) : i \in 0 .. Len(objects')
      BY <1>3 DEF Wrote
    <3> QED BY <3>1, <3>2
  <2>2. data' \in [C!Group -> 0 .. Len(objects')] /\ Apart(data')
    BY <1>0, <1>3, <1>4, CopyIs DEF Wrote, Apart
  <2> QED BY <2>1, <2>2 DEF Copies
<1>9. \A c \in C!Looked' :
        /\ c.data["property"] = data'["property"] /\ c.at \in Upn /\ data'["property"] # 0
        /\ "purpose" \notin crossed' => c.data["purpose"] = data'["purpose"]
  BY <1>4 DEF FormShape
<1>10. typed' # 0 /\ "purpose" \notin crossed' =>
         data'["purpose"] # 0 /\ objects'[data'["purpose"]] = typed'
  BY <1>4, <1>5 DEF FormShape, C!KeepsWhatWasTyped, C!Content
<1>11. FormShape'
  BY <1>3, <1>4, <1>5, <1>8, <1>9, <1>10, ShapeAfter DEF Wrote, FormShape
<1>12. C!ChosenUpn' = C!ChosenUpn
  BY <1>4, <1>5 DEF C!ChosenUpn, C!Content
<1> QED BY <1>4, <1>11, <1>12

\* Nothing written: lookups may begin, be served and end.
LEMMA FormStays ==
  ASSUME FormShape, UNCHANGED <<objects, data, typed, crossed>>, profile' \in Nat,
         \A c \in C!Looked' :
           \/ \E b \in C!Looked : c.data = b.data /\ c.at = b.at
           \/ c.data = data /\ c.at \in Upn /\ data["property"] # 0
  PROVE  FormShape' /\ C!ChosenUpn' = C!ChosenUpn
<1>1. \A c \in C!Looked' :
        /\ c.data["property"] = data'["property"] /\ c.at \in Upn /\ data'["property"] # 0
        /\ "purpose" \notin crossed' => c.data["purpose"] = data'["purpose"]
        /\ c.data \in Copies
  BY DEF FormShape, Copies
<1>2. Copies' \subseteq Copies
  BY <1>1 DEF Copies
<1>3. FormShape'
  BY <1>1, <1>2, ShapeAfter DEF FormShape, C!KeepsWhatWasTyped, C!Content
<1>4. C!ChosenUpn' = C!ChosenUpn
  BY DEF C!ChosenUpn, C!Content
<1> QED BY <1>3, <1>4

(***************************************************************************)
(* The payments of the property chosen.                                    *)
(***************************************************************************)
\* A call that a step leaves under way.
LEMMA CallKept ==
  ASSUME NEW c, DueCall(c), settled \subseteq settled',
         ~mixed' => ~mixed /\ C!ChosenUpn' = C!ChosenUpn,
         data["property"] # 0 => data'["property"] # 0,
         c.kind = "post" => posting' /\ \A d \in calls' : d.kind = "post" => d = c
  PROVE  DueCall(c)'
BY DEF DueCall, IsCall

LEMMA CallIs ==
  ASSUME NEW kind, NEW at
  PROVE  /\ IsCall(C!Call(kind, at)) /\ C!Call(kind, at).kind = kind /\ C!Call(kind, at).at = at
         /\ C!Call(kind, at).answer = None
BY DEF IsCall, C!Call

LEMMA RefetchKeeps ==
  ASSUME DuesRight, NEW cs, \A c \in cs : c \in calls \/ c = C!Call("properties", None),
         NEW u \in Upn, C!Refetch(u, cs), C!ChosenUpn' = u, data'["property"] # 0,
         UNCHANGED <<settled, posting, created>>
  PROVE  DuesRight' /\ \A c \in calls' : c \in cs \/ c.kind = "status"
<1> DEFINE n == C!Call("status", u)
<1>1. /\ loading' = TRUE /\ ledger' = ledger /\ mixed' = (mixed \/ posting)
      /\ \A c \in calls' : c \in cs \/ c = n
  BY PagesAssumption DEF C!Refetch, C!Stopped
<1>2. IsCall(n) /\ n.kind = "status" /\ n.at = u /\ n.answer = None
  BY CallIs
<1> HIDE DEF n
<1>3. DueCall(n)'
  BY <1>2 DEF DueCall, IsCall
<1>4. ASSUME NEW c \in calls', c \in cs, c \in calls PROVE DueCall(c)'
  <2>1. DueCall(c)
    BY <1>4 DEF DuesRight
  <2>2. c.kind = "post" => mixed'
    BY <1>1, <2>1 DEF DueCall
  <2>3. c.kind \in {"status"} => c \notin C!Stopped(cs)
    BY DEF C!Stopped
  <2>4. c \in C!Stopped(cs) \/ c = n
    BY <1>4, PagesAssumption DEF C!Refetch, n
  <2>5. CASE c = n
    BY <1>3, <2>5
  <2>6. CASE c # n
    <3>1. c.kind # "status"
      BY <2>3, <2>4, <2>6
    <3>2. \A d \in calls' : d.kind = "post" => d \in calls
      <4>1. \A d \in calls' : d \in calls \/ d = C!Call("properties", None) \/ d = n
        BY <1>1
      <4>2. C!Call("properties", None).kind = "properties"
        BY CallIs
      <4> QED BY <1>2, <4>1, <4>2
    <3>3. c.kind = "post" => posting' /\ \A d \in calls' : d.kind = "post" => d = c
      BY <2>1, <3>2 DEF DueCall
    <3> QED BY <2>1, <2>2, <3>1, <3>3 DEF DueCall, IsCall
  <2> QED BY <2>5, <2>6
<1>5. ASSUME NEW c, c = C!Call("properties", None) PROVE DueCall(c)'
  <2>1. IsCall(c) /\ c.kind = "properties"
    BY <1>5, CallIs
  <2> QED BY <2>1 DEF DueCall, IsCall
<1>6. LedgerOfChosen' /\ C!CreatedWhenSettled'
  BY <1>1 DEF DuesRight, LedgerOfChosen, C!CreatedWhenSettled
<1>7. \A c \in calls' : DueCall(c)'
  BY <1>1, <1>3, <1>4, <1>5
<1> QED BY <1>1, <1>2, <1>6, <1>7 DEF DuesRight

\* The effect of a change of the number.
LEMMA EffectKeeps ==
  ASSUME DuesRight, NEW cs, \A c \in cs : c \in calls \/ c = C!Call("properties", None),
         C!Effect(cs), C!ChosenUpn' \in Upn, data'["property"] # 0,
         UNCHANGED <<settled, posting, created>>
  PROVE  DuesRight'
<1>1. CASE C!ChosenUpn' = C!ChosenUpn
  <2>1. calls' = cs /\ UNCHANGED <<ledger, loading, mixed>>
    BY <1>1 DEF C!Effect
  <2>2. ASSUME NEW c, c = C!Call("properties", None) PROVE DueCall(c)' /\ c.kind # "post"
    <3>1. IsCall(c) /\ c.kind = "properties"
      BY <2>2, CallIs
    <3> QED BY <3>1 DEF DueCall, IsCall
  <2>3. ASSUME NEW c \in cs, c \in calls PROVE DueCall(c)'
    <3>1. DueCall(c)
      BY <2>3 DEF DuesRight
    <3>2. c.kind = "post" => posting' /\ \A d \in calls' : d.kind = "post" => d = c
      BY <2>1, <2>2, <3>1 DEF DueCall
    <3> QED BY <1>1, <2>1, <3>1, <3>2, CallKept
  <2>4. LedgerOfChosen' /\ C!CreatedWhenSettled'
    BY <1>1, <2>1 DEF DuesRight, LedgerOfChosen, C!CreatedWhenSettled
  <2> QED BY <2>1, <2>2, <2>3, <2>4 DEF DuesRight
<1>2. CASE C!ChosenUpn' # C!ChosenUpn
  <2>1. PICK u \in Upn : u = C!ChosenUpn'
    OBVIOUS
  <2>2. C!Refetch(u, cs)
    BY <1>2, <2>1 DEF C!Effect, C!Refetch
  <2> QED BY <2>1, <2>2, RefetchKeeps
<1> QED BY <1>1, <1>2

\* What is under way after it.
LEMMA EffectCalls ==
  ASSUME NEW cs, C!Effect(cs)
  PROVE  \A c \in calls' : c \in cs \/ c.kind = "status"
BY CallIs DEF C!Effect, C!Refetch, C!Stopped

(***************************************************************************)
(* The steps of the form.                                                  *)
(***************************************************************************)
LEMMA InitCreate == C!Init => CreateInv
<1> SUFFICES ASSUME C!Init PROVE CreateInv
  OBVIOUS
<1>1. /\ objects = <<1>> /\ data = [g \in C!Group |-> IF g = "applicant" THEN 1 ELSE 0]
      /\ calls = {} /\ typed = 0 /\ profile = 1 /\ ledger = None /\ created = {}
  BY DEF C!Init
<1>2. objects \in Seq(Place \cup Nat) /\ Len(objects) = 1
  <2>1. 1 \in Place \cup Nat
    OBVIOUS
  <2> QED BY <1>1, <2>1
<1>3. data["property"] = 0 /\ data["purpose"] = 0
  BY <1>1, GroupsAre
<1>4. Copies = {data} /\ C!Looked = {}
  BY <1>1 DEF Copies, C!Looked
<1>5. data \in [C!Group -> 0 .. Len(objects)] /\ Apart(data)
  BY <1>1, <1>2, <1>3 DEF Apart
<1>6. FormShape
  BY <1>1, <1>2, <1>3, <1>4, <1>5 DEF FormShape, C!KeepsWhatWasTyped
<1> QED BY <1>1, <1>6 DEF CreateInv, DuesRight, LedgerOfChosen, C!CreatedWhenSettled

\* Steps that leave the payments alone, and the property.
LEMMA DuesStay ==
  ASSUME DuesRight, UNCHANGED <<settled, ledger, loading, posting, mixed, created>>,
         C!ChosenUpn' = C!ChosenUpn, data["property"] # 0 => data'["property"] # 0,
         \A c \in calls' :
           c \in calls \/ (IsCall(c) /\ c.kind \in {"lookup", "profile"} /\ c.answer = None)
  PROVE  DuesRight'
<1>1. ASSUME NEW c \in calls', c \in calls PROVE DueCall(c)'
  <2>1. DueCall(c)
    BY <1>1 DEF DuesRight
  <2>2. c.kind = "post" => posting' /\ \A d \in calls' : d.kind = "post" => d = c
    BY <2>1 DEF DueCall
  <2> QED BY <2>1, <2>2, CallKept
<1>2. ASSUME NEW c \in calls', c \notin calls PROVE DueCall(c)'
  BY <1>2 DEF DueCall, IsCall
<1> QED BY <1>1, <1>2 DEF DuesRight, LedgerOfChosen, C!CreatedWhenSettled

LEMMA TypeStep == ASSUME CreateInv, C!Type PROVE CreateInv'
<1>1. UNCHANGED <<settled, ledger, loading, posting, mixed, created, calls>>
  BY DEF C!Type, C!dues
<1>2. /\ FormShape' /\ C!ChosenUpn' = C!ChosenUpn
      /\ data["property"] # 0 => data'["property"] # 0
  BY PurposeWritten DEF CreateInv
<1>3. DuesRight /\ \A c \in calls' : c \in calls
  BY <1>1 DEF CreateInv
<1>4. DuesRight'
  BY <1>1, <1>2, <1>3, DuesStay
<1> QED BY <1>2, <1>4 DEF CreateInv

LEMMA ChooseStep ==
  ASSUME CreateInv, NEW u \in Upn, NEW of \in Upn \cup {None},
         C!Write(data, "property", C!Property(u, of)), C!Effect(calls),
         UNCHANGED <<settled, profile, posting, typed, created, crossed>>
  PROVE  CreateInv'
<1>1. C!Property(u, of) \in Place /\ C!Property(u, of).upn = u
  BY DEF C!Property, Place
<1>2. C!Looked' \subseteq C!Looked
  BY EffectCalls DEF C!Looked
<1>3. data \in Copies
  BY DEF Copies
<1>4. FormShape' /\ data'["property"] # 0 /\ C!ChosenUpn' = u
  BY <1>1, <1>2, <1>3, PropertyWritten DEF CreateInv
<1>5. DuesRight'
  BY <1>4, EffectKeeps DEF CreateInv
<1> QED BY <1>4, <1>5 DEF CreateInv

LEMMA ChooseSteps ==
  ASSUME CreateInv, NEW u \in Upn, C!TypeUpn(u) \/ C!SelectUpn(u) PROVE CreateInv'
<1>1. CASE C!SelectUpn(u)
  BY <1>1, ChooseStep DEF C!SelectUpn
<1>2. CASE C!TypeUpn(u)
  <2> DEFINE of == IF data["property"] = 0 THEN None ELSE C!Content(data, "property").of
  <2>1. of \in Upn \cup {None}
    BY DEF CreateInv, FormShape, C!Content, Place
  <2>2. C!Write(data, "property", C!Property(u, of)) /\ C!Effect(calls)
        /\ UNCHANGED <<settled, profile, posting, typed, created, crossed>>
    BY <1>2 DEF C!TypeUpn
  <2> HIDE DEF of
  <2> QED BY <2>1, <2>2, ChooseStep
<1> QED BY <1>1, <1>2

LEMMA LookupStep == ASSUME CreateInv, C!Lookup PROVE CreateInv'
<1> DEFINE n == [C!Call("lookup", C!ChosenUpn) EXCEPT !.data = data]
<1>1. /\ C!ChosenUpn # None /\ calls' = calls \cup {n}
      /\ UNCHANGED <<settled, profile, objects, data, ledger, loading, posting, typed, created,
                     crossed, mixed>>
  BY DEF C!Lookup, C!dues
<1>2. IsCall(n) /\ n.kind = "lookup" /\ n.at = C!ChosenUpn /\ n.data = data /\ n.answer = None
  <2> DEFINE b == C!Call("lookup", C!ChosenUpn)
  <2>1. IsCall(b) /\ b.kind = "lookup" /\ b.at = C!ChosenUpn /\ b.answer = None
    BY CallIs
  <2>2. n = [b EXCEPT !.data = data]
    OBVIOUS
  <2> HIDE DEF n, b
  <2> QED BY <2>1, <2>2 DEF IsCall
<1> HIDE DEF n
<1>3. data["property"] # 0 /\ C!ChosenUpn \in Upn
  BY <1>1, ChosenIs DEF CreateInv
<1>4. \A c \in C!Looked' :
        \/ \E b \in C!Looked : c.data = b.data /\ c.at = b.at
        \/ c.data = data /\ c.at \in Upn /\ data["property"] # 0
  BY <1>1, <1>2, <1>3 DEF C!Looked
<1>5. profile' \in Nat
  BY <1>1 DEF CreateInv, FormShape
<1>6. FormShape' /\ C!ChosenUpn' = C!ChosenUpn
  BY <1>1, <1>4, <1>5, FormStays DEF CreateInv
<1>7. DuesRight'
  <2>1. DuesRight /\ (data["property"] # 0 => data'["property"] # 0)
    BY <1>1 DEF CreateInv
  <2>2. \A c \in calls' :
          c \in calls \/ (IsCall(c) /\ c.kind \in {"lookup", "profile"} /\ c.answer = None)
    BY <1>1, <1>2
  <2> QED BY <1>1, <1>6, <2>1, <2>2, DuesStay
<1> QED BY <1>6, <1>7 DEF CreateInv

LEMMA ProfileStep == ASSUME CreateInv, C!ChangeProfile PROVE CreateInv'
<1> DEFINE n == C!Call("profile", None)
<1>1. /\ calls' = calls \cup {n} /\ profile' = profile + 1
      /\ UNCHANGED <<settled, objects, data, ledger, loading, posting, typed, created,
                     crossed, mixed>>
  BY DEF C!ChangeProfile, C!dues, C!form
<1>2. IsCall(n) /\ n.kind = "profile" /\ n.answer = None
  BY CallIs
<1> HIDE DEF n
<1>4. \A c \in C!Looked' : \E b \in C!Looked : c.data = b.data /\ c.at = b.at
  BY <1>1, <1>2 DEF C!Looked
<1>5. profile' \in Nat
  BY <1>1 DEF CreateInv, FormShape
<1>6. FormShape' /\ C!ChosenUpn' = C!ChosenUpn
  BY <1>1, <1>4, <1>5, FormStays DEF CreateInv
<1>7. DuesRight'
  <2>1. DuesRight /\ (data["property"] # 0 => data'["property"] # 0)
    BY <1>1 DEF CreateInv
  <2>2. \A c \in calls' :
          c \in calls \/ (IsCall(c) /\ c.kind \in {"lookup", "profile"} /\ c.answer = None)
    BY <1>1, <1>2
  <2> QED BY <1>1, <1>6, <2>1, <2>2, DuesStay
<1> QED BY <1>6, <1>7 DEF CreateInv

LEMMA PayStep == ASSUME CreateInv, C!Pay PROVE CreateInv'
<1>0. PICK u : u = C!ChosenUpn
  OBVIOUS
<1> DEFINE n == C!Call("post", u)
<1>1. /\ calls' = calls \cup {n} /\ posting = FALSE /\ posting' = TRUE
      /\ mixed' = (mixed \/ loading)
      /\ UNCHANGED <<settled, profile, objects, data, ledger, loading, typed, created, crossed>>
  BY <1>0 DEF C!Pay, C!form
<1>2. IsCall(n) /\ n.kind = "post" /\ n.at = C!ChosenUpn /\ n.answer = None
  BY <1>0, CallIs
<1> HIDE DEF n
<1>4. \A c \in C!Looked' : \E b \in C!Looked : c.data = b.data /\ c.at = b.at
  BY <1>1, <1>2 DEF C!Looked
<1>5. profile' \in Nat
  BY <1>1 DEF CreateInv, FormShape
<1>6. FormShape' /\ C!ChosenUpn' = C!ChosenUpn
  BY <1>1, <1>4, <1>5, FormStays DEF CreateInv
<1>7. \A c \in calls : DueCall(c) /\ c.kind # "post"
  BY <1>1 DEF CreateInv, DuesRight, DueCall
<1>8. \A c \in calls : DueCall(c)'
  <2> SUFFICES ASSUME NEW c \in calls PROVE DueCall(c)'
    OBVIOUS
  <2>1. ~mixed' => ~mixed
    BY <1>1
  <2> QED BY <1>1, <1>6, <1>7, <2>1, CallKept
<1>9. DueCall(n)'
  <2>1. \A d \in calls' : d.kind = "post" => d = n
    BY <1>1, <1>7
  <2>2. posting' = TRUE
    BY <1>1
  <2> QED BY <1>2, <1>6, <2>1, <2>2 DEF DueCall, IsCall
<1>10. LedgerOfChosen' /\ C!CreatedWhenSettled'
  BY <1>1, <1>6 DEF CreateInv, DuesRight, LedgerOfChosen, C!CreatedWhenSettled
<1>11. \A c \in calls' : DueCall(c)'
  BY <1>1, <1>8, <1>9
<1> QED BY <1>6, <1>10, <1>11 DEF CreateInv, DuesRight

\* The button is there for the property whose payments are shown.
LEMMA CreateStep == ASSUME CreateInv, C!Create PROVE CreateInv'
<1>1. /\ C!MayCreate /\ created' = created \cup {C!ChosenUpn}
      /\ UNCHANGED <<settled, profile, objects, data, ledger, loading, posting, calls, typed,
                     crossed, mixed>>
  BY DEF C!Create, C!dues, C!form
<1>4. \A c \in C!Looked' : \E b \in C!Looked : c.data = b.data /\ c.at = b.at
  BY <1>1 DEF C!Looked
<1>5. profile' \in Nat
  BY <1>1 DEF CreateInv, FormShape
<1>6. FormShape' /\ C!ChosenUpn' = C!ChosenUpn
  BY <1>1, <1>4, <1>5, FormStays DEF CreateInv
<1>7. ~mixed => C!ChosenUpn \in settled
  BY <1>1 DEF C!MayCreate, CreateInv, DuesRight, LedgerOfChosen
<1>8. \A c \in calls' : DueCall(c)'
  BY <1>1, <1>6 DEF CreateInv, DuesRight, DueCall, IsCall
<1>9. LedgerOfChosen' /\ C!CreatedWhenSettled'
  BY <1>1, <1>6, <1>7 DEF CreateInv, DuesRight, LedgerOfChosen, C!CreatedWhenSettled
<1> QED BY <1>6, <1>8, <1>9 DEF CreateInv, DuesRight

\* A call that is answered differs in its answer alone.
LEMMA ServeStep == ASSUME CreateInv, NEW c \in calls, C!Serve(c) PROVE CreateInv'
<1>0. DueCall(c) /\ IsCall(c)
  BY DEF CreateInv, DuesRight, DueCall
<1>1. PICK v : v = C!Answered(c)
  OBVIOUS
<1>2. PICK w : w = C!Refused(c)
  OBVIOUS
<1>a. PICK b : b = [c EXCEPT !.answer = v]
  OBVIOUS
<1>b. PICK e : e = [b EXCEPT !.refused = w]
  OBVIOUS
<1>3. IsCall(e) /\ e.kind = c.kind /\ e.at = c.at /\ e.data = c.data /\ e.answer = v
  <2>1. w \in BOOLEAN
    BY <1>2 DEF C!Refused
  <2>2. /\ b = [kind |-> b.kind, at |-> b.at, data |-> b.data, answer |-> b.answer,
                refused |-> b.refused]
        /\ b.kind = c.kind /\ b.at = c.at /\ b.data = c.data /\ b.answer = v
    BY <1>0, <1>a DEF IsCall
  <2> QED BY <1>b, <2>1, <2>2 DEF IsCall
<1>4. /\ calls' = (calls \ {c}) \cup {e} /\ settled \subseteq settled'
      /\ UNCHANGED <<profile, objects, data, ledger, loading, posting, typed, created, crossed,
                     mixed>>
  BY <1>1, <1>2, <1>a, <1>b DEF C!Serve, C!dues, C!form
<1>5. \A d \in C!Looked' : \E n \in C!Looked : d.data = n.data /\ d.at = n.at
  BY <1>3, <1>4 DEF C!Looked
<1>6. profile' \in Nat
  BY <1>4 DEF CreateInv, FormShape
<1>7. FormShape' /\ C!ChosenUpn' = C!ChosenUpn
  BY <1>4, <1>5, <1>6, FormStays DEF CreateInv
<1>8. /\ c.kind \in {"status", "post"} => v.upn = c.at /\ (v.settled => c.at \in settled')
      /\ c.kind = "profile" => v \in Nat
  BY <1>1 DEF C!Answered, CreateInv, FormShape
<1>9. \A d \in calls' : d.kind = "post" =>
        /\ posting' /\ c.kind = "post" => d = e
        /\ d # e => d \in calls
  <2>1. \A d \in calls : d.kind = "post" => posting /\ \A n \in calls : n.kind = "post" => n = d
    BY DEF CreateInv, DuesRight, DueCall
  <2> QED BY <1>3, <1>4, <2>1
<1>10. ASSUME NEW d \in calls, d # c PROVE DueCall(d)'
  <2>1. DueCall(d)
    BY DEF CreateInv, DuesRight
  <2>2. d.kind = "post" => posting' /\ \A n \in calls' : n.kind = "post" => n = d
    BY <1>3, <1>4, <1>10, <2>1 DEF DueCall
  <2>3. ~mixed' => ~mixed /\ C!ChosenUpn' = C!ChosenUpn
    BY <1>4, <1>7
  <2> QED BY <1>4, <2>1, <2>2, <2>3, CallKept
<1>11. DueCall(e)'
  <2>1. ~mixed' => (e.kind \in {"status", "post"} => e.at = C!ChosenUpn')
    BY <1>0, <1>3, <1>4, <1>7 DEF DueCall
  <2>2. e.kind = "post" => posting' /\ \A n \in calls' : n.kind = "post" => n = e
    BY <1>0, <1>3, <1>4, <1>9 DEF DueCall
  <2>3. e.kind = "properties" => data'["property"] # 0
    BY <1>0, <1>3, <1>4 DEF DueCall
  <2> QED BY <1>3, <1>8, <2>1, <2>2, <2>3 DEF DueCall, IsCall
<1>12. LedgerOfChosen' /\ C!CreatedWhenSettled'
  BY <1>4, <1>7 DEF CreateInv, DuesRight, LedgerOfChosen, C!CreatedWhenSettled
<1>13. \A d \in calls' : DueCall(d)'
  BY <1>4, <1>10, <1>11
<1> QED BY <1>7, <1>12, <1>13 DEF CreateInv, DuesRight

\* A call that ends without writing into the form, chosen or payments.
LEMMA CallEnds ==
  ASSUME CreateInv, NEW c \in calls, calls' = calls \ {c},
         UNCHANGED <<settled, profile, objects, data, typed, created, crossed, mixed>>,
         posting' = posting \/ c.kind = "post",
         LedgerOfChosen'
  PROVE  CreateInv'
<1>1. \A d \in C!Looked' : \E b \in C!Looked : d.data = b.data /\ d.at = b.at
  BY DEF C!Looked
<1>2. profile' \in Nat
  BY DEF CreateInv, FormShape
<1>3. FormShape' /\ C!ChosenUpn' = C!ChosenUpn
  BY <1>1, <1>2, FormStays DEF CreateInv
<1>4. ASSUME NEW d \in calls' PROVE DueCall(d)'
  <2>1. DueCall(d) /\ DueCall(c) /\ d # c
    BY <1>4 DEF CreateInv, DuesRight
  <2>2. d.kind = "post" => posting' /\ \A b \in calls' : b.kind = "post" => b = d
    BY <1>4, <2>1 DEF DueCall
  <2> QED BY <1>3, <2>1, <2>2, CallKept
<1> QED BY <1>3, <1>4 DEF CreateInv, DuesRight, C!CreatedWhenSettled

LEMMA HandleStep ==
  ASSUME CreateInv, NEW c \in calls, NEW lost \in BOOLEAN, ~lost => c.answer # None,
         C!Handle(c, lost)
  PROVE  CreateInv'
<1>0. /\ DueCall(c) /\ UNCHANGED <<settled, profile, typed, created>>
      /\ CreateInv
  BY DEF CreateInv, DuesRight, C!Handle
<1>1. CASE C!AnswerLookup(c, lost)
  <2>1. c.kind = "lookup" /\ UNCHANGED <<posting, crossed>>
    BY <1>1 DEF C!AnswerLookup
  <2>2. CASE lost
    <3>1. calls' = calls \ {c} /\ UNCHANGED <<objects, data, ledger, loading, mixed>>
      BY <1>1, <2>2 DEF C!AnswerLookup
    <3>2. LedgerOfChosen'
      BY <1>0, <3>1 DEF CreateInv, DuesRight, LedgerOfChosen, C!ChosenUpn, C!Content
    <3> QED BY <1>0, <2>1, <3>1, <3>2, CallEnds
  <2>3. CASE ~lost
    <3> DEFINE p == C!Property(c.at, c.at)
               cs == (calls \ {c}) \cup {C!Call("properties", None)}
    <3>1. C!Write(c.data, "property", p) /\ C!Effect(cs)
      BY <1>1, <2>3 DEF C!AnswerLookup
    <3>2. c \in C!Looked
      BY <2>1 DEF C!Looked
    <3>3. /\ c.data \in Copies /\ c.data["property"] = data["property"] /\ c.at \in Upn
          /\ "purpose" \notin crossed => c.data["purpose"] = data["purpose"]
      BY <1>0, <3>2 DEF CreateInv, FormShape, Copies
    <3>4. p \in Place /\ p.upn = c.at
      BY <3>3 DEF C!Property, Place
    <3>5. C!Looked' \subseteq C!Looked
      <4>1. \A d \in calls' : d \in cs \/ d.kind = "status"
        BY <3>1, EffectCalls
      <4>2. C!Call("properties", None).kind = "properties"
        BY CallIs
      <4> QED BY <4>1, <4>2 DEF C!Looked
    <3> HIDE DEF p
    <3>6. FormShape' /\ data'["property"] # 0 /\ C!ChosenUpn' = c.at
      BY <1>0, <2>1, <3>1, <3>3, <3>4, <3>5, PropertyWritten DEF CreateInv
    <3>7. \A d \in cs : d \in calls \/ d = C!Call("properties", None)
      OBVIOUS
    <3> HIDE DEF cs
    <3>8. DuesRight'
      BY <1>0, <2>1, <3>1, <3>3, <3>6, <3>7, EffectKeeps DEF CreateInv
    <3> QED BY <3>6, <3>8 DEF CreateInv
  <2> QED BY <2>2, <2>3
<1>2. CASE C!AnswerStatus(c, lost)
  <2>1. /\ c.kind = "status" /\ calls' = calls \ {c} /\ loading' = FALSE
        /\ ledger' = (IF lost THEN None ELSE c.answer)
        /\ UNCHANGED <<objects, data, posting, crossed, mixed>>
    BY <1>2 DEF C!AnswerStatus, C!form
  <2>2. C!ChosenUpn' = C!ChosenUpn
    BY <2>1 DEF C!ChosenUpn, C!Content
  <2>3. ~lost => /\ c.answer.upn = c.at /\ (c.answer.settled => c.at \in settled)
                 /\ ~mixed => c.at = C!ChosenUpn
    BY <1>0, <2>1 DEF DueCall
  <2>4. LedgerOfChosen'
    BY <1>0, <2>1, <2>2, <2>3 DEF LedgerOfChosen
  <2> QED BY <1>0, <2>1, <2>4, CallEnds
<1>3. CASE C!AnswerPost(c, lost)
  <2>1. /\ c.kind = "post" /\ calls' = calls \ {c} /\ posting' = FALSE
        /\ ledger' = (IF lost THEN ledger ELSE c.answer)
        /\ UNCHANGED <<objects, data, loading, crossed, mixed>>
    BY <1>3 DEF C!AnswerPost, C!form
  <2>2. C!ChosenUpn' = C!ChosenUpn
    BY <2>1 DEF C!ChosenUpn, C!Content
  <2>3. ~lost => /\ c.answer.upn = c.at /\ (c.answer.settled => c.at \in settled)
                 /\ ~mixed => c.at = C!ChosenUpn
    BY <1>0, <2>1 DEF DueCall
  <2>4. LedgerOfChosen'
    BY <1>0, <2>1, <2>2, <2>3 DEF LedgerOfChosen, CreateInv, DuesRight
  <2> QED BY <1>0, <2>1, <2>4, CallEnds
<1>4. CASE C!AnswerProfile(c, lost)
  <2>1. /\ c.kind = "profile" /\ calls' = calls \ {c} /\ C!Crossing("applicant")
        /\ UNCHANGED <<ledger, loading, posting, mixed>>
        /\ IF lost THEN UNCHANGED <<objects, data>> ELSE C!Copied(data, "applicant", c.answer)
    BY <1>4 DEF C!AnswerProfile, C!dues
  <2>2. C!Looked' \subseteq C!Looked /\ ("purpose" \in crossed' <=> "purpose" \in crossed)
    BY <2>1 DEF C!Looked, C!Crossing
  <2>3. /\ FormShape' /\ C!ChosenUpn' = C!ChosenUpn
        /\ data["property"] # 0 => data'["property"] # 0
    <3>1. CASE lost
      <4>1. Copies' \subseteq Copies
        BY <2>1, <2>2, <3>1 DEF Copies
      <4> QED BY <1>0, <2>1, <2>2, <3>1, <4>1
           DEF CreateInv, FormShape, Copies, C!KeepsWhatWasTyped, C!Content, C!ChosenUpn
    <3>2. CASE ~lost
      <4>1. c.answer \in Nat
        BY <1>0, <2>1, <3>2 DEF DueCall
      <4>2. PICK n \in Nat : n = c.answer
        BY <4>1
      <4> QED BY <1>0, <2>1, <2>2, <3>2, <4>2, ApplicantCopied DEF CreateInv
    <3> QED BY <3>1, <3>2
  <2>4. DuesRight /\ \A d \in calls' : d \in calls
    BY <1>0, <2>1 DEF CreateInv
  <2>5. DuesRight'
    BY <1>0, <2>1, <2>3, <2>4, DuesStay
  <2> QED BY <2>3, <2>5 DEF CreateInv
<1>5. CASE C!AnswerProperties(c, lost)
  <2>1. c.kind = "properties" /\ UNCHANGED <<objects, data, posting, crossed>>
    BY <1>5 DEF C!AnswerProperties
  <2>2. CASE lost
    <3>1. calls' = calls \ {c} /\ UNCHANGED <<ledger, loading, mixed>>
      BY <1>5, <2>2 DEF C!AnswerProperties
    <3>2. LedgerOfChosen'
      BY <1>0, <2>1, <3>1 DEF CreateInv, DuesRight, LedgerOfChosen, C!ChosenUpn, C!Content
    <3> QED BY <1>0, <2>1, <3>1, <3>2, CallEnds
  <2>3. CASE ~lost
    <3> DEFINE cs == calls \ {c}
    <3>1. C!Refetch(C!ChosenUpn, cs)
      BY <1>5, <2>3 DEF C!AnswerProperties
    <3>2. data["property"] # 0 /\ C!ChosenUpn \in Upn
      BY <1>0, <2>1, ChosenIs DEF CreateInv, DueCall
    <3>3. PICK u \in Upn : u = C!ChosenUpn
      BY <3>2
    <3>4. C!ChosenUpn' = u /\ data'["property"] # 0
      BY <2>1, <3>2, <3>3 DEF C!ChosenUpn, C!Content
    <3>5. C!Refetch(u, cs)
      BY <3>1, <3>3 DEF C!Refetch
    <3>6. \A d \in cs : d \in calls \/ d = C!Call("properties", None)
      OBVIOUS
    <3>7. DuesRight' /\ \A d \in calls' : d \in cs \/ d.kind = "status"
      BY <1>0, <2>1, <3>4, <3>5, <3>6, RefetchKeeps DEF CreateInv
    <3>8. \A d \in C!Looked' : \E b \in C!Looked : d.data = b.data /\ d.at = b.at
      BY <3>7 DEF C!Looked
    <3>9. profile' \in Nat
      BY <1>0 DEF CreateInv, FormShape
    <3>10. FormShape'
      BY <1>0, <2>1, <3>8, <3>9, FormStays DEF CreateInv
    <3> QED BY <3>7, <3>10 DEF CreateInv
  <2> QED BY <2>2, <2>3
<1> QED BY <1>1, <1>2, <1>3, <1>4, <1>5 DEF C!Handle

LEMMA NextCreate == ASSUME CreateInv, C!Next PROVE CreateInv'
<1>1. ASSUME NEW c \in calls, C!Answer(c) \/ C!Lose(c) PROVE CreateInv'
  <2>1. CASE C!Lose(c)
    BY <2>1, HandleStep DEF C!Lose
  <2>2. CASE C!Answer(c)
    <3>1. c.answer # None /\ C!Handle(c, c.refused)
      BY <2>2 DEF C!Answer
    <3>2. CASE c.refused = TRUE
      BY <3>1, <3>2, HandleStep
    <3>3. CASE c.refused = FALSE
      BY <3>1, <3>3, HandleStep
    <3>4. c.refused \in BOOLEAN
      BY DEF CreateInv, DuesRight, DueCall, IsCall
    <3> QED BY <3>2, <3>3, <3>4
  <2> QED BY <1>1, <2>1, <2>2
<1> QED BY <1>1, TypeStep, LookupStep, PayStep, CreateStep, ProfileStep, ChooseSteps, ServeStep
     DEF C!Next

(***************************************************************************)
(* The page of an application: what a step leaves.                         *)
(***************************************************************************)
LEMMA RowParts ==
  ASSUME NEW a, NEW r, RowIs(r, a)
  PROVE  /\ D!Application(r).arn = a /\ D!Detail(r).arn = a /\ D!Detail(r).asked = r.asked
         /\ D!Seed(r).of = a /\ D!Seed(r).value = r.value /\ D!Seed(r).typed = FALSE
         /\ D!Ledger(r).arn = a /\ r.arn = a
         /\ a \in Arn => FormIs(D!Seed(r))
BY DEF RowIs, RowShape, D!Application, D!Detail, D!Seed, D!Ledger, FormIs

\* A form is there.
LEMMA FormThere == ASSUME NEW f, FormIs(f) PROVE f # None
BY PagesAssumption DEF FormIs

LEMMA PageCallIs ==
  ASSUME NEW kind, NEW a \in Arn
  PROVE  /\ IsPageCall(D!Call(kind, a)) /\ D!Call(kind, a).kind = kind /\ D!Call(kind, a).arn = a
         /\ D!Call(kind, a).answer = None
         /\ D!Call(kind, a).mounted = TRUE /\ D!Call(kind, a).seeded = TRUE
BY DEF IsPageCall, D!Call

\* What a row says of a copy stays true as the row goes on.
LEMMA RowsGoOn ==
  ASSUME RowsTyped, NEW a \in Arn, NEW r, RowIs(r, a), rows[a].asked <= r.asked,
         rows' = [rows EXCEPT ![a] = r], UNCHANGED <<cache, detail>>, edits' \in Nat
  PROVE  /\ RowsTyped' /\ rows'[a] = r /\ \A b \in Arn \ {a} : rows'[b] = rows[b]
         /\ \A b \in Arn : rows[b].asked \in Nat /\ rows'[b].asked \in Nat
                           /\ rows[b].asked <= rows'[b].asked
<1>1. /\ DOMAIN rows' = Arn /\ rows'[a] = r /\ \A b \in Arn \ {a} : rows'[b] = rows[b]
  BY DEF RowsTyped
<1>2. \A b \in Arn : RowIs(rows[b], b) /\ RowIs(rows'[b], b)
  BY <1>1 DEF RowsTyped
<1>3. \A b \in Arn : rows[b].asked \in Nat /\ rows'[b].asked \in Nat
                     /\ rows[b].asked <= rows'[b].asked
  <2>1. \A b \in Arn : rows[b].asked \in Nat /\ rows'[b].asked \in Nat
    BY <1>2 DEF RowIs
  <2>2. ASSUME NEW b \in Arn PROVE rows[b].asked <= rows'[b].asked
    <3>1. CASE b = a
      BY <1>1, <3>1
    <3>2. CASE b # a
      <4>1. rows'[b] = rows[b]
        BY <1>1, <3>2
      <4> QED BY <2>1, <4>1
    <3> QED BY <3>1, <3>2
  <2> QED BY <2>1, <2>2
<1>4. ASSUME NEW b \in Arn, cache[b] # None
      PROVE  RowIs(cache[b], b) /\ cache[b].asked <= rows'[b].asked
  <2>1. RowIs(cache[b], b) /\ cache[b].asked <= rows[b].asked /\ cache[b].asked \in Nat
    BY <1>4 DEF RowsTyped, RowIs
  <2>2. rows[b].asked \in Nat /\ rows'[b].asked \in Nat /\ rows[b].asked <= rows'[b].asked
    BY <1>3
  <2> QED BY <2>1, <2>2
<1>5. ASSUME detail # None
      PROVE  detail.arn \in Arn /\ detail.asked \in Nat /\ detail.asked <= rows'[detail.arn].asked
  <2>1. detail.arn \in Arn /\ detail.asked \in Nat /\ detail.asked <= rows[detail.arn].asked
    BY <1>5 DEF RowsTyped
  <2>2. /\ rows[detail.arn].asked \in Nat /\ rows'[detail.arn].asked \in Nat
        /\ rows[detail.arn].asked <= rows'[detail.arn].asked
    BY <1>3, <2>1
  <2> QED BY <2>1, <2>2
<1>6. RowsTyped'
  <2>1. DOMAIN cache = Arn
    BY DEF RowsTyped
  <2> QED BY <1>1, <1>2, <1>4, <1>5, <2>1 DEF RowsTyped
<1> QED BY <1>1, <1>3, <1>6

\* A call that only its answer, the page or the form may have left behind.
Alike(d, c) ==
  /\ d.kind = c.kind /\ d.arn = c.arn /\ d.query = c.query /\ d.form = c.form
  /\ d.answer = c.answer

\* What a call carries is still right when neither rows nor what is outdated
\* have lost anything.
LEMMA CarriesKept ==
  ASSUME NEW c, NEW d, Alike(d, c), Carries(c), UNCHANGED rows, outdated \subseteq outdated'
  PROVE  Carries(d)'
BY DEF Carries, Alike, D!Accepted, FormIs

LEMMA CallStays ==
  ASSUME NEW c, CallRight(c), UNCHANGED <<rows, form>>, outdated \subseteq outdated',
         ~mixed' => ~mixed, current'.arn = current.arn, current' # None => current # None,
         c.kind = "status" => online',
         c.kind = "respond" /\ c.mounted => responding',
         \A d \in calls' : d.kind = "respond" /\ d.mounted => d \in calls
  PROVE  CallRight(c)'
<1>1. IsPageCall(c)'
  BY DEF CallRight, IsPageCall, RowIs
<1>2. PaidForShown(c)'
  BY DEF CallRight, PaidForShown
<1>3. c.kind = "respond" => Carries(c)'
  <2>1. Alike(c, c)
    BY DEF Alike
  <2> QED BY <2>1, CarriesKept DEF CallRight
<1>4. c.kind = "respond" => Awaited(c)'
  BY DEF CallRight, Awaited
<1> QED BY <1>1, <1>2, <1>3, <1>4 DEF CallRight

\* A call of an older form, and one the page no longer waits for.
LEMMA OlderCall ==
  ASSUME NEW c, IsPageCall(c), NEW s, NEW d, d = [c EXCEPT !.seeded = s]
  PROVE  /\ IsPageCall(d) /\ Alike(d, c) /\ d.mounted = c.mounted /\ d.seeded = s
         /\ d.refused = c.refused
<1>1. /\ d = [kind |-> d.kind, arn |-> d.arn, query |-> d.query, form |-> d.form,
              answer |-> d.answer, refused |-> d.refused, mounted |-> d.mounted,
              seeded |-> d.seeded]
      /\ d.kind = c.kind /\ d.arn = c.arn /\ d.query = c.query /\ d.form = c.form
      /\ d.answer = c.answer /\ d.refused = c.refused /\ d.mounted = c.mounted /\ d.seeded = s
  BY DEF IsPageCall
<1> QED BY <1>1 DEF IsPageCall, Alike

LEMMA LeftCall ==
  ASSUME NEW c, IsPageCall(c), NEW m, NEW d, d = [c EXCEPT !.mounted = m]
  PROVE  IsPageCall(d) /\ Alike(d, c) /\ d.mounted = m
<1>1. /\ d = [kind |-> d.kind, arn |-> d.arn, query |-> d.query, form |-> d.form,
              answer |-> d.answer, refused |-> d.refused, mounted |-> d.mounted,
              seeded |-> d.seeded]
      /\ d.kind = c.kind /\ d.arn = c.arn /\ d.query = c.query /\ d.form = c.form
      /\ d.answer = c.answer /\ d.mounted = m
  BY DEF IsPageCall
<1> QED BY <1>1 DEF IsPageCall, Alike

LEMMA ResetKeeps ==
  ASSUME DetailInv, NEW a \in Arn, NEW r, RowIs(r, a), NEW cs, cs \subseteq calls,
         D!Reset(r, cs), current'.arn = a, UNCHANGED <<rows, online, responding>>
  PROVE  FormOfShown' /\ (\A d \in calls' : CallRight(d)') /\ mixed' \in BOOLEAN
         /\ (loading' = online)
<1>0. /\ r.arn = a /\ FormIs(D!Seed(r))
      /\ D!Seed(r).of = a /\ D!Seed(r).value = r.value /\ D!Seed(r).typed = FALSE
  BY DEF RowIs, RowShape, D!Seed, FormIs
<1>1. /\ form' = D!Seed(r) /\ loading' = online /\ mixed' = (mixed \/ D!Posting)
      /\ outdated' = (IF r.value = rows[a].value THEN outdated ELSE outdated \cup {a})
      /\ calls' = D!Superseded(D!Stopped(cs)) \cup (IF online THEN D!Refetch(a) ELSE {})
  BY <1>0 DEF D!Reset
<1>2. /\ FormIs(form') /\ form'.of = a /\ form'.value = r.value /\ form'.typed = FALSE
  BY <1>0, <1>1
<1>3. FormOfShown'
  BY <1>1, <1>2 DEF FormOfShown
<1>4. \A c \in calls : CallRight(c) /\ IsPageCall(c)
  BY DEF DetailInv, CallRight
<1> DEFINE Older(c) == [c EXCEPT !.seeded = c.seeded /\ c.kind # "respond"]
<1>5. \A c \in calls : /\ IsPageCall(Older(c)) /\ Alike(Older(c), c)
                       /\ Older(c).mounted = c.mounted
                       /\ Older(c).seeded = (c.seeded /\ c.kind # "respond")
  BY <1>4, OlderCall
<1>6. ASSUME NEW d \in calls'
      PROVE  \/ \E c \in calls : c.kind # "status" /\ d = Older(c)
             \/ online /\ d \in D!Refetch(a)
  BY <1>1, <1>6 DEF D!Superseded, D!Stopped
<1>7. \A d \in D!Refetch(a) : /\ IsPageCall(d) /\ d.kind \in {"load", "status"} /\ d.arn = a
  <2>1. IsPageCall(D!Call("load", a)) /\ D!Call("load", a).kind = "load"
        /\ D!Call("load", a).arn = a
    BY PageCallIs
  <2>2. IsPageCall(D!Call("status", a)) /\ D!Call("status", a).kind = "status"
        /\ D!Call("status", a).arn = a
    BY PageCallIs
  <2> QED BY <2>1, <2>2 DEF D!Refetch
<1> HIDE DEF Older
<1>8. \A d, e \in calls' :
        d.kind = "respond" /\ d.mounted => (e.kind = "respond" /\ e.mounted => d = e)
  <2>1. \A c, b \in calls :
          c.kind = "respond" /\ c.mounted => (b.kind = "respond" /\ b.mounted => c = b)
    BY <1>4 DEF CallRight, Awaited
  <2> SUFFICES ASSUME NEW d \in calls', NEW e \in calls',
                      d.kind = "respond" /\ d.mounted, e.kind = "respond" /\ e.mounted
               PROVE  d = e
    OBVIOUS
  <2>2. PICK c \in calls : d = Older(c)
    BY <1>6, <1>7
  <2>3. PICK b \in calls : e = Older(b)
    BY <1>6, <1>7
  <2>4. c = b
    BY <1>5, <2>1, <2>2, <2>3 DEF Alike
  <2> QED BY <2>2, <2>3, <2>4
<1>9. ASSUME NEW d \in calls', NEW c \in calls, c.kind # "status", d = Older(c)
      PROVE  CallRight(d)'
  <2>1. IsPageCall(d) /\ Alike(d, c) /\ d.mounted = c.mounted /\ CallRight(c)
    BY <1>4, <1>5, <1>9
  <2>2. IsPageCall(d)'
    BY <2>1 DEF IsPageCall, RowIs
  <2>3. PaidForShown(d)'
    <3>1. d.kind = "post" => mixed'
      BY <1>1, <1>9, <2>1 DEF Alike, D!Posting
    <3>2. d.kind # "status"
      BY <1>9, <2>1 DEF Alike
    <3> QED BY <3>1, <3>2 DEF PaidForShown
  <2>4. ASSUME d.kind = "respond" PROVE Carries(d)' /\ Awaited(d)'
    <3>1. c.kind = "respond" /\ ~d.seeded
      BY <1>5, <1>9, <2>1, <2>4 DEF Alike
    <3>2. outdated \subseteq outdated'
      BY <1>1
    <3>3. Carries(d)'
      BY <2>1, <3>1, <3>2, CarriesKept DEF CallRight
    <3>4. d.mounted => responding'
      BY <2>1, <3>1 DEF CallRight, Awaited
    <3>5. d.mounted => \A e \in calls' : e.kind = "respond" /\ e.mounted => e = d
      BY <1>8, <2>4
    <3> QED BY <3>1, <3>3, <3>4, <3>5 DEF Awaited
  <2> QED BY <2>2, <2>3, <2>4 DEF CallRight
<1>10. ASSUME NEW d \in D!Refetch(a), online PROVE CallRight(d)'
  <2>1. IsPageCall(d)'
    BY <1>7 DEF IsPageCall, RowIs
  <2> QED BY <1>7, <1>10, <2>1 DEF CallRight, PaidForShown
<1>11. mixed' \in BOOLEAN
  BY <1>1
<1>12. \A d \in calls' : CallRight(d)'
  BY <1>6, <1>9, <1>10
<1> QED BY <1>1, <1>3, <1>11, <1>12

\* Opening a row that was fetched or kept.
LEMMA BecomeKeeps ==
  ASSUME DetailInv, NEW a \in Arn, NEW r, RowIs(r, a), r.asked <= rows[a].asked,
         NEW cs, cs \subseteq calls, D!Become(r, cs), DOMAIN cache' = Arn,
         \A b \in Arn : cache'[b] # None => RowIs(cache'[b], b) /\ cache'[b].asked <= rows[b].asked,
         UNCHANGED <<rows, online, responding, ledger, wrong, edits>>
  PROVE  DetailInv'
<1>1. /\ current' = D!Application(r) /\ detail' = D!Detail(r)
      /\ current'.arn = a /\ detail'.arn = a /\ detail'.asked = r.asked /\ r.arn = a
      /\ r.asked \in Nat
  BY DEF D!Become, RowIs, RowShape, D!Application, D!Detail
<1>2. RowsTyped'
  BY <1>1 DEF RowsTyped, DetailInv
<1>3. D!AnswersAsShown'
  BY DEF DetailInv, D!AnswersAsShown
<1>4. CASE current # None /\ current.arn = a
  <2>1. calls' = cs /\ UNCHANGED <<form, loading, outdated, mixed>>
    BY <1>1, <1>4 DEF D!Become
  <2>2. ASSUME NEW c \in calls' PROVE CallRight(c)'
    <3>1. CallRight(c) /\ c \in calls
      BY <2>1, <2>2 DEF DetailInv
    <3>2. c.kind = "status" => online'
      BY <3>1 DEF CallRight, PaidForShown
    <3>3. c.kind = "respond" /\ c.mounted => responding'
      BY <3>1 DEF CallRight, Awaited
    <3> QED BY <1>1, <1>4, <2>1, <3>1, <3>2, <3>3, CallStays
  <2>3. FormOfShown'
    BY <1>1, <1>4, <2>1 DEF FormOfShown, DetailInv
  <2>4. D!PaysAsShown'
    BY <1>1, <1>4, <2>1 DEF D!PaysAsShown, DetailInv
  <2> QED BY <1>2, <1>3, <2>1, <2>2, <2>3, <2>4 DEF DetailInv
<1>5. CASE ~(current # None /\ current.arn = a)
  <2>1. D!Reset(r, cs)
    BY <1>1, <1>5 DEF D!Become
  <2>2. FormOfShown' /\ (\A d \in calls' : CallRight(d)') /\ mixed' \in BOOLEAN
        /\ (loading' = online)
    BY <1>1, <2>1, ResetKeeps
  <2>3. D!PaysAsShown'
    BY <2>2 DEF D!PaysAsShown
  <2> QED BY <1>2, <1>3, <2>2, <2>3 DEF DetailInv
<1> QED BY <1>4, <1>5

(***************************************************************************)
(* The steps of the page.                                                  *)
(***************************************************************************)
LEMMA InitDetail == D!Init => DetailInv
<1> SUFFICES ASSUME D!Init PROVE DetailInv
  OBVIOUS
<1>1. /\ rows = [a \in Arn |-> [arn |-> a, asked |-> 1, pending |-> TRUE, value |-> 0,
                                paid |-> FALSE]]
      /\ cache = [a \in Arn |-> None] /\ current = None /\ detail = None /\ calls = {}
      /\ online = TRUE /\ mixed = FALSE /\ edits = 0 /\ wrong = {}
  BY DEF D!Init
<1>2. \A a \in Arn : RowIs(rows[a], a)
  BY <1>1 DEF RowIs, RowShape
<1>3. RowsTyped
  BY <1>1, <1>2 DEF RowsTyped
<1> QED BY <1>1, <1>3 DEF DetailInv, FormOfShown, D!AnswersAsShown, D!PaysAsShown

\* Steps that leave form, page and rows as they are, and begin calls.
LEMMA CallsBegin ==
  ASSUME DetailInv, UNCHANGED <<rows, cache, current, detail, form, responding, wrong, outdated,
                                edits>>,
         ~mixed' => ~mixed, mixed' \in BOOLEAN, online' \in BOOLEAN,
         \A c \in calls' : (c \in calls /\ (c.kind = "status" => online'))
                           \/ (/\ IsPageCall(c) /\ c.kind # "respond"
                               /\ c.kind = "status" => online' /\ c.arn = current.arn
                               /\ c.kind = "post" => c.arn = current.arn),
         D!PaysAsShown'
  PROVE  DetailInv'
<1>1. \A c \in calls : CallRight(c)
  BY DEF DetailInv
<1>2. ASSUME NEW c \in calls', c \in calls, c.kind = "status" => online' PROVE CallRight(c)'
  <2>1. c.kind = "respond" /\ c.mounted => responding'
    BY <1>1, <1>2 DEF CallRight, Awaited
  <2>2. \A d \in calls' : d.kind = "respond" /\ d.mounted => d \in calls
    OBVIOUS
  <2> QED BY <1>1, <1>2, <2>1, <2>2, CallStays
<1>3. ASSUME NEW c \in calls', IsPageCall(c), c.kind # "respond",
             c.kind = "status" => online' /\ c.arn = current.arn,
             c.kind = "post" => c.arn = current.arn
      PROVE  CallRight(c)'
  <2>1. IsPageCall(c)'
    BY <1>3 DEF IsPageCall, RowIs
  <2> QED BY <1>3, <2>1 DEF CallRight, PaidForShown
<1>4. \A c \in calls' : CallRight(c)'
  BY <1>2, <1>3
<1>5. RowsTyped' /\ FormOfShown' /\ D!AnswersAsShown'
  BY DEF DetailInv, RowsTyped, FormOfShown, D!AnswersAsShown, RowIs, FormIs
<1> QED BY <1>4, <1>5 DEF DetailInv

LEMMA OpenStep == ASSUME DetailInv, NEW a \in Arn, D!Open(a) PROVE DetailInv'
<1>1. /\ UNCHANGED <<rows, online, cache, current, detail, form, responding, ledger, loading, wrong,
                     outdated, mixed, edits>>
      /\ calls' = calls \cup {D!Call("open", a)}
  BY DEF D!Open, D!Ask, D!copies, D!answering, D!dues
<1>2. IsPageCall(D!Call("open", a)) /\ D!Call("open", a).kind = "open"
  BY PageCallIs
<1>3. \A c \in calls : c.kind = "status" => online'
  BY <1>1 DEF DetailInv, CallRight, PaidForShown
<1>4. D!PaysAsShown' /\ mixed' \in BOOLEAN /\ online' \in BOOLEAN
  BY <1>1 DEF DetailInv, D!PaysAsShown
<1> QED BY <1>1, <1>2, <1>3, <1>4, CallsBegin

LEMMA GoOfflineStep == ASSUME DetailInv, D!GoOffline PROVE DetailInv'
<1>1. /\ UNCHANGED <<rows, cache, current, detail, form, responding, ledger, wrong,
                     outdated, mixed, edits>>
      /\ calls' = D!Stopped(calls) /\ online' = FALSE
  BY DEF D!GoOffline, D!copies, D!answering
<1>2. D!PaysAsShown' /\ mixed' \in BOOLEAN /\ online' \in BOOLEAN
  BY <1>1 DEF DetailInv, D!PaysAsShown
<1>3. \A c \in calls' : (c \in calls /\ (c.kind = "status" => online'))
  BY <1>1 DEF D!Stopped
<1> QED BY <1>1, <1>2, <1>3, CallsBegin

LEMMA GoOnlineStep == ASSUME DetailInv, D!GoOnline PROVE DetailInv'
<1>1. /\ UNCHANGED <<rows, cache, current, detail, form, responding, ledger, wrong,
                     outdated, edits>>
      /\ online' = TRUE
      /\ IF current = None THEN UNCHANGED <<loading, calls, mixed>>
         ELSE /\ loading' = TRUE /\ calls' = calls \cup D!Refetch(current.arn)
              /\ mixed' = (mixed \/ D!Posting)
  BY DEF D!GoOnline, D!copies, D!answering, D!bounds
<1>2. D!PaysAsShown' /\ mixed' \in BOOLEAN /\ online' \in BOOLEAN /\ (~mixed' => ~mixed)
  BY <1>1 DEF DetailInv, D!PaysAsShown
<1>3. ASSUME current # None, NEW c \in D!Refetch(current.arn)
      PROVE  /\ IsPageCall(c) /\ c.kind # "respond" /\ c.kind # "post" /\ c.arn = current.arn
  <2>1. PICK a \in Arn : a = current.arn
    BY <1>3 DEF DetailInv, FormOfShown
  <2>2. IsPageCall(D!Call("load", a)) /\ D!Call("load", a).kind = "load"
        /\ D!Call("load", a).arn = a
    BY PageCallIs
  <2>3. IsPageCall(D!Call("status", a)) /\ D!Call("status", a).kind = "status"
        /\ D!Call("status", a).arn = a
    BY PageCallIs
  <2>4. c \in {D!Call("load", a), D!Call("status", a)}
    BY <1>3, <2>1 DEF D!Refetch
  <2> QED BY <2>1, <2>2, <2>3, <2>4
<1>4. \A c \in calls' : (c \in calls /\ (c.kind = "status" => online'))
                        \/ (/\ IsPageCall(c) /\ c.kind # "respond"
                            /\ c.kind = "status" => online' /\ c.arn = current.arn
                            /\ c.kind = "post" => c.arn = current.arn)
  <2>1. \A c \in calls' : c \in calls \/ (current # None /\ c \in D!Refetch(current.arn))
    BY <1>1
  <2> QED BY <1>1, <1>3, <2>1
<1> QED BY <1>1, <1>2, <1>4, CallsBegin

LEMMA OpenPaymentsStep == ASSUME DetailInv, D!OpenPayments PROVE DetailInv'
<1>1. UNCHANGED <<rows, online, cache, current, detail, form, responding, ledger, loading, wrong,
                  outdated, mixed, edits, calls>>
  BY DEF D!OpenPayments, D!copies, D!answering, D!bounds
<1>2. D!PaysAsShown' /\ mixed' \in BOOLEAN /\ online' \in BOOLEAN
  BY <1>1 DEF DetailInv, D!PaysAsShown
<1>3. \A c \in calls : c.kind = "status" => online'
  BY <1>1 DEF DetailInv, CallRight, PaidForShown
<1> QED BY <1>1, <1>2, <1>3, CallsBegin

LEMMA PostStep == ASSUME DetailInv, D!Pay PROVE DetailInv'
<1>1. /\ UNCHANGED <<rows, online, cache, current, detail, form, responding, ledger, loading, wrong,
                     outdated, edits>>
      /\ current # None /\ mixed' = (mixed \/ loading)
      /\ calls' = calls \cup {D!Call("post", current.arn)}
  BY DEF D!Pay, D!Ask, D!copies, D!answering
<1>2. PICK a \in Arn : a = current.arn
  BY <1>1 DEF DetailInv, FormOfShown
<1>3. IsPageCall(D!Call("post", a)) /\ D!Call("post", a).kind = "post"
      /\ D!Call("post", a).arn = a
  BY PageCallIs
<1>4. \A c \in calls' : c \in calls \/ c = D!Call("post", a)
  BY <1>1, <1>2
<1>5. \A c \in calls : c.kind = "status" => online'
  BY <1>1 DEF DetailInv, CallRight, PaidForShown
<1>6. D!PaysAsShown' /\ mixed' \in BOOLEAN /\ online' \in BOOLEAN /\ (~mixed' => ~mixed)
  BY <1>1 DEF DetailInv, D!PaysAsShown
<1> QED BY <1>1, <1>2, <1>3, <1>4, <1>5, <1>6, CallsBegin

LEMMA OpenCachedStep == ASSUME DetailInv, NEW a \in Arn, D!OpenCached(a) PROVE DetailInv'
<1>1. /\ cache[a] # None /\ D!Become(cache[a], calls)
      /\ UNCHANGED <<rows, online, cache, responding, ledger, wrong, edits>>
  BY DEF D!OpenCached
<1>2. /\ RowIs(cache[a], a) /\ cache[a].asked <= rows[a].asked /\ DOMAIN cache' = Arn
      /\ \A b \in Arn : cache'[b] # None => RowIs(cache'[b], b) /\ cache'[b].asked <= rows[b].asked
  BY <1>1 DEF DetailInv, RowsTyped
<1>3. PICK r : r = cache[a]
  OBVIOUS
<1>4. RowIs(r, a) /\ r.asked <= rows[a].asked /\ D!Become(r, calls)
  BY <1>1, <1>2, <1>3
<1> QED BY <1>1, <1>2, <1>4, BecomeKeeps

LEMMA LeaveStep == ASSUME DetailInv, D!Leave PROVE DetailInv'
<1> DEFINE Left(c) == [c EXCEPT !.mounted = c.kind \notin {"respond", "post"}]
<1>1. /\ UNCHANGED <<rows, online, cache, wrong, outdated, mixed, edits>>
      /\ current' = None /\ detail' = None
      /\ calls' = {Left(c) : c \in D!Stopped(calls)}
  BY DEF D!Leave, D!bounds
<1>2. \A c \in calls : CallRight(c) /\ IsPageCall(c)
  BY DEF DetailInv, CallRight
<1>3. \A c \in calls : /\ IsPageCall(Left(c)) /\ Alike(Left(c), c)
                       /\ Left(c).mounted = (c.kind \notin {"respond", "post"})
  BY <1>2, LeftCall
<1>4. ASSUME NEW d \in calls' PROVE \E c \in calls : c.kind # "status" /\ d = Left(c)
  BY <1>1, <1>4 DEF D!Stopped
<1> HIDE DEF Left
<1>5. ASSUME NEW d \in calls' PROVE CallRight(d)'
  <2>1. PICK c \in calls : c.kind # "status" /\ d = Left(c)
    BY <1>4
  <2>2. /\ IsPageCall(d) /\ Alike(d, c) /\ d.kind = c.kind
        /\ d.mounted = (d.kind \notin {"respond", "post"})
    BY <1>3, <2>1 DEF Alike
  <2>3. IsPageCall(d)'
    BY <1>1, <2>2 DEF IsPageCall, RowIs
  <2>4. PaidForShown(d)'
    BY <2>1, <2>2 DEF PaidForShown
  <2>5. d.kind = "respond" => Carries(d)' /\ Awaited(d)'
    <3>1. d.kind = "respond" => Carries(d)'
      BY <1>1, <1>2, <2>2, CarriesKept DEF CallRight
    <3>2. d.kind = "respond" => Awaited(d)'
      BY <1>1, <2>2 DEF Awaited
    <3> QED BY <3>1, <3>2
  <2> QED BY <2>3, <2>4, <2>5 DEF CallRight
<1>6. RowsTyped' /\ FormOfShown' /\ D!AnswersAsShown' /\ D!PaysAsShown'
  BY <1>1 DEF DetailInv, RowsTyped, FormOfShown, D!AnswersAsShown, D!PaysAsShown, RowIs
<1> QED BY <1>1, <1>5, <1>6 DEF DetailInv

\* While the page may be answered on, it waits for no answer.
LEMMA NoneAwaited ==
  ASSUME DetailInv, D!Answerable, NEW c \in calls, c.kind = "respond"
  PROVE  ~c.mounted /\ ~c.seeded
<1>1. CallRight(c) /\ current # None /\ ~responding
  BY DEF DetailInv, D!Answerable
<1> QED BY <1>1 DEF CallRight, Awaited

LEMMA TypeFieldStep == ASSUME DetailInv, D!Type PROVE DetailInv'
<1>1. /\ D!Answerable /\ edits' = edits + 1 /\ form' = [form EXCEPT !.value = edits', !.typed = TRUE]
      /\ UNCHANGED <<rows, online, cache, current, detail, responding, ledger, loading, calls,
                     wrong, outdated, mixed>>
  BY DEF D!Type, D!copies, D!dues
<1>2. FormIs(form) /\ current # None /\ edits' \in Nat
  BY <1>1 DEF DetailInv, FormOfShown, RowsTyped, D!Answerable
<1>3. FormIs(form') /\ form'.of = form.of /\ form'.typed = TRUE
  BY <1>1, <1>2 DEF FormIs
<1>4. FormOfShown' /\ RowsTyped' /\ D!AnswersAsShown' /\ D!PaysAsShown'
  BY <1>1, <1>2, <1>3 DEF DetailInv, FormOfShown, RowsTyped, D!AnswersAsShown, D!PaysAsShown, RowIs
<1>5. ASSUME NEW c \in calls PROVE CallRight(c)'
  <2>1. CallRight(c)
    BY DEF DetailInv
  <2>2. IsPageCall(c)' /\ PaidForShown(c)'
    BY <1>1, <2>1 DEF CallRight, IsPageCall, PaidForShown, RowIs
  <2>3. ASSUME c.kind = "respond" PROVE Carries(c)' /\ Awaited(c)'
    <3>1. ~c.mounted /\ ~c.seeded /\ Alike(c, c)
      BY <1>1, <2>3, NoneAwaited DEF Alike
    <3>2. Carries(c)'
      BY <1>1, <2>1, <2>3, <3>1, CarriesKept DEF CallRight
    <3> QED BY <3>1, <3>2 DEF Awaited
  <2> QED BY <2>2, <2>3 DEF CallRight
<1> QED BY <1>1, <1>4, <1>5 DEF DetailInv

LEMMA RespondStep == ASSUME DetailInv, D!Respond PROVE DetailInv'
<1>1. PICK a \in Arn : a = current.arn
  BY DEF D!Respond, D!Answerable, DetailInv, FormOfShown
<1>2. PICK q : q = <<detail.arn, detail.asked>>
  OBVIOUS
<1>3. PICK f : f = form
  OBVIOUS
<1> DEFINE b == [D!Call("respond", a) EXCEPT !.query = q]
           n == [b EXCEPT !.form = f]
<1>4. /\ D!Answerable /\ responding' = TRUE /\ calls' = calls \cup {n}
      /\ UNCHANGED <<rows, online, cache, current, detail, form, ledger, loading, wrong, outdated,
                     mixed, edits>>
  BY <1>1, <1>2, <1>3 DEF D!Respond, D!Ask, D!copies, D!dues
<1>5. /\ IsPageCall(n) /\ n.kind = "respond" /\ n.arn = a /\ n.query = q /\ n.form = f
      /\ n.mounted = TRUE /\ n.seeded = TRUE
  <2> DEFINE k == D!Call("respond", a)
  <2>1. /\ k = [kind |-> k.kind, arn |-> k.arn, query |-> k.query, form |-> k.form,
                answer |-> k.answer, refused |-> k.refused, mounted |-> k.mounted,
                seeded |-> k.seeded]
        /\ k.kind = "respond" /\ k.arn = a /\ k.answer = None
        /\ k.mounted = TRUE /\ k.seeded = TRUE
    BY DEF D!Call
  <2> HIDE DEF k
  <2>2. /\ b = [kind |-> b.kind, arn |-> b.arn, query |-> b.query, form |-> b.form,
                answer |-> b.answer, refused |-> b.refused, mounted |-> b.mounted,
                seeded |-> b.seeded]
        /\ b.kind = "respond" /\ b.arn = a /\ b.answer = None /\ b.query = q
        /\ b.mounted = TRUE /\ b.seeded = TRUE
    BY <2>1 DEF k
  <2> HIDE DEF b
  <2> QED BY <2>2 DEF IsPageCall
<1> HIDE DEF n
<1>6. PICK m : m = n
  OBVIOUS
<1>7. \A c \in calls : c.kind = "respond" => ~c.mounted /\ ~c.seeded
  BY <1>4, NoneAwaited
<1>8. current # None /\ detail # None
  BY <1>4 DEF D!Answerable
<1>9. ASSUME NEW c \in calls PROVE CallRight(c)'
  <2>1. CallRight(c)
    BY DEF DetailInv
  <2>2. IsPageCall(c)' /\ PaidForShown(c)'
    BY <1>4, <2>1 DEF CallRight, IsPageCall, PaidForShown, RowIs
  <2>3. ASSUME c.kind = "respond" PROVE Carries(c)' /\ Awaited(c)'
    <3>1. ~c.mounted /\ ~c.seeded /\ Alike(c, c)
      BY <1>7, <2>3 DEF Alike
    <3>2. Carries(c)'
      BY <1>4, <2>1, <2>3, <3>1, CarriesKept DEF CallRight
    <3> QED BY <3>1, <3>2 DEF Awaited
  <2> QED BY <2>2, <2>3 DEF CallRight
<1>10. Carries(m)
  <2>1. /\ detail.arn \in Arn /\ detail.asked \in Nat /\ detail.asked <= rows[detail.arn].asked
    BY <1>8 DEF DetailInv, RowsTyped
  <2>2. /\ FormIs(f) /\ f.of = a /\ (~f.typed /\ a \notin outdated => f.value = rows[a].value)
    BY <1>1, <1>3, <1>8 DEF DetailInv, FormOfShown
  <2>3. m.query = q /\ m.form = f /\ m.arn = a
    BY <1>5, <1>6
  <2>4. q = <<q[1], q[2]>> /\ q[1] = detail.arn /\ q[2] = detail.asked
    BY <1>2
  <2> QED BY <2>1, <2>2, <2>3, <2>4 DEF Carries
<1>11. CallRight(m)'
  <2>1. IsPageCall(m)' /\ PaidForShown(m)'
    BY <1>4, <1>5, <1>6 DEF IsPageCall, PaidForShown, RowIs
  <2>2. Carries(m)'
    <3>1. Alike(m, m)
      BY DEF Alike
    <3> QED BY <1>4, <1>10, <3>1, CarriesKept
  <2>3. Awaited(m)'
    BY <1>3, <1>4, <1>5, <1>6, <1>7 DEF Awaited
  <2> QED BY <2>1, <2>2, <2>3 DEF CallRight
<1>12. \A c \in calls' : CallRight(c)'
  BY <1>4, <1>6, <1>9, <1>11
<1>13. FormOfShown' /\ RowsTyped' /\ D!AnswersAsShown' /\ D!PaysAsShown'
  BY <1>4 DEF DetailInv, FormOfShown, RowsTyped, D!AnswersAsShown, D!PaysAsShown, RowIs, FormIs
<1> QED BY <1>4, <1>12, <1>13 DEF DetailInv

\* An answer on its way when the row goes on.
LEMMA CarriesAfter ==
  ASSUME RowsTyped, NEW a \in Arn, NEW r, RowIs(r, a), rows[a].asked <= r.asked,
         rows' = [rows EXCEPT ![a] = r],
         r.pending = FALSE \/ rows[a].asked < r.asked,
         outdated \subseteq outdated', NEW c, Carries(c), c.arn \in Arn
  PROVE  Carries(c)' /\ (c.arn = a => ~D!Accepted(c)')
<1>1. /\ rows'[a] = r /\ \A b \in Arn \ {a} : rows'[b] = rows[b]
  BY DEF RowsTyped
<1>2. \A b \in Arn : rows[b].asked \in Nat /\ rows'[b].asked \in Nat
                     /\ rows[b].asked <= rows'[b].asked
  <2>1. \A b \in Arn : rows[b].asked \in Nat
    BY DEF RowsTyped, RowIs
  <2>2. r.asked \in Nat
    BY DEF RowIs
  <2>3. ASSUME NEW b \in Arn, b # a PROVE rows'[b].asked = rows[b].asked
    BY <1>1, <2>3
  <2> QED BY <1>1, <2>1, <2>2, <2>3
<1>3. c.query[2] \in Nat /\ c.query[1] \in Arn /\ c.query[2] <= rows'[c.query[1]].asked
  <2>1. c.query[2] \in Nat /\ c.query[1] \in Arn /\ c.query[2] <= rows[c.query[1]].asked
    BY DEF Carries
  <2>2. /\ rows[c.query[1]].asked \in Nat /\ rows'[c.query[1]].asked \in Nat
        /\ rows[c.query[1]].asked <= rows'[c.query[1]].asked
    BY <1>2, <2>1
  <2> QED BY <2>1, <2>2
<1>4. c.arn = a => ~D!Accepted(c)'
  <2> SUFFICES ASSUME c.arn = a, D!Accepted(c)' PROVE FALSE
    OBVIOUS
  <2>1. r.pending /\ c.query = <<a, r.asked>>
    BY <1>1 DEF D!Accepted
  <2>2. c.query[1] = a /\ c.query[2] = r.asked
    BY <2>1
  <2>3. c.query[2] <= rows[a].asked
    BY <2>2 DEF Carries
  <2> QED BY <1>1, <1>2, <2>1, <2>2, <2>3
<1>5. c.arn # a => (D!Accepted(c)' <=> D!Accepted(c)) /\ rows'[c.arn] = rows[c.arn]
  BY <1>1 DEF D!Accepted
<1>6. Carries(c)'
  BY <1>3, <1>4, <1>5 DEF Carries
<1> QED BY <1>4, <1>6

\* A row goes on by an officer's or another session's doing.
LEMMA RowGoesOn ==
  ASSUME DetailInv, NEW a \in Arn, NEW r, RowIs(r, a), rows[a].asked <= r.asked,
         rows' = [rows EXCEPT ![a] = r],
         r.pending = FALSE \/ rows[a].asked < r.asked,
         UNCHANGED <<online, cache, current, detail, form, responding, ledger, loading, calls, wrong,
                     mixed>>,
         edits' \in Nat, outdated \subseteq outdated',
         form # None /\ form.of = a => r.value = rows[a].value \/ a \in outdated'
  PROVE  DetailInv'
<1>1. /\ RowsTyped' /\ rows'[a] = r /\ \A b \in Arn \ {a} : rows'[b] = rows[b]
      /\ \A b \in Arn : rows[b].asked \in Nat /\ rows'[b].asked \in Nat
                        /\ rows[b].asked <= rows'[b].asked
  BY RowsGoOn DEF DetailInv
<1>2. ASSUME NEW c \in calls PROVE CallRight(c)'
  <2>1. CallRight(c) /\ IsPageCall(c) /\ c.arn \in Arn
    BY DEF DetailInv, CallRight, IsPageCall
  <2>2. IsPageCall(c)'
    <3>1. c.answer # None => /\ RowIs(c.answer, c.arn) /\ c.answer.asked <= rows[c.arn].asked
                             /\ c.answer.asked \in Nat
      BY <2>1 DEF IsPageCall, RowIs
    <3>2. rows[c.arn].asked \in Nat /\ rows'[c.arn].asked \in Nat
          /\ rows[c.arn].asked <= rows'[c.arn].asked
      BY <1>1, <2>1
    <3>3. c.answer # None => c.answer.asked <= rows'[c.arn].asked
      BY <3>1, <3>2
    <3> QED BY <2>1, <3>1, <3>3 DEF IsPageCall
  <2>3. PaidForShown(c)'
    BY <2>1 DEF CallRight, PaidForShown
  <2>4. c.kind = "respond" => Carries(c)'
    BY <2>1, CarriesAfter DEF CallRight, DetailInv
  <2>5. c.kind = "respond" => Awaited(c)'
    BY <2>1 DEF CallRight, Awaited
  <2> QED BY <2>2, <2>3, <2>4, <2>5 DEF CallRight
<1>3. FormOfShown'
  <2> SUFFICES ASSUME current # None
               PROVE  /\ current.arn \in Arn /\ FormIs(form) /\ form.of = current.arn
                      /\ ~form.typed /\ form.of \notin outdated' =>
                           form.value = rows'[form.of].value
    BY DEF FormOfShown
  <2>1. /\ current.arn \in Arn /\ FormIs(form) /\ form.of = current.arn /\ form # None
        /\ ~form.typed /\ form.of \notin outdated => form.value = rows[form.of].value
    BY FormThere DEF DetailInv, FormOfShown
  <2> QED BY <1>1, <2>1
<1>4. D!AnswersAsShown' /\ D!PaysAsShown'
  BY DEF DetailInv, D!AnswersAsShown, D!PaysAsShown
<1> QED BY <1>1, <1>2, <1>3, <1>4 DEF DetailInv

\* A row with one column changed.
LEMMA RowWith ==
  ASSUME NEW a, NEW o, RowShape(o, a), NEW x, NEW b
  PROVE  /\ b = [o EXCEPT !.pending = x] =>
              /\ RowShape(b, a) /\ b.pending = x
              /\ b.asked = o.asked /\ b.value = o.value /\ b.paid = o.paid
         /\ b = [o EXCEPT !.asked = x] =>
              /\ RowShape(b, a) /\ b.asked = x
              /\ b.pending = o.pending /\ b.value = o.value /\ b.paid = o.paid
         /\ b = [o EXCEPT !.value = x] =>
              /\ RowShape(b, a) /\ b.value = x
              /\ b.pending = o.pending /\ b.asked = o.asked /\ b.paid = o.paid
         /\ b = [o EXCEPT !.paid = x] =>
              /\ RowShape(b, a) /\ b.paid = x
              /\ b.pending = o.pending /\ b.asked = o.asked /\ b.value = o.value
BY DEF RowShape

LEMMA AskQueryStep == ASSUME DetailInv, NEW a \in Arn, D!AskQuery(a) PROVE DetailInv'
<1>1. RowIs(rows[a], a)
  BY DEF DetailInv, RowsTyped
<1>a. PICK o : o = rows[a]
  OBVIOUS
<1> DEFINE b == [o EXCEPT !.pending = TRUE]
           r == [b EXCEPT !.asked = @ + 1]
<1>2. /\ rows' = [rows EXCEPT ![a] = r]
      /\ UNCHANGED <<online, cache, current, detail, form, responding, ledger, loading, calls, wrong,
                     mixed, edits, outdated>>
  BY <1>a DEF D!AskQuery, D!copies, D!answering, D!dues, D!bounds
<1>3. RowIs(r, a) /\ rows[a].asked <= r.asked /\ rows[a].asked < r.asked /\ r.value = rows[a].value
  <2>0. RowIs(o, a)
    BY <1>1, <1>a
  <2>6. RowShape(o, a) /\ o.asked \in Nat
    BY <2>0 DEF RowIs
  <2>1. /\ RowShape(b, a) /\ b.pending = TRUE
        /\ b.asked = o.asked /\ b.value = o.value /\ b.paid = o.paid
    BY <2>6, RowWith
  <2>2. r = [b EXCEPT !.asked = b.asked + 1]
    OBVIOUS
  <2> HIDE DEF b, r
  <2>7. /\ RowShape(r, a) /\ r.asked = b.asked + 1
        /\ r.pending = b.pending /\ r.value = b.value /\ r.paid = b.paid
    BY <2>1, <2>2, RowWith
  <2>3. RowIs(r, a) /\ r.asked = o.asked + 1 /\ r.value = o.value
    <3>1. r.asked = o.asked + 1 /\ r.value = o.value /\ r.paid = o.paid
      BY <2>1, <2>7
    <3>2. r.asked \in Nat
      BY <2>6, <3>1
    <3>3. r.pending \in BOOLEAN /\ r.value \in Nat /\ r.paid \in BOOLEAN
      <4>1. o.value \in Nat /\ o.paid \in BOOLEAN
        BY <2>0 DEF RowIs
      <4>2. r.pending = TRUE
        BY <2>1, <2>7
      <4> QED BY <3>1, <4>1, <4>2, Zenon
    <3> QED BY <2>7, <3>1, <3>2, <3>3 DEF RowIs
  <2>4. o.asked \in Nat
    BY <2>0 DEF RowIs
  <2>5. o.asked <= r.asked /\ o.asked < r.asked
    BY <2>3, <2>4
  <2> QED BY <1>a, <2>3, <2>5
<1> HIDE DEF r
<1>4. edits' \in Nat
  BY <1>2 DEF DetailInv, RowsTyped
<1>5. PICK s : s = r
  OBVIOUS
<1>6. RowIs(s, a) /\ rows[a].asked <= s.asked /\ rows[a].asked < s.asked /\ s.value = rows[a].value
      /\ rows' = [rows EXCEPT ![a] = s]
  BY <1>2, <1>3, <1>5
<1> QED BY <1>2, <1>4, <1>6, RowGoesOn

LEMMA OtherAnswersStep == ASSUME DetailInv, NEW a \in Arn, D!OtherAnswers(a) PROVE DetailInv'
<1>1. RowIs(rows[a], a) /\ edits' = edits + 1 /\ edits' \in Nat
  BY DEF DetailInv, RowsTyped, D!OtherAnswers
<1>0. PICK n \in Nat : n = edits'
  BY <1>1
<1>a. PICK o : o = rows[a]
  OBVIOUS
<1> DEFINE b == [o EXCEPT !.pending = FALSE]
           r == [b EXCEPT !.value = n]
<1>2. /\ rows' = [rows EXCEPT ![a] = r]
      /\ outdated' = (IF form # None /\ form.of = a THEN outdated \cup {a} ELSE outdated)
      /\ UNCHANGED <<online, cache, current, detail, form, responding, ledger, loading, calls, wrong,
                     mixed>>
  BY <1>0, <1>a DEF D!OtherAnswers, D!copies, D!answering, D!dues
<1>3. RowIs(r, a) /\ r.asked = rows[a].asked /\ r.pending = FALSE
  <2>0. RowIs(o, a)
    BY <1>1, <1>a
  <2>6. RowShape(o, a)
    BY <2>0 DEF RowIs
  <2>1. /\ RowShape(b, a) /\ b.pending = FALSE
        /\ b.asked = o.asked /\ b.value = o.value /\ b.paid = o.paid
    BY <2>6, RowWith
  <2>4. r = [b EXCEPT !.value = n]
    OBVIOUS
  <2> HIDE DEF b, r
  <2>2. /\ RowShape(r, a) /\ r.value = n
        /\ r.pending = b.pending /\ r.asked = b.asked /\ r.paid = b.paid
    BY <2>1, <2>4, RowWith
  <2>3. RowIs(r, a) /\ r.asked = o.asked /\ r.pending = FALSE
    BY <2>0, <2>1, <2>2 DEF RowIs
  <2> QED BY <1>a, <2>3
<1> HIDE DEF r
<1>4. rows[a].asked <= r.asked
  BY <1>1, <1>3 DEF RowIs
<1>5. PICK s : s = r
  OBVIOUS
<1>6. RowIs(s, a) /\ rows[a].asked <= s.asked /\ s.pending = FALSE
      /\ rows' = [rows EXCEPT ![a] = s]
  BY <1>2, <1>3, <1>4, <1>5
<1>7. /\ outdated \subseteq outdated'
      /\ form # None /\ form.of = a => a \in outdated'
  BY <1>2
<1> QED BY <1>1, <1>2, <1>6, <1>7, RowGoesOn

\* An answer on its way when no column it depends on changes.
LEMMA CarriesOver ==
  ASSUME RowsTyped, NEW a \in Arn, NEW r, rows' = [rows EXCEPT ![a] = r],
         r.pending = rows[a].pending, r.asked = rows[a].asked, r.value = rows[a].value,
         outdated \subseteq outdated', NEW c, Carries(c), c.arn \in Arn
  PROVE  Carries(c)'
<1>1. /\ rows'[a] = r /\ \A b \in Arn \ {a} : rows'[b] = rows[b]
  BY DEF RowsTyped
<1>2. \A b \in Arn : /\ rows'[b].pending = rows[b].pending /\ rows'[b].asked = rows[b].asked
                     /\ rows'[b].value = rows[b].value
  BY <1>1
<1>3. D!Accepted(c)' <=> D!Accepted(c)
  BY <1>2 DEF D!Accepted
<1> QED BY <1>2, <1>3 DEF Carries

\* The server has handled a call, and what it answers is its row now.
LEMMA ServedCall ==
  ASSUME DetailInv, NEW k \in calls, NEW r, RowIs(r, k.arn), RowsTyped', rows'[k.arn] = r,
         \A b \in Arn : rows[b].asked \in Nat /\ rows'[b].asked \in Nat
                        /\ rows[b].asked <= rows'[b].asked,
         NEW e, e = [kind |-> e.kind, arn |-> e.arn, query |-> e.query, form |-> e.form,
                     answer |-> e.answer, refused |-> e.refused, mounted |-> e.mounted,
                     seeded |-> e.seeded],
         e.kind = k.kind, e.arn = k.arn, e.query = k.query, e.form = k.form, e.answer = r,
         e.mounted = k.mounted, e.seeded = k.seeded,
         calls' = (calls \ {k}) \cup {e},
         UNCHANGED <<online, cache, current, detail, form, responding, ledger, loading, mixed,
                     edits>>,
         \A c \in calls \ {k} : c.kind = "respond" => Carries(c)',
         e.kind = "respond" => Carries(e)',
         FormOfShown', D!AnswersAsShown'
  PROVE  DetailInv'
<1>1. \A c \in calls : CallRight(c) /\ IsPageCall(c) /\ c.arn \in Arn
  BY DEF DetailInv, CallRight, IsPageCall
<1>2. k.arn \in Arn
  BY <1>1
<1>3. /\ RowsTyped' /\ rows'[k.arn] = r
      /\ \A b \in Arn : rows[b].asked \in Nat /\ rows'[b].asked \in Nat
                        /\ rows[b].asked <= rows'[b].asked
  OBVIOUS
<1>4. ASSUME NEW c \in calls \ {k} PROVE CallRight(c)'
  <2>1. CallRight(c) /\ IsPageCall(c) /\ c.arn \in Arn
    BY <1>1, <1>4
  <2>2. IsPageCall(c)'
    <3>1. c.answer # None => /\ RowIs(c.answer, c.arn) /\ c.answer.asked <= rows[c.arn].asked
                             /\ c.answer.asked \in Nat
      BY <2>1 DEF IsPageCall, RowIs
    <3>2. rows[c.arn].asked \in Nat /\ rows'[c.arn].asked \in Nat
          /\ rows[c.arn].asked <= rows'[c.arn].asked
      BY <1>3, <2>1
    <3>3. c.answer # None => c.answer.asked <= rows'[c.arn].asked
      BY <3>1, <3>2
    <3> QED BY <2>1, <3>1, <3>3 DEF IsPageCall
  <2>3. PaidForShown(c)'
    BY <2>1 DEF CallRight, PaidForShown
  <2>4. c.kind = "respond" => Awaited(c)'
    <3> SUFFICES ASSUME c.kind = "respond" PROVE Awaited(c)'
      OBVIOUS
    <3>1. Awaited(c)
      BY <2>1 DEF CallRight
    <3>2. c.mounted => \A d \in calls' : d.kind = "respond" /\ d.mounted => d = c
      <4> SUFFICES ASSUME c.mounted, NEW d \in calls', d.kind = "respond" /\ d.mounted
                   PROVE  d = c
        OBVIOUS
      <4>1. d # e
        <5> SUFFICES ASSUME d = e PROVE FALSE
          OBVIOUS
        <5>1. k.kind = "respond" /\ k.mounted
          OBVIOUS
        <5> QED BY <1>4, <3>1, <5>1 DEF Awaited
      <4> QED BY <3>1, <4>1 DEF Awaited
    <3> QED BY <3>1, <3>2 DEF Awaited
  <2> QED BY <1>4, <2>2, <2>3, <2>4 DEF CallRight
<1>5. CallRight(e)'
  <2>1. CallRight(k)
    BY <1>1
  <2>2. IsPageCall(e)'
    <3>1. r.asked <= rows'[k.arn].asked
      BY <1>3, <1>2 DEF RowIs
    <3> QED BY <1>2, <3>1 DEF IsPageCall
  <2>3. PaidForShown(e)'
    BY <2>1 DEF CallRight, PaidForShown
  <2>4. e.kind = "respond" => Awaited(e)'
    <3> SUFFICES ASSUME e.kind = "respond" PROVE Awaited(e)'
      OBVIOUS
    <3>1. Awaited(k)
      BY <2>1 DEF CallRight
    <3>2. e.mounted => \A d \in calls' : d.kind = "respond" /\ d.mounted => d = e
      BY <3>1 DEF Awaited
    <3> QED BY <3>1, <3>2 DEF Awaited
  <2> QED BY <2>2, <2>3, <2>4 DEF CallRight
<1>6. \A c \in calls' : CallRight(c)'
  BY <1>4, <1>5
<1>7. D!PaysAsShown'
  BY DEF DetailInv, D!PaysAsShown
<1> QED BY <1>3, <1>6, <1>7 DEF DetailInv

\* A call the server has answered.
LEMMA AnsweredCall ==
  ASSUME NEW c, IsPageCall(c), NEW x, NEW e, e = [c EXCEPT !.answer = x]
  PROVE  /\ e = [kind |-> e.kind, arn |-> e.arn, query |-> e.query, form |-> e.form,
                 answer |-> e.answer, refused |-> e.refused, mounted |-> e.mounted,
                 seeded |-> e.seeded]
         /\ e.kind = c.kind /\ e.arn = c.arn /\ e.query = c.query /\ e.form = c.form
         /\ e.answer = x /\ e.mounted = c.mounted /\ e.seeded = c.seeded
BY DEF IsPageCall

LEMMA AcceptStep ==
  ASSUME DetailInv, NEW c \in calls, D!ServeResponse(c), D!Accepted(c), c.answer = None,
         UNCHANGED <<online, cache, current, detail, form, responding, ledger, loading, mixed,
                     edits>>
  PROVE  DetailInv'
<1>1. /\ c.kind = "respond" /\ CallRight(c) /\ Carries(c) /\ Awaited(c) /\ IsPageCall(c)
      /\ c.arn \in Arn
  BY DEF D!ServeResponse, DetailInv, CallRight, IsPageCall
<1>2. PICK a \in Arn : a = c.arn
  BY <1>1
<1>3. PICK o : o = rows[a]
  OBVIOUS
<1>4. PICK f : f = c.form /\ FormIs(f) /\ f.of = a /\ f.value \in Nat
  BY <1>1, <1>2 DEF Carries, FormIs
<1> DEFINE b == [o EXCEPT !.pending = FALSE]
           r == [b EXCEPT !.value = f.value]
<1>5. /\ rows' = [rows EXCEPT ![a] = r]
      /\ outdated' = (IF c.seeded THEN outdated ELSE outdated \cup {a})
      /\ wrong' = wrong
           \cup (IF f.of # a \/ c.query[1] # a THEN {"misplaced"} ELSE {})
           \cup (IF ~f.typed /\ f.value # o.value /\ a \notin outdated THEN {"reverted"} ELSE {})
      /\ calls' = (calls \ {c}) \cup {[c EXCEPT !.answer = rows'[a]]}
  BY <1>1, <1>2, <1>3, <1>4 DEF D!ServeResponse
<1>6. RowIs(r, a) /\ r.asked = rows[a].asked /\ r.pending = FALSE /\ r.value = f.value
  <2>0. RowIs(o, a)
    BY <1>3 DEF DetailInv, RowsTyped
  <2>6. RowShape(o, a)
    BY <2>0 DEF RowIs
  <2>1. /\ RowShape(b, a) /\ b.pending = FALSE
        /\ b.asked = o.asked /\ b.value = o.value /\ b.paid = o.paid
    BY <2>6, RowWith
  <2>4. r = [b EXCEPT !.value = f.value]
    OBVIOUS
  <2> HIDE DEF b, r
  <2>2. /\ RowShape(r, a) /\ r.value = f.value
        /\ r.pending = b.pending /\ r.asked = b.asked /\ r.paid = b.paid
    BY <2>1, <2>4, RowWith
  <2>3. RowIs(r, a) /\ r.asked = o.asked /\ r.pending = FALSE
    BY <1>4, <2>0, <2>1, <2>2 DEF RowIs
  <2> QED BY <1>3, <2>2, <2>3
<1> HIDE DEF r
<1>7. PICK s : s = r
  OBVIOUS
<1>8. /\ RowIs(s, a) /\ rows[a].asked <= s.asked /\ s.pending = FALSE /\ s.value = f.value
      /\ rows' = [rows EXCEPT ![a] = s]
  <2>1. rows[a].asked \in Nat
    BY DEF DetailInv, RowsTyped, RowIs
  <2> QED BY <1>5, <1>6, <1>7, <2>1
<1>9. /\ RowsTyped' /\ rows'[a] = s /\ \A d \in Arn \ {a} : rows'[d] = rows[d]
      /\ \A d \in Arn : rows[d].asked \in Nat /\ rows'[d].asked \in Nat
                        /\ rows[d].asked <= rows'[d].asked
  BY <1>8, RowsGoOn DEF DetailInv, RowsTyped
<1>10. PICK e : e = [c EXCEPT !.answer = s]
  OBVIOUS
<1>11. calls' = (calls \ {c}) \cup {e} /\ outdated \subseteq outdated'
  BY <1>5, <1>9, <1>10
<1>12. \A d \in calls : d.kind = "respond" => Carries(d)' /\ (d.arn = a => ~D!Accepted(d)')
  <2> SUFFICES ASSUME NEW d \in calls, d.kind = "respond"
               PROVE  Carries(d)' /\ (d.arn = a => ~D!Accepted(d)')
    OBVIOUS
  <2>1. Carries(d) /\ d.arn \in Arn /\ RowsTyped
    BY DEF DetailInv, CallRight, IsPageCall
  <2> QED BY <1>8, <1>11, <2>1, CarriesAfter
<1>13. /\ e = [kind |-> e.kind, arn |-> e.arn, query |-> e.query, form |-> e.form,
               answer |-> e.answer, refused |-> e.refused, mounted |-> e.mounted,
               seeded |-> e.seeded]
       /\ e.kind = c.kind /\ e.arn = c.arn /\ e.query = c.query /\ e.form = c.form
       /\ e.answer = s /\ e.mounted = c.mounted /\ e.seeded = c.seeded
  BY <1>1, <1>10, AnsweredCall
<1>14. Carries(e)'
  <2>1. Carries(c)' /\ ~D!Accepted(c)'
    BY <1>1, <1>2, <1>12
  <2> QED BY <1>13, <2>1 DEF Carries, D!Accepted
<1>15. FormOfShown'
  <2> SUFFICES ASSUME current # None
               PROVE  /\ current.arn \in Arn /\ FormIs(form) /\ form.of = current.arn
                      /\ ~form.typed /\ form.of \notin outdated' =>
                           form.value = rows'[form.of].value
    BY DEF FormOfShown
  <2>1. /\ current.arn \in Arn /\ FormIs(form) /\ form.of = current.arn
        /\ ~form.typed /\ form.of \notin outdated => form.value = rows[form.of].value
    BY DEF DetailInv, FormOfShown
  <2>2. CASE form.of = a
    <3>1. c.seeded => form.value = rows'[a].value
      BY <1>1, <1>4, <1>8, <1>9 DEF Awaited
    <3>2. ~c.seeded => a \in outdated'
      BY <1>5
    <3> QED BY <2>1, <2>2, <3>1, <3>2
  <2>3. CASE form.of # a
    BY <1>9, <1>11, <2>1, <2>3
  <2> QED BY <2>2, <2>3
<1>16. D!AnswersAsShown'
  <2>1. c.query[1] = a
    BY <1>2 DEF D!Accepted
  <2>2. ~f.typed /\ a \notin outdated => f.value = o.value
    BY <1>1, <1>2, <1>3, <1>4 DEF Carries
  <2>3. wrong = {}
    BY DEF DetailInv, D!AnswersAsShown
  <2>4. wrong' = {}
    BY <1>4, <1>5, <2>1, <2>2, <2>3
  <2> QED BY <2>4 DEF D!AnswersAsShown
<1> QED BY <1>1, <1>2, <1>8, <1>9, <1>11, <1>12, <1>13, <1>14, <1>15, <1>16, ServedCall

LEMMA RefuseStep ==
  ASSUME DetailInv, NEW c \in calls, D!ServeResponse(c), ~D!Accepted(c), c.answer = None,
         UNCHANGED <<online, cache, current, detail, form, responding, ledger, loading, mixed,
                     edits>>
  PROVE  DetailInv'
<1>1. /\ c.kind = "respond" /\ CallRight(c) /\ Carries(c) /\ IsPageCall(c) /\ c.arn \in Arn
  BY DEF D!ServeResponse, DetailInv, CallRight, IsPageCall
<1>2. PICK s : s = rows[c.arn]
  OBVIOUS
<1>0. PICK y : y = TRUE
  OBVIOUS
<1>3. PICK e : e = [c EXCEPT !.answer = s, !.refused = y]
  OBVIOUS
<1>4. UNCHANGED <<rows, wrong, outdated>> /\ calls' = (calls \ {c}) \cup {e}
  BY <1>0, <1>2, <1>3 DEF D!ServeResponse
<1>5. /\ e = [kind |-> e.kind, arn |-> e.arn, query |-> e.query, form |-> e.form,
              answer |-> e.answer, refused |-> e.refused, mounted |-> e.mounted,
              seeded |-> e.seeded]
      /\ e.kind = c.kind /\ e.arn = c.arn /\ e.query = c.query /\ e.form = c.form
      /\ e.answer = s /\ e.mounted = c.mounted /\ e.seeded = c.seeded
  <2>1. PICK b : b = [c EXCEPT !.answer = s]
    OBVIOUS
  <2>2. e = [b EXCEPT !.refused = y]
    BY <1>3, <2>1
  <2>3. /\ b = [kind |-> b.kind, arn |-> b.arn, query |-> b.query, form |-> b.form,
                answer |-> b.answer, refused |-> b.refused, mounted |-> b.mounted,
                seeded |-> b.seeded]
        /\ b.kind = c.kind /\ b.arn = c.arn /\ b.query = c.query /\ b.form = c.form
        /\ b.answer = s /\ b.mounted = c.mounted /\ b.seeded = c.seeded
    BY <1>1, <2>1, AnsweredCall
  <2> QED BY <2>2, <2>3
<1>6. /\ RowIs(s, c.arn) /\ RowsTyped' /\ rows'[c.arn] = s
      /\ \A b \in Arn : rows[b].asked \in Nat /\ rows'[b].asked \in Nat
                        /\ rows[b].asked <= rows'[b].asked
  BY <1>1, <1>2, <1>4 DEF DetailInv, RowsTyped, RowIs
<1>7. \A d \in calls : d.kind = "respond" => Carries(d)'
  <2> SUFFICES ASSUME NEW d \in calls, d.kind = "respond" PROVE Carries(d)'
    OBVIOUS
  <2>1. Carries(d) /\ Alike(d, d)
    BY DEF DetailInv, CallRight, Alike
  <2> QED BY <1>4, <2>1, CarriesKept
<1>8. Carries(e)'
  <2>1. Carries(c)' /\ ~D!Accepted(e)'
    BY <1>1, <1>4, <1>5, <1>7 DEF D!Accepted
  <2> QED BY <1>5, <2>1 DEF Carries
<1>9. FormOfShown' /\ D!AnswersAsShown'
  BY <1>4 DEF DetailInv, FormOfShown, D!AnswersAsShown, FormIs
<1> QED BY <1>1, <1>4, <1>5, <1>6, <1>7, <1>8, <1>9, ServedCall

LEMMA ServeOtherStep ==
  ASSUME DetailInv, NEW c \in calls, D!ServeOther(c),
         UNCHANGED <<online, cache, current, detail, form, responding, ledger, loading, mixed,
                     edits>>
  PROVE  DetailInv'
<1>1. c.kind # "respond" /\ IsPageCall(c) /\ c.arn \in Arn
  BY DEF D!ServeOther, DetailInv, CallRight, IsPageCall
<1>2. PICK a \in Arn : a = c.arn
  BY <1>1
<1>3. PICK o : o = rows[a]
  OBVIOUS
<1>0. PICK y : y = TRUE
  OBVIOUS
<1> DEFINE p == [o EXCEPT !.paid = y]
<1>4. /\ IF c.kind = "post" THEN rows' = [rows EXCEPT ![a] = p] ELSE rows' = rows
      /\ calls' = (calls \ {c}) \cup {[c EXCEPT !.answer = rows'[a]]}
      /\ UNCHANGED <<wrong, outdated>>
  BY <1>0, <1>2, <1>3 DEF D!ServeOther
<1>5. RowIs(o, a)
  BY <1>3 DEF DetailInv, RowsTyped
<1>6. RowIs(p, a) /\ p.asked = o.asked /\ p.value = o.value /\ p.pending = o.pending
  <2>1. RowShape(o, a)
    BY <1>5 DEF RowIs
  <2>2. /\ RowShape(p, a) /\ p.paid = y
        /\ p.pending = o.pending /\ p.asked = o.asked /\ p.value = o.value
    BY <2>1, RowWith
  <2> HIDE DEF p
  <2> QED BY <1>0, <1>5, <2>2 DEF RowIs
<1> HIDE DEF p
<1>7. \E s : /\ RowIs(s, a) /\ RowsTyped' /\ rows'[a] = s
             /\ \A b \in Arn : rows[b].asked \in Nat /\ rows'[b].asked \in Nat
                               /\ rows[b].asked <= rows'[b].asked
             /\ \A b \in Arn : rows'[b].value = rows[b].value
             /\ \A d \in calls : d.kind = "respond" => Carries(d)'
  <2>1. CASE c.kind = "post"
    <3>1. PICK s : s = p
      OBVIOUS
    <3>2. /\ RowIs(s, a) /\ rows' = [rows EXCEPT ![a] = s] /\ s.asked = rows[a].asked
          /\ s.value = rows[a].value /\ s.pending = rows[a].pending
      BY <1>3, <1>4, <1>6, <2>1, <3>1
    <3>3. rows[a].asked <= s.asked /\ edits' \in Nat
      BY <1>3, <1>5, <3>2 DEF RowIs, DetailInv, RowsTyped
    <3>4. /\ RowsTyped' /\ rows'[a] = s /\ \A b \in Arn \ {a} : rows'[b] = rows[b]
          /\ \A b \in Arn : rows[b].asked \in Nat /\ rows'[b].asked \in Nat
                            /\ rows[b].asked <= rows'[b].asked
      BY <3>2, <3>3, RowsGoOn DEF DetailInv
    <3>5. ASSUME NEW d \in calls, d.kind = "respond" PROVE Carries(d)'
      <4>1. Carries(d) /\ d.arn \in Arn /\ RowsTyped
        BY <3>5 DEF DetailInv, CallRight, IsPageCall
      <4> QED BY <1>4, <3>2, <4>1, CarriesOver
    <3> QED BY <3>2, <3>4, <3>5
  <2>2. CASE c.kind # "post"
    <3>1. UNCHANGED <<rows, outdated>>
      BY <1>4, <2>2
    <3>2. ASSUME NEW d \in calls, d.kind = "respond" PROVE Carries(d)'
      <4>1. Carries(d) /\ Alike(d, d)
        BY <3>2 DEF DetailInv, CallRight, Alike
      <4> QED BY <3>1, <4>1, CarriesKept
    <3>3. /\ RowsTyped'
          /\ \A b \in Arn : rows[b].asked \in Nat /\ rows'[b].asked \in Nat
                            /\ rows[b].asked <= rows'[b].asked
      BY <3>1 DEF DetailInv, RowsTyped, RowIs
    <3> QED BY <1>3, <1>5, <3>1, <3>2, <3>3
  <2> QED BY <2>1, <2>2
<1>8. PICK s : /\ RowIs(s, a) /\ RowsTyped' /\ rows'[a] = s
               /\ \A b \in Arn : rows[b].asked \in Nat /\ rows'[b].asked \in Nat
                                 /\ rows[b].asked <= rows'[b].asked
               /\ \A b \in Arn : rows'[b].value = rows[b].value
               /\ \A d \in calls : d.kind = "respond" => Carries(d)'
  BY <1>7
<1>9. PICK e : e = [c EXCEPT !.answer = s]
  OBVIOUS
<1>10. calls' = (calls \ {c}) \cup {e}
  BY <1>4, <1>8, <1>9
<1>11. /\ e = [kind |-> e.kind, arn |-> e.arn, query |-> e.query, form |-> e.form,
               answer |-> e.answer, refused |-> e.refused, mounted |-> e.mounted,
               seeded |-> e.seeded]
       /\ e.kind = c.kind /\ e.arn = c.arn /\ e.query = c.query /\ e.form = c.form
       /\ e.answer = s /\ e.mounted = c.mounted /\ e.seeded = c.seeded
  BY <1>1, <1>9, AnsweredCall
<1>12. FormOfShown' /\ D!AnswersAsShown'
  BY <1>4, <1>8 DEF DetailInv, FormOfShown, D!AnswersAsShown, FormIs
<1> QED BY <1>1, <1>2, <1>8, <1>10, <1>11, <1>12, ServedCall

LEMMA ServeCallStep == ASSUME DetailInv, NEW c \in calls, D!Serve(c) PROVE DetailInv'
<1>1. /\ c.answer = None
      /\ UNCHANGED <<online, cache, current, detail, form, responding, ledger, loading, mixed,
                     edits>>
      /\ D!ServeResponse(c) \/ D!ServeOther(c)
  BY DEF D!Serve, D!copies, D!answering, D!dues, D!bounds
<1> QED BY <1>1, AcceptStep, RefuseStep, ServeOtherStep

(***************************************************************************)
(* What the page does with the answers.                                    *)
(***************************************************************************)
\* What is kept of an answer, and what the page falls back to.
LEMMA KeptRows ==
  ASSUME DetailInv, NEW c \in calls, NEW lost \in BOOLEAN, ~lost => c.answer # None,
         D!Stored(c, lost), UNCHANGED rows,
         NEW r, r = (IF lost THEN cache[c.arn] ELSE c.answer)
  PROVE  /\ c.arn \in Arn /\ DOMAIN cache' = Arn
         /\ \A b \in Arn : cache'[b] # None =>
              RowIs(cache'[b], b) /\ cache'[b].asked <= rows[b].asked
         /\ r # None => RowIs(r, c.arn) /\ r.asked <= rows[c.arn].asked
<1>1. /\ c.arn \in Arn /\ DOMAIN cache = Arn
      /\ \A b \in Arn : cache[b] # None => RowIs(cache[b], b) /\ cache[b].asked <= rows[b].asked
      /\ c.answer # None => RowIs(c.answer, c.arn) /\ c.answer.asked <= rows[c.arn].asked
  BY DEF DetailInv, RowsTyped, CallRight, IsPageCall
<1>2. CASE lost
  BY <1>1, <1>2 DEF D!Stored
<1>3. CASE ~lost
  <2>1. PICK k : k = c.answer
    OBVIOUS
  <2>2. cache' = [cache EXCEPT ![c.arn] = k]
    BY <1>3, <2>1 DEF D!Stored
  <2>3. cache'[c.arn] = k /\ DOMAIN cache' = Arn /\ \A b \in Arn \ {c.arn} : cache'[b] = cache[b]
    BY <1>1, <2>2
  <2> QED BY <1>1, <1>3, <2>1, <2>3
<1> QED BY <1>2, <1>3

\* A call is over, and nothing but copies, what is paid and the waiting is new.
LEMMA CallOver ==
  ASSUME DetailInv, NEW c \in calls, UNCHANGED <<rows, online, current, form, wrong, outdated,
                                                mixed, edits>>,
         RowsTyped', D!PaysAsShown',
         responding \/ responding' => responding' \/ (c.kind = "respond" /\ c.mounted),
         \A d \in calls' : \/ d \in calls \ {c}
                           \/ IsPageCall(d) /\ d.kind = "load"
  PROVE  DetailInv'
<1>1. \A d \in calls : CallRight(d)
  BY DEF DetailInv
<1>2. ASSUME NEW d \in calls', d \in calls \ {c} PROVE CallRight(d)'
  <2>1. CallRight(d) /\ CallRight(c)
    BY <1>1, <1>2
  <2>2. d.kind = "status" => online'
    BY <2>1 DEF CallRight, PaidForShown
  <2>3. d.kind = "respond" /\ d.mounted => responding'
    BY <1>2, <2>1 DEF CallRight, Awaited
  <2>4. \A e \in calls' : e.kind = "respond" /\ e.mounted => e \in calls
    OBVIOUS
  <2> QED BY <2>1, <2>2, <2>3, <2>4, CallStays
<1>3. ASSUME NEW d \in calls', IsPageCall(d) /\ d.kind = "load" PROVE CallRight(d)'
  <2>1. IsPageCall(d)'
    BY <1>3 DEF IsPageCall, RowIs
  <2> QED BY <1>3, <2>1 DEF CallRight, PaidForShown
<1>4. FormOfShown' /\ D!AnswersAsShown'
  BY DEF DetailInv, FormOfShown, D!AnswersAsShown, FormIs
<1> QED BY <1>2, <1>3, <1>4 DEF DetailInv

LEMMA AnswerOpenStep ==
  ASSUME DetailInv, NEW c \in calls, NEW lost \in BOOLEAN, ~lost => c.answer # None,
         D!AnswerOpen(c, lost), UNCHANGED <<rows, online, wrong, edits>>
  PROVE  DetailInv'
<1>1. PICK r : r = (IF lost THEN cache[c.arn] ELSE c.answer)
  OBVIOUS
<1>2. /\ c.kind = "open" /\ D!Stored(c, lost) /\ UNCHANGED <<responding, ledger>>
      /\ IF r = None THEN /\ calls' = calls \ {c}
                          /\ UNCHANGED <<current, detail, form, loading, outdated, mixed>>
         ELSE D!Become(r, calls \ {c})
  BY <1>1 DEF D!AnswerOpen
<1>3. /\ c.arn \in Arn /\ DOMAIN cache' = Arn
      /\ \A b \in Arn : cache'[b] # None => RowIs(cache'[b], b) /\ cache'[b].asked <= rows[b].asked
      /\ r # None => RowIs(r, c.arn) /\ r.asked <= rows[c.arn].asked
  BY <1>1, <1>2, KeptRows
<1>4. CASE r = None
  <2>1. calls' = calls \ {c} /\ UNCHANGED <<current, detail, form, loading, outdated, mixed>>
    BY <1>2, <1>4
  <2>2. RowsTyped'
    BY <1>3, <2>1 DEF DetailInv, RowsTyped, RowIs
  <2>3. D!PaysAsShown'
    BY <1>2, <2>1 DEF DetailInv, D!PaysAsShown
  <2> QED BY <1>2, <2>1, <2>2, <2>3, CallOver
<1>5. CASE r # None
  <2>1. PICK cs : cs = calls \ {c}
    OBVIOUS
  <2>2. D!Become(r, cs) /\ cs \subseteq calls
    BY <1>2, <1>5, <2>1
  <2> QED BY <1>2, <1>3, <1>5, <2>2, BecomeKeeps
<1> QED BY <1>4, <1>5

LEMMA AnswerLoadStep ==
  ASSUME DetailInv, NEW c \in calls, NEW lost \in BOOLEAN, ~lost => c.answer # None,
         D!AnswerLoad(c, lost), UNCHANGED <<rows, online, wrong, edits>>
  PROVE  DetailInv'
<1>1. PICK r : r = (IF lost THEN cache[c.arn] ELSE c.answer)
  OBVIOUS
<1>2. /\ c.kind = "load" /\ D!Stored(c, lost) /\ calls' = calls \ {c}
      /\ detail' = (IF r = None THEN detail ELSE D!Detail(r))
      /\ UNCHANGED <<current, form, responding, ledger, loading, outdated, mixed>>
  BY <1>1 DEF D!AnswerLoad, D!answering, D!dues
<1>3. /\ c.arn \in Arn /\ DOMAIN cache' = Arn
      /\ \A b \in Arn : cache'[b] # None => RowIs(cache'[b], b) /\ cache'[b].asked <= rows[b].asked
      /\ r # None => RowIs(r, c.arn) /\ r.asked <= rows[c.arn].asked
  BY <1>1, <1>2, KeptRows
<1>4. detail' # None => /\ detail'.arn \in Arn
                        /\ detail'.asked \in Nat /\ detail'.asked <= rows[detail'.arn].asked
  <2>1. CASE r = None
    BY <1>2, <2>1 DEF DetailInv, RowsTyped
  <2>2. CASE r # None
    <3>1. D!Detail(r).arn = c.arn /\ D!Detail(r).asked = r.asked /\ r.asked \in Nat
      <4>1. RowIs(r, c.arn)
        BY <1>3, <2>2
      <4> QED BY <4>1 DEF RowIs, RowShape, D!Detail
    <3> QED BY <1>2, <1>3, <2>2, <3>1
  <2> QED BY <2>1, <2>2
<1>5. RowsTyped'
  BY <1>2, <1>3, <1>4 DEF DetailInv, RowsTyped, RowIs
<1>6. D!PaysAsShown'
  BY <1>2 DEF DetailInv, D!PaysAsShown
<1> QED BY <1>2, <1>5, <1>6, CallOver

LEMMA AnswerRespondStep ==
  ASSUME DetailInv, NEW c \in calls, NEW lost \in BOOLEAN,
         D!AnswerRespond(c, lost), UNCHANGED <<rows, online, wrong, edits>>
  PROVE  DetailInv'
<1>1. /\ c.kind = "respond" /\ responding' = (responding /\ ~c.mounted)
      /\ calls' = calls \ {c} \/ calls' = (calls \ {c}) \cup {D!Call("load", c.arn)}
      /\ UNCHANGED <<cache, current, detail, form, ledger, loading, outdated, mixed>>
  BY DEF D!AnswerRespond, D!Responded, D!copies, D!dues
<1>2. c.arn \in Arn
  BY DEF DetailInv, CallRight, IsPageCall
<1>3. \A d \in calls' : d \in calls \ {c} \/ (IsPageCall(d) /\ d.kind = "load")
  <2>1. PICK a \in Arn : a = c.arn
    BY <1>2
  <2>2. IsPageCall(D!Call("load", a)) /\ D!Call("load", a).kind = "load"
    BY PageCallIs
  <2> QED BY <1>1, <2>1, <2>2
<1>4. RowsTyped' /\ D!PaysAsShown'
  BY <1>1 DEF DetailInv, RowsTyped, RowIs, D!PaysAsShown
<1>5. responding \/ responding' => responding' \/ (c.kind = "respond" /\ c.mounted)
  BY <1>1, Zenon
<1> QED BY <1>1, <1>3, <1>4, <1>5, CallOver

LEMMA AnswerStatusStep ==
  ASSUME DetailInv, NEW c \in calls, NEW lost \in BOOLEAN, ~lost => c.answer # None,
         D!AnswerStatus(c, lost), UNCHANGED <<rows, online, wrong, edits>>
  PROVE  DetailInv'
<1>1. /\ c.kind = "status" /\ calls' = calls \ {c}
      /\ ledger' = (IF lost THEN None ELSE D!Ledger(c.answer))
      /\ UNCHANGED <<cache, current, detail, form, responding, outdated, mixed>>
  BY DEF D!AnswerStatus, D!copies, D!answering
<1>2. c.arn = current.arn /\ c.arn \in Arn /\ (c.answer # None => RowIs(c.answer, c.arn))
  BY <1>1 DEF DetailInv, CallRight, PaidForShown, IsPageCall
<1>3. ~lost => D!Ledger(c.answer).arn = c.arn
  BY <1>2, RowParts
<1>4. D!PaysAsShown'
  BY <1>1, <1>2, <1>3 DEF D!PaysAsShown
<1>5. RowsTyped'
  BY <1>1 DEF DetailInv, RowsTyped, RowIs
<1> QED BY <1>1, <1>4, <1>5, CallOver

LEMMA AnswerPostStep ==
  ASSUME DetailInv, NEW c \in calls, NEW lost \in BOOLEAN, ~lost => c.answer # None,
         D!AnswerPost(c, lost), UNCHANGED <<rows, online, wrong, edits>>
  PROVE  DetailInv'
<1>1. /\ c.kind = "post" /\ calls' = calls \ {c}
      /\ ledger' = (IF lost \/ ~c.mounted THEN ledger ELSE D!Ledger(c.answer))
      /\ UNCHANGED <<cache, current, detail, form, responding, loading, outdated, mixed>>
  BY DEF D!AnswerPost, D!copies, D!answering
<1>2. /\ c.arn \in Arn /\ (c.answer # None => RowIs(c.answer, c.arn))
      /\ c.mounted /\ ~mixed => c.arn = current.arn
  BY <1>1 DEF DetailInv, CallRight, PaidForShown, IsPageCall
<1>3. ~lost => D!Ledger(c.answer).arn = c.arn
  BY <1>2, RowParts
<1>4. D!PaysAsShown'
  BY <1>1, <1>2, <1>3 DEF DetailInv, D!PaysAsShown
<1>5. RowsTyped'
  BY <1>1 DEF DetailInv, RowsTyped, RowIs
<1> QED BY <1>1, <1>4, <1>5, CallOver

LEMMA HandleAnswer ==
  ASSUME DetailInv, NEW c \in calls, NEW lost \in BOOLEAN, ~lost => c.answer # None,
         D!Handle(c, lost)
  PROVE  DetailInv'
<1>1. /\ UNCHANGED <<rows, online, wrong, edits>>
      /\ \/ D!AnswerOpen(c, lost) \/ D!AnswerLoad(c, lost) \/ D!AnswerRespond(c, lost)
         \/ D!AnswerStatus(c, lost) \/ D!AnswerPost(c, lost)
  BY DEF D!Handle
<1>2. CASE D!AnswerOpen(c, lost)
  BY <1>1, <1>2, AnswerOpenStep
<1>3. CASE D!AnswerLoad(c, lost)
  BY <1>1, <1>3, AnswerLoadStep
<1>4. CASE D!AnswerRespond(c, lost)
  BY <1>1, <1>4, AnswerRespondStep
<1>5. CASE D!AnswerStatus(c, lost)
  BY <1>1, <1>5, AnswerStatusStep
<1>6. CASE D!AnswerPost(c, lost)
  BY <1>1, <1>6, AnswerPostStep
<1> QED BY <1>1, <1>2, <1>3, <1>4, <1>5, <1>6

LEMMA NextDetail == ASSUME DetailInv, D!Next PROVE DetailInv'
<1>1. CASE D!Leave
  BY <1>1, LeaveStep
<1>2. CASE D!GoOffline
  BY <1>2, GoOfflineStep
<1>3. CASE D!GoOnline
  BY <1>3, GoOnlineStep
<1>4. CASE D!Type
  BY <1>4, TypeFieldStep
<1>5. CASE D!Respond
  BY <1>5, RespondStep
<1>6. CASE D!OpenPayments
  BY <1>6, OpenPaymentsStep
<1>7. CASE D!Pay
  BY <1>7, PostStep
<1>8. ASSUME NEW a \in Arn, D!Open(a) \/ D!OpenCached(a) \/ D!AskQuery(a) \/ D!OtherAnswers(a)
      PROVE  DetailInv'
  <2>1. CASE D!Open(a)
    BY <2>1, OpenStep
  <2>2. CASE D!OpenCached(a)
    BY <2>2, OpenCachedStep
  <2>3. CASE D!AskQuery(a)
    BY <2>3, AskQueryStep
  <2>4. CASE D!OtherAnswers(a)
    BY <2>4, OtherAnswersStep
  <2> QED BY <1>8, <2>1, <2>2, <2>3, <2>4
<1>9. ASSUME NEW c \in calls, D!Serve(c) \/ D!Answer(c) \/ D!Lose(c)
      PROVE  DetailInv'
  <2>1. CASE D!Serve(c)
    BY <2>1, ServeCallStep
  <2>2. CASE D!Answer(c)
    <3>1. c.answer # None /\ D!Handle(c, FALSE)
      BY <2>2 DEF D!Answer
    <3> QED BY <3>1, HandleAnswer
  <2>3. CASE D!Lose(c)
    <3>1. D!Handle(c, TRUE)
      BY <2>3 DEF D!Lose
    <3> QED BY <3>1, HandleAnswer
  <2> QED BY <1>9, <2>1, <2>2, <2>3
<1> QED BY <1>1, <1>2, <1>3, <1>4, <1>5, <1>6, <1>7, <1>8, <1>9 DEF D!Next

(***************************************************************************)
(* The forms and the payments side by side.                                *)
(***************************************************************************)
LEMMA InitPages == MCInit => PagesInv
<1> SUFFICES ASSUME MCInit PROVE PagesInv
  OBVIOUS
<1>1. CreateInv /\ DetailInv
  BY InitCreate, InitDetail DEF MCInit
<1>2. typed = 0 /\ created = {} /\ wrong = {} /\ current = None
  BY DEF MCInit, C!Init, D!Init
<1> QED BY <1>1, <1>2 DEF PagesInv

LEMMA PagesIdle ==
  ASSUME UNCHANGED <<pageVars, createVars>>
  PROVE  /\ CreateInv => CreateInv'
         /\ typed' = typed /\ created' = created
<1>1. UNCHANGED <<ledger, loading, posting, calls, mixed, settled, profile, objects, data, typed,
                  created, crossed>>
  BY DEF pageVars, createVars
<1>2. FormShape => FormShape'
  BY <1>1 DEF FormShape, Copies, C!Looked, C!KeepsWhatWasTyped, C!Content
<1>3. DuesRight => DuesRight'
  BY <1>1 DEF DuesRight, DueCall, LedgerOfChosen, C!CreatedWhenSettled, IsCall, C!ChosenUpn,
              C!Content
<1> QED BY <1>1, <1>2, <1>3 DEF CreateInv

LEMMA DetailIdle ==
  ASSUME UNCHANGED <<pageVars, detailVars>>
  PROVE  /\ DetailInv => DetailInv'
         /\ wrong' = wrong /\ current' = current
BY DEF pageVars, detailVars, DetailInv, RowsTyped, FormOfShown, CallRight, IsPageCall,
       PaidForShown, Carries, Awaited, D!Accepted, D!AnswersAsShown, D!PaysAsShown,
       RowIs, FormIs

LEMMA NextPages == PagesInv /\ [MCNext]_mcVars => PagesInv'
<1> SUFFICES ASSUME PagesInv, [MCNext]_mcVars PROVE PagesInv'
  OBVIOUS
<1>1. CASE UNCHANGED <<pageVars, createVars, detailVars, beside>>
  BY <1>1, PagesIdle, DetailIdle DEF PagesInv
<1>2. CASE beside = "create" /\ C!Next /\ UNCHANGED <<vars, detailVars, beside>>
  <2>1. CreateInv'
    BY <1>2, NextCreate DEF PagesInv
  <2>2. wrong' = wrong /\ current' = current
    BY <1>2 DEF detailVars
  <2> QED BY <1>2, <2>1, <2>2 DEF PagesInv
<1>3. CASE beside = "detail" /\ D!Next /\ UNCHANGED <<vars, createVars, beside>>
  <2>1. DetailInv'
    BY <1>3, NextDetail DEF PagesInv
  <2>2. typed' = typed /\ created' = created
    BY <1>3 DEF createVars
  <2> QED BY <1>3, <2>1, <2>2 DEF PagesInv
<1> QED BY <1>1, <1>2, <1>3 DEF MCNext, mcVars

\* The forms of both pages keep what is typed, in every order of clicks and
\* late answers: the form of a new application holds the last edit, unless its
\* group was made while a lookup was under way, and an answer the server
\* accepts is for the query shown, with the fields of that application's form,
\* and changes no field that was not typed and not overtaken.
THEOREM FormsAlwaysKeepWhatWasTyped == MCSpec => []FormsKeepWhatWasTyped
<1>1. PagesInv => FormsKeepWhatWasTyped
  <2>1. CreateInv => C!KeepsWhatWasTyped
    BY DEF CreateInv, FormShape, C!KeepsWhatWasTyped
  <2>2. typed = 0 => C!KeepsWhatWasTyped
    BY DEF C!KeepsWhatWasTyped
  <2>3. DetailInv \/ wrong = {} => D!AnswersAsShown
    BY DEF DetailInv, D!AnswersAsShown
  <2> QED BY <2>1, <2>2, <2>3 DEF PagesInv, FormsKeepWhatWasTyped
<1> QED BY <1>1, InitPages, NextPages, PTL DEF MCSpec

\* Both pages show and pay the dues they name: an application is created only
\* for a property whose dues the server has settled, and the payments beside
\* an application are its own, as long as no posting overlaps the choice of
\* another property or application.
THEOREM PaymentsAlwaysAsShown == MCSpec => []PaymentsAsShown
<1>1. PagesInv => PaymentsAsShown
  <2>1. CreateInv => C!CreatedWhenSettled
    BY DEF CreateInv, DuesRight
  <2>2. created = {} => C!CreatedWhenSettled
    BY DEF C!CreatedWhenSettled
  <2>3. DetailInv \/ current = None => D!PaysAsShown
    BY DEF DetailInv, D!PaysAsShown
  <2> QED BY <2>1, <2>2, <2>3 DEF PagesInv, PaymentsAsShown
<1> QED BY <1>1, InitPages, NextPages, PTL DEF MCSpec

\* What is proved of the row holds of every behaviour of the three sides.
LEMMA RowBehaves == MCSpec => Spec
<1>1. MCInit => Init
  BY DEF MCInit
<1>2. [MCNext]_mcVars => [Next]_vars
  BY DEF MCNext, mcVars
<1> QED BY <1>1, <1>2, PTL DEF MCSpec, Spec

\* Whatever sessions, submissions and answers overlap, data are overwritten
\* only by a session that had loaded them, when it names its version, and a
\* snapshot is never taken twice.
THEOREM NothingIsOverwritten == MCSpec => NothingOverwritten
BY RowBehaves, NoSaveIsLost, SnapshotAlwaysKept, PTL DEF NothingOverwritten
=============================================================================
