--------------------------- MODULE MCClientsProofs ---------------------------
(***************************************************************************)
(* Proofs about the two browser applications and their pages of            *)
(* complaints: for any number of edits, applications, tasks, documents,    *)
(* complaints, calls and clicks, in whatever order calls are served,       *)
(* answered or lost.                                                       *)
(***************************************************************************)
EXTENDS MCClients, FiniteSetTheorems, SequenceTheorems, TLAPS

(***************************************************************************)
(* The citizen's browser.                                                  *)
(***************************************************************************)
\* A row version that may be held: older than application i, or else what the
\* other session wrote there was fetched.
Held(v, i) ==
  /\ i \in DOMAIN rows /\ v \in Nat /\ v <= rows[i].version
  /\ v = rows[i].version => rows[i].data \cap Other \subseteq fetched

\* A copy of application i: older, or the same data.
Kept(r, i) ==
  /\ i \in DOMAIN rows /\ r \in Row /\ r.version <= rows[i].version
  /\ r.version = rows[i].version => rows[i].data = r.data

Seen(d) == d \in Data /\ d \cap Other \subseteq fetched

AppIs(a) ==
  /\ a = [id |-> a.id, version |-> a.version, draft |-> a.draft, from |-> a.from]
  /\ a.id \in DOMAIN rows /\ Held(a.version, a.from)

Answers(c) ==
  /\ c.answer \in [outcome : {"ok", "conflict", "error"}, row : Row]
  /\ c.answer.outcome = "ok" => Kept(c.answer.row, c.id)

ReadIs(c) ==
  /\ c = [kind |-> c.kind, id |-> c.id, answer |-> c.answer]
  /\ c.id \in DOMAIN rows /\ (c.answer # None => Answers(c) /\ c.answer.outcome = "ok")

PutIs(c) ==
  /\ c = [kind |-> c.kind, id |-> c.id, data |-> c.data, version |-> c.version, from |-> c.from,
          answer |-> c.answer]
  /\ c.id \in DOMAIN rows /\ Seen(c.data) /\ Held(c.version, c.from)
  /\ c.answer # None => Answers(c) /\ (c.answer.outcome = "ok" => Seen(c.answer.row.data))

PostIs(c) ==
  /\ c = [kind |-> c.kind, data |-> c.data, then |-> c.then, dirty |-> c.dirty, id |-> c.id,
          answer |-> c.answer]
  /\ Seen(c.data)
  /\ c.answer # None => /\ Answers(c) /\ c.answer.outcome = "ok" /\ Seen(c.answer.row.data)
                        /\ c.id \in DOMAIN rows

SubmitIs(c) ==
  /\ c = [kind |-> c.kind, id |-> c.id, app |-> c.app, answer |-> c.answer]
  /\ c.id \in DOMAIN rows /\ AppIs(c.app)

CallIs(c) ==
  \/ c.kind \in {"load", "open", "reload"} /\ ReadIs(c)
  \/ c.kind = "put" /\ PutIs(c)
  \/ c.kind = "post" /\ PostIs(c)
  \/ c.kind = "submit" /\ SubmitIs(c)

\* The applications there are and those being made have room.
Made == {c \in calls : c.kind = "post" /\ c.answer = None}
RowsFit == IsFiniteSet(Made) /\ Len(rows) + Cardinality(Made) <= MaxRows

CopiesHeld ==
  /\ Seen(form) /\ (app # None => AppIs(app)) /\ (conflict # None => conflict \in DOMAIN rows)
  /\ DOMAIN cache = Id
  /\ \A i \in Id : cache[i] # None => Held(cache[i].version, i)

CitizenInv == rows \in Seq(Row) /\ RowsFit /\ CopiesHeld /\ \A c \in calls : CallIs(c)

(***************************************************************************)
(* The officer's browser.                                                  *)
(***************************************************************************)
AskIs(c) ==
  c = [kind |-> c.kind, at |-> c.at, live |-> c.live, listed |-> c.listed, answer |-> c.answer]

Flow(c) == c.kind \in {"open", "claim", "found", "jump"}

\* Unless flows overlapped, one of the calls "next" is one, and it leads to what
\* is shown, v with task s and application a: the application is that of the
\* task selected, or of the one being claimed, and is not there otherwise.
FlowFits(c, v, s, a) ==
  /\ c.kind \in {"open", "claim", "found"} => v # "task"
  /\ c.kind \in {"open", "claim"} => s \in {None, c.at}
  /\ c.kind = "claim" => a \in {None, O!ArnOf(c.at)}

OneFlow(next, v, s, a) ==
  /\ \A c, d \in next : Flow(c) /\ Flow(d) => c = d
  /\ \A c \in next : FlowFits(c, v, s, a)
  /\ v = "task" /\ s # None /\ a # None => a = O!ArnOf(s)
  /\ v # "task" /\ (\A c \in next : c.kind # "claim") => a = None

\* A preview that was not overtaken waits for its own document only.
PreviewOwn ==
  preview.doc # None =>
    /\ preview.blob \in {None, preview.doc}
    /\ \A c \in asked : c.kind = "preview" /\ c.live => c.at = preview.doc

OfficerInv ==
  /\ \A c \in asked : AskIs(c)
  /\ preview = [doc |-> preview.doc, blob |-> preview.blob]
  /\ {mixed, overtaken} \subseteq BOOLEAN
  /\ ~mixed => OneFlow(asked, shown, selected, application)
  /\ ~overtaken => PreviewOwn

(***************************************************************************)
(* The pages about complaints.                                             *)
(***************************************************************************)
FetchIs(c) ==
  /\ c = [kind |-> c.kind, at |-> c.at, answer |-> c.answer]
  /\ c.kind # "file" => c.answer \in {None, c.at}

\* One filing is under way, of the form on the page, and one complaint is opened.
FilesForm(c) ==
  c.kind = "file" => filing /\ c.at = sheet /\ \A d \in fetches : d.kind = "file" => d = c
OpensOne(c) == c.kind = "open" => opening /\ \A d \in fetches : d.kind = "open" => d = c

\* A list that was asked for once at a time is of the filter, and so are the
\* dictation of the form and the photograph of the complaint shown.
ListOf(p) ==
  /\ ~loading[p] => listed[p] \in {None, filter[p]}
  /\ \A c \in fetches : c.kind = p =>
       loading[p] /\ c.at = filter[p] /\ \A d \in fetches : d.kind = p => d = c
TextOf ==
  /\ text \in {None, sheet}
  /\ \A c \in fetches : c.kind = "parse" => c.at = sheet
PhotoOf ==
  /\ previewed \in {0, picked}
  /\ \A c \in fetches : c.kind = "evidence" => picked # 0 /\ c.at = picked

NamedRight ==
  /\ opening => picked = 0 /\ newStatus = 0
  /\ picked # 0 => newStatus \in {0, picked}
  /\ \A p \in P!Page : p \notin crossed => ListOf(p)
  /\ "parse" \notin crossed => TextOf
  /\ "evidence" \notin crossed => PhotoOf

\* The complaints filed with form f, one of them perhaps not answered yet.
FiledWith(f) == {i \in 1 .. Len(filed) : filed[i] = f}
Unanswered == \E c \in fetches : c.kind = "file" /\ c.answer # None
FiledInv ==
  /\ filed \in Seq(Nat) /\ sheet \in Nat /\ \A i \in 1 .. Len(filed) : filed[i] <= sheet
  /\ retried \in [1 .. MaxFiled + 1 -> Nat]
  /\ \A f \in DOMAIN retried : Cardinality(FiledWith(f)) <= 1 + retried[f]
  /\ sheet \in DOMAIN retried /\ ~Unanswered =>
       Cardinality(FiledWith(sheet)) <= retried[sheet]

PageInv ==
  /\ \A c \in fetches : FetchIs(c) /\ FilesForm(c) /\ OpensOne(c)
  /\ DOMAIN filter = P!Page /\ DOMAIN listed = P!Page /\ DOMAIN loading = P!Page
  /\ {filing, opening} \subseteq BOOLEAN
  /\ NamedRight /\ FiledInv

\* One invariant for each side, whichever moves.
ClientsInv == CitizenInv /\ OfficerInv /\ PageInv

(***************************************************************************)
(* The pages about complaints, step by step.                               *)
(***************************************************************************)
LEMMA FetchCall ==
  ASSUME NEW kind, NEW at
  PROVE  /\ FetchIs(P!Call(kind, at)) /\ P!Call(kind, at).kind = kind
         /\ P!Call(kind, at).at = at /\ P!Call(kind, at).answer = None
BY DEF FetchIs, P!Call

\* A step that adds one call of a kind that was counted.
Asks(kind, at) ==
  /\ fetches' = fetches \cup {P!Call(kind, at)}
  /\ crossed' = IF \E c \in fetches : c.kind = kind THEN crossed \cup {kind} ELSE crossed

LEMMA AsksIt == ASSUME NEW kind, NEW at, P!Ask(kind, at) PROVE Asks(kind, at)
BY DEF P!Ask, P!Pending, Asks

\* What was filed, and how often, when nothing is filed.
LEMMA FiledStays ==
  ASSUME FiledInv, UNCHANGED <<filed, sheet, retried>>, Unanswered => Unanswered'
  PROVE  FiledInv'
BY DEF FiledInv, FiledWith

LEMMA UnansweredStays ==
  ASSUME \A c \in fetches : c.kind = "file" => c \in fetches'
  PROVE  Unanswered => Unanswered'
BY DEF Unanswered

\* A call whose kind is none that the page counts on.
LEMMA AsksAside ==
  ASSUME PageInv, NEW kind \in {"detail", "photo", "status"}, NEW at, Asks(kind, at),
         UNCHANGED <<filed, filter, listed, loading, sheet, text, filing, picked, opening,
                     newStatus, previewed, retried>>
  PROVE  PageInv'
<1>1. \A c \in fetches' : c \in fetches \/ (c.kind = kind /\ FetchIs(c))
  BY FetchCall DEF Asks
<1>2. \A c \in fetches' : FetchIs(c) /\ FilesForm(c)' /\ OpensOne(c)'
  BY <1>1 DEF PageInv, FilesForm, OpensOne
<1>3. crossed \subseteq crossed'
  BY DEF Asks
<1>4. \A p \in P!Page : p \notin crossed' => ListOf(p)'
  BY <1>1, <1>3 DEF PageInv, NamedRight, ListOf, P!Page
<1>5. /\ "parse" \notin crossed' => TextOf'
      /\ "evidence" \notin crossed' => PhotoOf'
  BY <1>1, <1>3 DEF PageInv, NamedRight, TextOf, PhotoOf
<1>6. NamedRight'
  BY <1>4, <1>5 DEF PageInv, NamedRight
<1>7. FiledInv'
  BY FiledStays, UnansweredStays DEF PageInv, Asks
<1> QED BY <1>2, <1>6, <1>7 DEF PageInv

\* Only what is on the page changes.
LEMMA PageOnly ==
  ASSUME PageInv, UNCHANGED <<filed, filter, listed, loading, sheet, filing, opening, retried,
                              fetches>>,
         crossed \subseteq crossed', opening => picked' = 0 /\ newStatus' = 0,
         picked' # 0 => newStatus' \in {0, picked'},
         "parse" \notin crossed' => TextOf', "evidence" \notin crossed' => PhotoOf'
  PROVE  PageInv'
<1>1. \A c \in fetches' : FetchIs(c) /\ FilesForm(c)' /\ OpensOne(c)'
  BY DEF PageInv, FilesForm, OpensOne
<1>2. NamedRight'
  BY DEF PageInv, NamedRight, ListOf
<1>3. FiledInv'
  BY FiledStays, UnansweredStays DEF PageInv
<1> QED BY <1>1, <1>2, <1>3 DEF PageInv

LEMMA SetFilterStep ==
  ASSUME PageInv, NEW p \in P!Page, NEW f \in Filter, P!SetFilter(p, f) PROVE PageInv'
<1>1. /\ Asks(p, f) /\ filter' = [filter EXCEPT ![p] = f] /\ loading' = [loading EXCEPT ![p] = TRUE]
      /\ UNCHANGED <<filed, listed, sheet, text, filing, picked, opening, newStatus, previewed,
                     retried>>
  BY AsksIt DEF P!SetFilter, P!citizen, P!officer
<1>2. \A c \in fetches' : c \in fetches \/ (c.kind = p /\ c.at = f /\ FetchIs(c))
  BY <1>1, FetchCall DEF Asks
<1>3. \A c \in fetches' : FetchIs(c) /\ FilesForm(c)' /\ OpensOne(c)'
  BY <1>1, <1>2 DEF PageInv, FilesForm, OpensOne, P!Page
<1>4. crossed \subseteq crossed' /\ fetches \subseteq fetches'
  BY <1>1 DEF Asks
<1>5. ASSUME NEW q \in P!Page, q \notin crossed' PROVE ListOf(q)'
  <2>1. CASE q = p
    <3>1. loading'[p] /\ filter'[p] = f /\ \A c \in fetches : c.kind # p
      BY <1>1, <1>5, <2>1 DEF PageInv, Asks
    <3>2. \A c \in fetches' : c.kind = p => c = P!Call(p, f)
      BY <1>1, <3>1 DEF Asks
    <3> QED BY <1>2, <2>1, <3>1, <3>2 DEF ListOf
  <2>2. CASE q # p
    <3>1. loading'[q] = loading[q] /\ filter'[q] = filter[q] /\ listed' = listed
      BY <1>1, <2>2 DEF PageInv
    <3>2. ListOf(q)
      BY <1>4, <1>5 DEF PageInv, NamedRight
    <3> QED BY <1>2, <2>2, <3>1, <3>2 DEF ListOf
  <2> QED BY <2>1, <2>2
<1>6. /\ "parse" \notin crossed' => TextOf'
      /\ "evidence" \notin crossed' => PhotoOf'
  BY <1>1, <1>2, <1>4 DEF PageInv, NamedRight, TextOf, PhotoOf, P!Page
<1>7. NamedRight'
  BY <1>1, <1>5, <1>6 DEF PageInv, NamedRight
<1>8. FiledInv'
  BY <1>1, <1>4, FiledStays, UnansweredStays DEF PageInv
<1>9. DOMAIN filter' = P!Page /\ DOMAIN loading' = P!Page /\ DOMAIN listed' = P!Page
  BY <1>1 DEF PageInv
<1> QED BY <1>1, <1>3, <1>7, <1>8, <1>9 DEF PageInv

LEMMA ClickCardStep ==
  ASSUME PageInv, NEW i, P!ClickCard(i) \/ P!ClickPhotograph PROVE PageInv'
<1>1. /\ Asks("detail", i) \/ Asks("photo", chosen)
      /\ UNCHANGED <<filed, filter, listed, loading, sheet, text, filing, picked, opening,
                     newStatus, previewed, retried>>
  BY AsksIt DEF P!ClickCard, P!ClickPhotograph, P!Show, P!lists, P!officer
<1>2. CASE Asks("detail", i)
  <2>1. PICK kind \in {"detail", "photo", "status"} : kind = "detail"
    OBVIOUS
  <2> QED BY <1>1, <1>2, <2>1, AsksAside
<1>3. CASE Asks("photo", chosen)
  <2>1. PICK kind \in {"detail", "photo", "status"} : kind = "photo"
    OBVIOUS
  <2>2. PICK at : at = chosen
    OBVIOUS
  <2>3. Asks(kind, at)
    BY <1>3, <2>1, <2>2
  <2> QED BY <1>1, <2>3, AsksAside
<1> QED BY <1>1, <1>2, <1>3

LEMMA WalkStep ==
  ASSUME PageInv, P!ClickNew \/ P!ClickBack \/ P!Type \/ P!ChooseStatus \/ P!BackToList
  PROVE  PageInv'
<1>1. CASE P!ClickNew \/ P!ClickBack
  <2>1. UNCHANGED <<filed, filter, listed, loading, sheet, text, filing, picked, opening, newStatus,
                    previewed, retried, fetches, crossed>>
    BY <1>1 DEF P!ClickNew, P!ClickBack, P!Show, P!lists, P!officer
  <2> QED BY <2>1, PageOnly DEF PageInv, NamedRight, TextOf, PhotoOf
<1>2. CASE P!Type
  <2>1. /\ text' = sheet
        /\ UNCHANGED <<filed, filter, listed, loading, sheet, filing, picked, opening, newStatus,
                       previewed, retried, fetches, crossed>>
    BY <1>2 DEF P!Type, P!lists, P!officer
  <2> QED BY <2>1, PageOnly DEF PageInv, NamedRight, TextOf, PhotoOf
<1>3. CASE P!ChooseStatus
  <2>1. /\ picked # 0 /\ newStatus' = picked
        /\ UNCHANGED <<filed, filter, listed, loading, sheet, text, filing, picked, opening,
                       previewed, retried, fetches, crossed>>
    BY <1>3 DEF P!ChooseStatus, P!lists, P!citizen
  <2> QED BY <2>1, PageOnly DEF PageInv, NamedRight, TextOf, PhotoOf
<1>4. CASE P!BackToList
  <2>1. /\ picked' = 0 /\ previewed' = 0 /\ picked # 0
        /\ crossed' = (IF \E c \in fetches : c.kind = "evidence" THEN crossed \cup {"evidence"}
                       ELSE crossed)
        /\ UNCHANGED <<filed, filter, listed, loading, sheet, text, filing, opening, newStatus,
                       retried, fetches>>
    BY <1>4 DEF P!BackToList, P!Pending, P!lists, P!citizen
  <2>2. ~opening
    BY <2>1 DEF PageInv, NamedRight
  <2>3. "evidence" \notin crossed' => PhotoOf'
    BY <2>1 DEF PhotoOf
  <2>4. "parse" \notin crossed' => TextOf'
    BY <2>1 DEF PageInv, NamedRight, TextOf
  <2> QED BY <2>1, <2>2, <2>3, <2>4, PageOnly
<1> QED BY <1>1, <1>2, <1>3, <1>4

LEMMA DictateStep == ASSUME PageInv, P!Dictate PROVE PageInv'
<1>1. /\ Asks("parse", sheet) /\ text' = sheet
      /\ UNCHANGED <<filed, filter, listed, loading, sheet, filing, picked, opening, newStatus,
                     previewed, retried>>
  BY AsksIt DEF P!Dictate, P!lists, P!officer
<1>2. \A c \in fetches' : c \in fetches \/ (c.kind = "parse" /\ c.at = sheet /\ FetchIs(c))
  BY <1>1, FetchCall DEF Asks
<1>3. \A c \in fetches' : FetchIs(c) /\ FilesForm(c)' /\ OpensOne(c)'
  BY <1>1, <1>2 DEF PageInv, FilesForm, OpensOne
<1>4. crossed \subseteq crossed' /\ fetches \subseteq fetches'
  BY <1>1 DEF Asks
<1>5. \A p \in P!Page : p \notin crossed' => ListOf(p)'
  BY <1>1, <1>2, <1>4 DEF PageInv, NamedRight, ListOf, P!Page
<1>6. "parse" \notin crossed' => TextOf'
  BY <1>1, <1>2, <1>4 DEF PageInv, NamedRight, TextOf
<1>7. "evidence" \notin crossed' => PhotoOf'
  BY <1>1, <1>2, <1>4 DEF PageInv, NamedRight, PhotoOf
<1>8. NamedRight'
  BY <1>1, <1>5, <1>6, <1>7 DEF PageInv, NamedRight
<1>9. FiledInv'
  BY <1>1, <1>4, FiledStays, UnansweredStays DEF PageInv
<1> QED BY <1>1, <1>3, <1>8, <1>9 DEF PageInv

LEMMA ClickFileStep == ASSUME PageInv, P!ClickFile PROVE PageInv'
<1>1. /\ Asks("file", sheet) /\ ~filing /\ filing' = TRUE
      /\ UNCHANGED <<filed, filter, listed, loading, sheet, text, picked, opening, newStatus,
                     previewed, retried>>
  BY AsksIt DEF P!ClickFile, P!MayFile, P!lists, P!officer
<1>2. \A c \in fetches : c.kind # "file"
  BY <1>1 DEF PageInv, FilesForm
<1>3. \A c \in fetches' : \/ c \in fetches
                          \/ c.kind = "file" /\ c.at = sheet /\ c.answer = None /\ FetchIs(c)
                             /\ c = P!Call("file", sheet)
  BY <1>1, FetchCall DEF Asks
<1>4. \A c \in fetches' : FetchIs(c) /\ FilesForm(c)' /\ OpensOne(c)'
  BY <1>1, <1>2, <1>3 DEF PageInv, FilesForm, OpensOne
<1>5. crossed \subseteq crossed' /\ fetches \subseteq fetches'
  BY <1>1 DEF Asks
<1>6. \A p \in P!Page : p \notin crossed' => ListOf(p)'
  BY <1>1, <1>3, <1>5 DEF PageInv, NamedRight, ListOf, P!Page
<1>7. /\ "parse" \notin crossed' => TextOf'
      /\ "evidence" \notin crossed' => PhotoOf'
  BY <1>1, <1>3, <1>5 DEF PageInv, NamedRight, TextOf, PhotoOf
<1>8. NamedRight'
  BY <1>1, <1>6, <1>7 DEF PageInv, NamedRight
<1>9. FiledInv'
  BY <1>1, <1>5, FiledStays, UnansweredStays DEF PageInv
<1> QED BY <1>1, <1>4, <1>8, <1>9 DEF PageInv

LEMMA OpenDetailStep == ASSUME PageInv, NEW i, P!OpenDetail(i) PROVE PageInv'
<1>1. /\ Asks("open", i) /\ picked = 0 /\ ~opening /\ opening' = TRUE /\ newStatus' = 0
      /\ UNCHANGED <<filed, filter, listed, loading, sheet, text, filing, picked, previewed,
                     retried>>
  BY AsksIt DEF P!OpenDetail, P!Cleared, P!lists, P!citizen
<1>2. \A c \in fetches : c.kind # "open"
  BY <1>1 DEF PageInv, OpensOne
<1>3. \A c \in fetches' : c \in fetches \/ (c.kind = "open" /\ FetchIs(c) /\ c = P!Call("open", i))
  BY <1>1, FetchCall DEF Asks
<1>4. \A c \in fetches' : FetchIs(c) /\ FilesForm(c)' /\ OpensOne(c)'
  BY <1>1, <1>2, <1>3 DEF PageInv, FilesForm, OpensOne
<1>5. crossed \subseteq crossed' /\ fetches \subseteq fetches'
  BY <1>1 DEF Asks
<1>6. \A p \in P!Page : p \notin crossed' => ListOf(p)'
  BY <1>1, <1>3, <1>5 DEF PageInv, NamedRight, ListOf, P!Page
<1>7. /\ "parse" \notin crossed' => TextOf'
      /\ "evidence" \notin crossed' => PhotoOf'
  BY <1>1, <1>3, <1>5 DEF PageInv, NamedRight, TextOf, PhotoOf
<1>8. NamedRight'
  BY <1>1, <1>6, <1>7 DEF PageInv, NamedRight
<1>9. FiledInv'
  BY <1>1, <1>5, FiledStays, UnansweredStays DEF PageInv
<1> QED BY <1>1, <1>4, <1>8, <1>9 DEF PageInv

LEMMA UpdateStatusStep == ASSUME PageInv, P!UpdateStatus PROVE PageInv'
<1>1. /\ Asks("status", picked)
      /\ UNCHANGED <<filed, filter, listed, loading, sheet, text, filing, picked, opening,
                     newStatus, previewed, retried>>
  BY AsksIt DEF P!UpdateStatus, P!lists, P!citizen
<1>2. PICK kind \in {"detail", "photo", "status"} : kind = "status"
  OBVIOUS
<1>3. PICK at : at = picked
  OBVIOUS
<1>4. Asks(kind, at)
  BY <1>1, <1>2, <1>3
<1> QED BY <1>1, <1>4, AsksAside

LEMMA EvidenceStep == ASSUME PageInv, P!ClickEvidence PROVE PageInv'
<1>1. /\ Asks("evidence", picked) /\ picked # 0 /\ previewed' = 0
      /\ UNCHANGED <<filed, filter, listed, loading, sheet, text, filing, picked, opening,
                     newStatus, retried>>
  BY AsksIt DEF P!ClickEvidence, P!lists, P!citizen
<1>2. \A c \in fetches' : c \in fetches \/ (c.kind = "evidence" /\ c.at = picked /\ FetchIs(c))
  BY <1>1, FetchCall DEF Asks
<1>3. \A c \in fetches' : FetchIs(c) /\ FilesForm(c)' /\ OpensOne(c)'
  BY <1>1, <1>2 DEF PageInv, FilesForm, OpensOne
<1>4. crossed \subseteq crossed' /\ fetches \subseteq fetches'
  BY <1>1 DEF Asks
<1>5. \A p \in P!Page : p \notin crossed' => ListOf(p)'
  BY <1>1, <1>2, <1>4 DEF PageInv, NamedRight, ListOf, P!Page
<1>6. "parse" \notin crossed' => TextOf'
  BY <1>1, <1>2, <1>4 DEF PageInv, NamedRight, TextOf
<1>7. "evidence" \notin crossed' => PhotoOf'
  BY <1>1, <1>2, <1>4 DEF PageInv, NamedRight, PhotoOf
<1>8. NamedRight'
  BY <1>1, <1>5, <1>6, <1>7 DEF PageInv, NamedRight
<1>9. FiledInv'
  BY <1>1, <1>4, FiledStays, UnansweredStays DEF PageInv
<1> QED BY <1>1, <1>3, <1>8, <1>9 DEF PageInv

\* The server has answered a call.
LEMMA ServedFetch ==
  ASSUME PageInv, NEW c \in fetches, NEW e, FetchIs(e), e.kind = c.kind, e.at = c.at,
         fetches' = (fetches \ {c}) \cup {e},
         UNCHANGED <<filter, listed, loading, sheet, text, filing, picked, opening, newStatus,
                     previewed, crossed>>
  PROVE  /\ \A d \in fetches' : FetchIs(d) /\ FilesForm(d)' /\ OpensOne(d)'
         /\ NamedRight'
<1>1. \A d \in fetches' : d \in fetches \ {c} \/ d = e
  OBVIOUS
<1>2. \A d \in fetches' : FetchIs(d) /\ FilesForm(d)' /\ OpensOne(d)'
  BY <1>1 DEF PageInv, FilesForm, OpensOne
<1>3. \A p \in P!Page : p \notin crossed' => ListOf(p)'
  <2> SUFFICES ASSUME NEW p \in P!Page, p \notin crossed' PROVE ListOf(p)'
    OBVIOUS
  <2>1. ListOf(p)
    BY DEF PageInv, NamedRight
  <2>2. ~loading'[p] => listed'[p] \in {None, filter'[p]}
    BY <2>1 DEF ListOf
  <2>3. ASSUME NEW d \in fetches', d.kind = p
        PROVE  loading'[p] /\ d.at = filter'[p] /\ \A n \in fetches' : n.kind = p => n = d
    BY <1>1, <2>1, <2>3 DEF ListOf
  <2> QED BY <2>2, <2>3 DEF ListOf
<1>4. /\ "parse" \notin crossed' => TextOf'
      /\ "evidence" \notin crossed' => PhotoOf'
  BY <1>1 DEF PageInv, NamedRight, TextOf, PhotoOf
<1> QED BY <1>2, <1>3, <1>4 DEF PageInv, NamedRight

LEMMA ServeFetchStep == ASSUME PageInv, NEW c \in fetches, P!Serve(c) PROVE PageInv'
<1>0. /\ c.answer = None
      /\ filed' = (IF c.kind = "file" THEN Append(filed, c.at) ELSE filed)
      /\ fetches' = (fetches \ {c}) \cup
           {[c EXCEPT !.answer = IF c.kind = "file" THEN Len(filed') ELSE c.at]}
      /\ UNCHANGED <<filter, listed, loading, sheet, text, filing, picked, opening, newStatus,
                     previewed, crossed, retried>>
  BY DEF P!Serve, P!lists, P!citizen, P!officer
<1>1. PICK x : x = IF c.kind = "file" THEN Len(filed') ELSE c.at
  OBVIOUS
<1>2. PICK e : e = [c EXCEPT !.answer = x]
  OBVIOUS
<1>3. FetchIs(c) /\ FilesForm(c) /\ filed \in Seq(Nat) /\ sheet \in Nat
  BY DEF PageInv, FiledInv
<1>4. FetchIs(e) /\ e.kind = c.kind /\ e.at = c.at /\ e.answer = x
  <2>1. c.kind # "file" => x \in {None, c.at}
    BY <1>1
  <2>2. c = [kind |-> c.kind, at |-> c.at, answer |-> c.answer]
    BY <1>3 DEF FetchIs
  <2>3. /\ e = [kind |-> e.kind, at |-> e.at, answer |-> e.answer]
        /\ e.kind = c.kind /\ e.at = c.at /\ e.answer = x
    BY <1>2, <2>2
  <2> QED BY <2>1, <2>3 DEF FetchIs
<1>5. fetches' = (fetches \ {c}) \cup {e}
  BY <1>0, <1>1, <1>2
<1>6. /\ \A d \in fetches' : FetchIs(d) /\ FilesForm(d)' /\ OpensOne(d)'
      /\ NamedRight'
  BY <1>0, <1>4, <1>5, ServedFetch
<1>7. CASE c.kind # "file"
  <2>1. UNCHANGED <<filed, sheet, retried>>
    BY <1>0, <1>7
  <2>2. Unanswered => Unanswered'
    BY <1>5, <1>7 DEF Unanswered
  <2>3. FiledInv'
    BY <2>1, <2>2, FiledStays DEF PageInv
  <2> QED BY <1>0, <1>6, <2>3 DEF PageInv
<1>8. CASE c.kind = "file"
  <2>0. PICK n \in Nat : n = sheet
    BY <1>3
  <2>1. /\ filed' = Append(filed, n) /\ filed' \in Seq(Nat) /\ Len(filed') = Len(filed) + 1
        /\ Len(filed) \in Nat /\ sheet' = n
        /\ \A i \in 1 .. Len(filed) : filed'[i] = filed[i]
        /\ filed'[Len(filed) + 1] = n
    BY <1>0, <1>3, <1>8, <2>0 DEF FilesForm
  <2>2. \A i \in 1 .. Len(filed') : filed'[i] <= n
    BY <1>3, <2>0, <2>1 DEF PageInv, FiledInv
  <2>3. ~Unanswered
    BY <1>0, <1>3, <1>8 DEF FilesForm, Unanswered
  <2>4. Unanswered'
    <3>1. e.answer # None
      BY <1>1, <1>4, <1>8, <2>1, ClientAssumption
    <3>2. e \in fetches' /\ e.kind = "file"
      BY <1>4, <1>5, <1>8
    <3> QED BY <3>1, <3>2 DEF Unanswered
  <2>5. ASSUME NEW f, f # n PROVE FiledWith(f)' = FiledWith(f)
    BY <2>1, <2>5 DEF FiledWith
  <2>6. FiledWith(n)' = FiledWith(n) \cup {Len(filed) + 1}
    BY <2>1 DEF FiledWith
  <2>7. IsFiniteSet(FiledWith(n))
    <3>1. IsFiniteSet(1 .. Len(filed))
      BY <2>1, FS_Interval
    <3> QED BY <3>1, FS_Subset DEF FiledWith
  <2>8. Cardinality(FiledWith(n)') = Cardinality(FiledWith(n)) + 1
    <3>1. Len(filed) + 1 \notin FiledWith(n)
      BY <2>1 DEF FiledWith
    <3> QED BY <2>6, <2>7, <3>1, FS_AddElement
  <2>9. ASSUME NEW f \in DOMAIN retried
        PROVE  Cardinality(FiledWith(f)') <= 1 + retried[f]
    <3>1. CASE f = n
      <4>1. Cardinality(FiledWith(n)) <= retried[n]
        BY <2>0, <2>3, <2>9, <3>1 DEF PageInv, FiledInv
      <4>2. Cardinality(FiledWith(n)) \in Nat /\ retried[n] \in Nat
        BY <2>7, <2>9, <3>1, FS_CardinalityType DEF PageInv, FiledInv
      <4>3. Cardinality(FiledWith(n)) + 1 <= 1 + retried[n]
        BY <4>1, <4>2
      <4> QED BY <2>8, <3>1, <4>3
    <3>2. CASE f # n
      <4>1. Cardinality(FiledWith(f)) <= 1 + retried[f]
        BY <2>9 DEF PageInv, FiledInv
      <4> QED BY <2>5, <3>2, <4>1
    <3> QED BY <3>1, <3>2
  <2>10. \A f \in DOMAIN retried' : (Cardinality(FiledWith(f)) <= 1 + retried[f])'
    BY <1>0, <2>9
  <2>11. FiledInv'
    BY <1>0, <2>1, <2>2, <2>4, <2>10 DEF PageInv, FiledInv
  <2> QED BY <1>0, <1>6, <2>11 DEF PageInv
<1> QED BY <1>7, <1>8

\* A call is over, and others may have begun that the page does not count on.
LEMMA CallsLeft ==
  ASSUME PageInv, NEW c \in fetches, c.kind # "file", c.kind # "open",
         \A d \in fetches' : d \in fetches \ {c} \/ (FetchIs(d) /\ d.kind = "reload"),
         \A d \in fetches \ {c} : d \in fetches',
         UNCHANGED <<filed, filter, sheet, filing, picked, opening, newStatus, retried>>,
         DOMAIN listed' = P!Page, DOMAIN loading' = P!Page,
         crossed \subseteq crossed',
         \A p \in P!Page : p # c.kind => listed'[p] = listed[p] /\ loading'[p] = loading[p],
         \A p \in P!Page : p = c.kind /\ p \notin crossed' => listed'[p] \in {None, filter[p]},
         "parse" \notin crossed' => text' \in {None, sheet},
         "evidence" \notin crossed' => previewed' \in {0, picked}
  PROVE  PageInv'
<1>1. \A d \in fetches' : FetchIs(d) /\ FilesForm(d)' /\ OpensOne(d)'
  BY DEF PageInv, FilesForm, OpensOne
<1>2. ASSUME NEW p \in P!Page, p \notin crossed' PROVE ListOf(p)'
  <2>0. p # "reload" /\ ListOf(p)
    BY <1>2 DEF PageInv, NamedRight, P!Page
  <2>1. CASE p = c.kind
    <3>1. \A d \in fetches' : d.kind # p
      BY <2>0, <2>1 DEF ListOf
    <3> QED BY <1>2, <2>1, <3>1 DEF ListOf
  <2>2. CASE p # c.kind
    <3>1. listed'[p] = listed[p] /\ loading'[p] = loading[p] /\ filter'[p] = filter[p]
      BY <2>2
    <3>2. \A d \in fetches' : d.kind = p => d \in fetches
      BY <2>0
    <3> QED BY <2>0, <3>1, <3>2 DEF ListOf
  <2> QED BY <2>1, <2>2
<1>3. "parse" \notin crossed' => TextOf'
  BY DEF PageInv, NamedRight, TextOf
<1>4. "evidence" \notin crossed' => PhotoOf'
  BY DEF PageInv, NamedRight, PhotoOf
<1>5. NamedRight'
  BY <1>2, <1>3, <1>4 DEF PageInv, NamedRight
<1>6. FiledInv'
  BY FiledStays, UnansweredStays DEF PageInv
<1> QED BY <1>1, <1>5, <1>6 DEF PageInv

LEMMA AnswerListStep ==
  ASSUME PageInv, NEW c \in fetches, NEW gone \in BOOLEAN, ~gone => c.answer # None,
         P!AnswerList(c, gone), UNCHANGED filed
  PROVE  PageInv'
<1>1. /\ c.kind \in P!Page /\ fetches' = fetches \ {c}
      /\ loading' = [loading EXCEPT ![c.kind] = FALSE]
      /\ listed' = IF gone THEN listed ELSE [listed EXCEPT ![c.kind] = c.answer]
      /\ crossed' = IF gone THEN crossed \cup {c.kind} ELSE crossed
      /\ UNCHANGED <<filter, sheet, text, filing, picked, opening, newStatus, previewed, retried>>
  BY DEF P!AnswerList, P!citizen, P!officer
<1>2. PICK p \in P!Page : p = c.kind
  BY <1>1
<1>3. /\ DOMAIN listed' = P!Page /\ DOMAIN loading' = P!Page
      /\ \A q \in P!Page : q # p => listed'[q] = listed[q] /\ loading'[q] = loading[q]
  BY <1>1, <1>2 DEF PageInv
<1>4. p \notin crossed' => listed'[p] \in {None, filter[p]}
  <2> SUFFICES ASSUME p \notin crossed' PROVE listed'[p] \in {None, filter[p]}
    OBVIOUS
  <2>1. ~gone /\ p \notin crossed
    BY <1>1, <1>2
  <2>2. c.at = filter[p] /\ c.answer \in {None, c.at}
    BY <1>2, <2>1 DEF PageInv, NamedRight, ListOf, FetchIs, P!Page
  <2>3. listed'[p] = c.answer
    BY <1>1, <1>2, <2>1 DEF PageInv
  <2> QED BY <2>2, <2>3
<1>5. c.kind # "file" /\ c.kind # "open" /\ crossed \subseteq crossed'
  BY <1>1 DEF P!Page
<1>6. /\ "parse" \notin crossed' => text' \in {None, sheet}
      /\ "evidence" \notin crossed' => previewed' \in {0, picked}
  BY <1>1, <1>5 DEF PageInv, NamedRight, TextOf, PhotoOf
<1> QED BY <1>1, <1>2, <1>3, <1>4, <1>5, <1>6, CallsLeft

LEMMA AnswerAsideStep ==
  ASSUME PageInv, NEW c \in fetches, NEW gone \in BOOLEAN, ~gone => c.answer # None,
         \/ P!AnswerDetail(c, gone) \/ P!AnswerPhoto(c, gone)
         \/ P!AnswerParse(c, gone) \/ P!AnswerEvidence(c, gone),
         UNCHANGED filed
  PROVE  PageInv'
<1>1. /\ c.kind \in {"detail", "reload", "photo", "parse", "evidence"}
      /\ \/ fetches' = fetches \ {c}
         \/ fetches' = (fetches \ {c}) \cup {P!Call("reload", c.at)}
      /\ UNCHANGED <<filter, listed, loading, sheet, filing, picked, opening, newStatus, retried,
                     crossed>>
      /\ IF c.kind = "parse" THEN text' = (IF gone THEN text ELSE c.answer) ELSE text' = text
      /\ IF c.kind = "evidence" THEN previewed' = (IF gone THEN previewed ELSE c.answer)
         ELSE previewed' = previewed
  BY DEF P!AnswerDetail, P!AnswerPhoto, P!AnswerParse, P!AnswerEvidence, P!lists, P!citizen,
         P!officer
<1>2. PICK n : n = P!Call("reload", c.at) /\ FetchIs(n) /\ n.kind = "reload"
  BY FetchCall
<1>3. \A d \in fetches' : d \in fetches \ {c} \/ (FetchIs(d) /\ d.kind = "reload")
  BY <1>1, <1>2
<1>4. c.kind # "file" => c.answer \in {None, c.at}
  BY DEF PageInv, FetchIs
<1>5. "parse" \notin crossed' => text' \in {None, sheet}
  BY <1>1, <1>4 DEF PageInv, NamedRight, TextOf
<1>6. "evidence" \notin crossed' => previewed' \in {0, picked}
  BY <1>1, <1>4 DEF PageInv, NamedRight, PhotoOf
<1>7. /\ c.kind # "file" /\ c.kind # "open" /\ c.kind \notin P!Page /\ crossed \subseteq crossed'
      /\ DOMAIN listed' = P!Page /\ DOMAIN loading' = P!Page
      /\ \A d \in fetches \ {c} : d \in fetches'
  BY <1>1 DEF PageInv, P!Page
<1>8. /\ \A p \in P!Page : p # c.kind => listed'[p] = listed[p] /\ loading'[p] = loading[p]
      /\ \A p \in P!Page : p = c.kind /\ p \notin crossed' => listed'[p] \in {None, filter[p]}
  BY <1>1, <1>7
<1> QED BY <1>1, <1>3, <1>5, <1>6, <1>7, <1>8, CallsLeft

LEMMA AnswerFileStep ==
  ASSUME PageInv, NEW c \in fetches, NEW gone \in BOOLEAN, P!AnswerFile(c, gone), UNCHANGED filed
  PROVE  PageInv'
<1>1. /\ c.kind = "file" /\ filing' = FALSE
      /\ UNCHANGED <<filed, filter, listed, picked, opening, newStatus, previewed>>
      /\ gone => /\ fetches' = fetches \ {c} /\ retried' = [retried EXCEPT ![c.at] = @ + 1]
                 /\ UNCHANGED <<loading, sheet, text, crossed>>
      /\ ~gone => /\ sheet' = sheet + 1 /\ text' = None /\ UNCHANGED retried
                  /\ fetches' = (fetches \ {c}) \cup {P!Call("citizen", filter["citizen"])}
                  /\ loading' = [loading EXCEPT !["citizen"] = TRUE]
                  /\ crossed' = crossed \cup {k \in {"parse", "citizen"} :
                                                \E d \in fetches : d.kind = k}
  BY DEF P!AnswerFile, P!Pending, P!officer
<1>2. /\ c.at = sheet /\ (\A d \in fetches : d.kind = "file" => d = c) /\ sheet \in Nat
      /\ filed \in Seq(Nat) /\ Len(filed) \in Nat
  BY <1>1 DEF PageInv, FilesForm, FiledInv
<1>3. PICK n : /\ n = P!Call("citizen", filter["citizen"]) /\ FetchIs(n) /\ n.kind = "citizen"
               /\ n.at = filter["citizen"]
  BY FetchCall
<1>4. \A d \in fetches' : d \in fetches \ {c} \/ (~gone /\ d = n)
  BY <1>1, <1>3
<1>5. \A d \in fetches' : d.kind # "file" /\ FetchIs(d) /\ OpensOne(d)'
  BY <1>1, <1>2, <1>3, <1>4 DEF PageInv, OpensOne
<1>6. \A d \in fetches' : FilesForm(d)'
  BY <1>5 DEF FilesForm
<1>7. DOMAIN loading' = P!Page /\ crossed \subseteq crossed'
  <2>1. DOMAIN loading = P!Page
    BY DEF PageInv
  <2> QED BY <1>1, <2>1
<1>8. ASSUME NEW p \in P!Page, p \notin crossed' PROVE ListOf(p)'
  <2>1. ListOf(p) /\ DOMAIN loading = P!Page
    BY <1>7, <1>8 DEF PageInv, NamedRight
  <2>2. CASE ~gone /\ p = "citizen"
    <3>1. \A d \in fetches : d.kind # "citizen"
      BY <1>1, <1>8, <2>2
    <3>2. \A d \in fetches' : d.kind = "citizen" => d = n
      BY <1>4, <3>1
    <3>3. loading'["citizen"]
      BY <1>1, <1>8, <2>1, <2>2
    <3> QED BY <1>1, <1>3, <2>2, <3>2, <3>3 DEF ListOf
  <2>3. CASE gone \/ p # "citizen"
    <3>1. loading'[p] = loading[p]
      BY <1>1, <1>8, <2>1, <2>3
    <3>2. \A d \in fetches' : d.kind = p => d \in fetches
      BY <1>3, <1>4, <2>3
    <3> QED BY <1>1, <2>1, <3>1, <3>2 DEF ListOf
  <2> QED BY <2>2, <2>3
<1>9. "parse" \notin crossed' => TextOf'
  <2>1. CASE gone
    BY <1>1, <1>4, <2>1 DEF PageInv, NamedRight, TextOf
  <2>2. CASE ~gone
    <3>1. "parse" \notin crossed' => \A d \in fetches' : d.kind # "parse"
      BY <1>1, <1>3, <1>4, <2>2
    <3> QED BY <1>1, <2>2, <3>1 DEF TextOf
  <2> QED BY <2>1, <2>2
<1>10. "evidence" \notin crossed' => PhotoOf'
  BY <1>1, <1>3, <1>4, <1>7 DEF PageInv, NamedRight, PhotoOf
<1>11. NamedRight'
  BY <1>1, <1>8, <1>9, <1>10 DEF PageInv, NamedRight
<1>12. FiledInv'
  <2>1. PICK s \in Nat : s = sheet
    BY <1>2
  <2>2. \A f : FiledWith(f)' = FiledWith(f)
    BY <1>1 DEF FiledWith
  <2>3. \A f : IsFiniteSet(FiledWith(f)) /\ Cardinality(FiledWith(f)) \in Nat
    <3>1. IsFiniteSet(1 .. Len(filed))
      BY <1>2, FS_Interval
    <3> QED BY <3>1, FS_Subset, FS_CardinalityType DEF FiledWith
  <2>4. /\ retried \in [1 .. MaxFiled + 1 -> Nat]
        /\ \A f \in DOMAIN retried : Cardinality(FiledWith(f)) <= 1 + retried[f]
        /\ \A i \in 1 .. Len(filed) : filed[i] \in Nat /\ filed[i] <= sheet
    BY <1>2 DEF PageInv, FiledInv
  <2>5. CASE gone
    <3>1. retried' = [retried EXCEPT ![s] = @ + 1] /\ sheet' = s
      BY <1>1, <1>2, <2>1, <2>5
    <3>2. retried' \in [1 .. MaxFiled + 1 -> Nat]
      <4>1. CASE s \in 1 .. MaxFiled + 1
        <5>1. PICK x \in Nat : x = retried[s] + 1
          BY <2>4, <4>1
        <5>2. retried' = [retried EXCEPT ![s] = x]
          BY <3>1, <5>1
        <5> QED BY <2>4, <5>1, <5>2
      <4>2. CASE s \notin 1 .. MaxFiled + 1
        <5>1. PICK x : x = retried[s] + 1
          OBVIOUS
        <5>2. retried' = [retried EXCEPT ![s] = x]
          BY <3>1, <5>1
        <5> QED BY <2>4, <4>2, <5>2
      <4> QED BY <4>1, <4>2
    <3>3. \A f \in DOMAIN retried : /\ retried[f] \in Nat /\ retried'[f] \in Nat
                                    /\ retried[f] <= retried'[f]
                                    /\ f = s => retried'[f] = retried[f] + 1
      BY <2>4, <3>1
    <3>4. \A f \in DOMAIN retried : Cardinality(FiledWith(f)) <= 1 + retried'[f]
      BY <2>3, <2>4, <3>3
    <3>5. s \in DOMAIN retried => Cardinality(FiledWith(s)) <= retried'[s]
      BY <2>3, <2>4, <3>3
    <3>6. DOMAIN retried' = DOMAIN retried
      BY <2>4, <3>2
    <3> QED BY <1>1, <1>2, <2>1, <2>2, <2>4, <3>1, <3>2, <3>4, <3>5, <3>6 DEF FiledInv
  <2>6. CASE ~gone
    <3>1. PICK m \in Nat : m = s + 1
      OBVIOUS
    <3>2. sheet' = m /\ retried' = retried /\ filed' = filed
      BY <1>1, <2>1, <2>6, <3>1
    <3>3. \A i \in 1 .. Len(filed) : filed[i] <= m /\ filed[i] # m
      BY <2>1, <2>4, <3>1
    <3>4. Cardinality(FiledWith(m)) = 0
      BY <3>3, FS_EmptySet DEF FiledWith
    <3>5. m \in DOMAIN retried => Cardinality(FiledWith(m)) <= retried[m]
      <4>1. m \in DOMAIN retried => retried[m] \in Nat
        BY <2>4
      <4> QED BY <3>4, <4>1
    <3> QED BY <1>2, <2>2, <2>4, <3>2, <3>3, <3>5 DEF FiledInv
  <2> QED BY <2>5, <2>6
<1> QED BY <1>1, <1>5, <1>6, <1>7, <1>11, <1>12 DEF PageInv

LEMMA AnswerOpenedStep ==
  ASSUME PageInv, NEW c \in fetches, NEW gone \in BOOLEAN, P!AnswerOpen(c, gone), UNCHANGED filed
  PROVE  PageInv'
<1>1. /\ c.kind = "open" /\ fetches' = fetches \ {c} /\ opening' = FALSE
      /\ picked' = (IF gone THEN picked ELSE c.answer)
      /\ UNCHANGED <<filed, filter, listed, loading, sheet, text, filing, newStatus, previewed,
                     crossed, retried>>
  BY DEF P!AnswerOpen, P!lists, P!citizen
<1>2. opening /\ picked = 0 /\ newStatus = 0 /\ \A d \in fetches : d.kind = "open" => d = c
  BY <1>1 DEF PageInv, OpensOne, NamedRight
<1>3. \A d \in fetches' : d \in fetches /\ d.kind # "open"
  BY <1>1, <1>2
<1>4. \A d \in fetches' : FetchIs(d) /\ FilesForm(d)' /\ OpensOne(d)'
  BY <1>1, <1>3 DEF PageInv, FilesForm, OpensOne
<1>5. "evidence" \notin crossed' => PhotoOf'
  BY <1>1, <1>2, <1>3 DEF PageInv, NamedRight, PhotoOf
<1>6. "parse" \notin crossed' => TextOf'
  BY <1>1, <1>3 DEF PageInv, NamedRight, TextOf
<1>7. \A p \in P!Page : p \notin crossed' => ListOf(p)'
  BY <1>1, <1>3 DEF PageInv, NamedRight, ListOf
<1>8. NamedRight'
  BY <1>1, <1>2, <1>5, <1>6, <1>7 DEF NamedRight
<1>9. FiledInv'
  BY <1>1, FiledStays, UnansweredStays DEF PageInv
<1> QED BY <1>1, <1>4, <1>8, <1>9 DEF PageInv

LEMMA AnswerStatusesStep ==
  ASSUME PageInv, NEW c \in fetches, NEW gone \in BOOLEAN, P!AnswerStatus(c, gone), UNCHANGED filed
  PROVE  PageInv'
<1>1. /\ c.kind = "status"
      /\ UNCHANGED <<filed, filter, listed, sheet, text, filing, opening, previewed, retried>>
      /\ gone => fetches' = fetches \ {c} /\ UNCHANGED <<loading, picked, newStatus, crossed>>
      /\ ~gone => /\ picked' = (IF picked = 0 THEN 0 ELSE c.answer) /\ newStatus' = 0
                  /\ fetches' = (fetches \ {c}) \cup {P!Call("officer", filter["officer"])}
                  /\ loading' = [loading EXCEPT !["officer"] = TRUE]
                  /\ crossed' = crossed \cup {k \in {"officer", "evidence"} :
                                                \E d \in fetches : d.kind = k}
                                        \cup (IF previewed # 0 THEN {"evidence"} ELSE {})
  BY DEF P!AnswerStatus, P!Pending, P!Cleared, P!citizen
<1>3. PICK n : /\ n = P!Call("officer", filter["officer"]) /\ FetchIs(n) /\ n.kind = "officer"
               /\ n.at = filter["officer"]
  BY FetchCall
<1>4. \A d \in fetches' : d \in fetches \ {c} \/ (~gone /\ d = n)
  BY <1>1, <1>3
<1>5. \A d \in fetches' : FetchIs(d) /\ OpensOne(d)' /\ FilesForm(d)'
  BY <1>1, <1>3, <1>4 DEF PageInv, OpensOne, FilesForm
<1>7. DOMAIN loading' = P!Page /\ crossed \subseteq crossed'
  <2>1. DOMAIN loading = P!Page
    BY DEF PageInv
  <2> QED BY <1>1, <2>1
<1>8. ASSUME NEW p \in P!Page, p \notin crossed' PROVE ListOf(p)'
  <2>1. ListOf(p) /\ DOMAIN loading = P!Page
    BY <1>7, <1>8 DEF PageInv, NamedRight
  <2>2. CASE ~gone /\ p = "officer"
    <3>1. \A d \in fetches : d.kind # "officer"
      BY <1>1, <1>8, <2>2
    <3>2. \A d \in fetches' : d.kind = "officer" => d = n
      BY <1>4, <3>1
    <3>3. loading'["officer"]
      BY <1>1, <1>8, <2>1, <2>2
    <3> QED BY <1>1, <1>3, <2>2, <3>2, <3>3 DEF ListOf
  <2>3. CASE gone \/ p # "officer"
    <3>1. loading'[p] = loading[p]
      BY <1>1, <1>8, <2>1, <2>3
    <3>2. \A d \in fetches' : d.kind = p => d \in fetches
      BY <1>3, <1>4, <2>3
    <3> QED BY <1>1, <2>1, <3>1, <3>2 DEF ListOf
  <2> QED BY <2>2, <2>3
<1>9. "parse" \notin crossed' => TextOf'
  BY <1>1, <1>3, <1>4, <1>7 DEF PageInv, NamedRight, TextOf
<1>10. "evidence" \notin crossed' => PhotoOf'
  <2>1. CASE gone
    BY <1>1, <1>4, <2>1 DEF PageInv, NamedRight, PhotoOf
  <2>2. CASE ~gone
    <3>1. "evidence" \notin crossed' => previewed = 0 /\ \A d \in fetches' : d.kind # "evidence"
      BY <1>1, <1>3, <1>4, <2>2
    <3> QED BY <1>1, <2>2, <3>1 DEF PhotoOf
  <2> QED BY <2>1, <2>2
<1>11. NamedRight'
  <2>1. opening => picked' = 0 /\ newStatus' = 0
    BY <1>1 DEF PageInv, NamedRight
  <2>2. picked' # 0 => newStatus' \in {0, picked'}
    BY <1>1 DEF PageInv, NamedRight
  <2> QED BY <1>1, <1>8, <1>9, <1>10, <2>1, <2>2 DEF NamedRight
<1>12. FiledInv'
  <2>1. \A d \in fetches : d.kind = "file" => d \in fetches'
    BY <1>1
  <2> QED BY <1>1, <2>1, FiledStays, UnansweredStays DEF PageInv
<1> QED BY <1>1, <1>5, <1>7, <1>11, <1>12 DEF PageInv

LEMMA HandlePages ==
  ASSUME PageInv, NEW c \in fetches, NEW gone \in BOOLEAN, ~gone => c.answer # None,
         P!Handle(c, gone)
  PROVE  PageInv'
BY AnswerListStep, AnswerAsideStep, AnswerFileStep, AnswerOpenedStep, AnswerStatusesStep
   DEF P!Handle

LEMMA NextPage == ASSUME PageInv, P!Next PROVE PageInv'
<1>1. ASSUME NEW p \in P!Page, NEW f \in Filter, P!SetFilter(p, f) PROVE PageInv'
  BY <1>1, SetFilterStep
<1>2. ASSUME NEW i \in P!Complaint, P!ClickCard(i) \/ P!OpenDetail(i) PROVE PageInv'
  BY <1>2, ClickCardStep, OpenDetailStep
<1>3. CASE P!ClickNew \/ P!ClickBack \/ P!Type \/ P!ChooseStatus \/ P!BackToList
  BY <1>3, WalkStep
<1>4. CASE P!Dictate \/ P!ClickFile \/ P!ClickPhotograph \/ P!UpdateStatus \/ P!ClickEvidence
  BY <1>4, DictateStep, ClickFileStep, ClickCardStep, UpdateStatusStep, EvidenceStep
<1>5. ASSUME NEW c \in fetches, P!Serve(c) \/ P!Answer(c) \/ P!Lose(c) PROVE PageInv'
  <2>1. CASE P!Serve(c)
    BY <2>1, ServeFetchStep
  <2>2. CASE P!Answer(c)
    <3>1. c.answer # None /\ P!Handle(c, FALSE)
      BY <2>2 DEF P!Answer
    <3> QED BY <3>1, HandlePages
  <2>3. CASE P!Lose(c)
    <3>1. P!Handle(c, TRUE)
      BY <2>3 DEF P!Lose
    <3> QED BY <3>1, HandlePages
  <2> QED BY <1>5, <2>1, <2>2, <2>3
<1> QED BY <1>1, <1>2, <1>3, <1>4, <1>5 DEF P!Next

LEMMA InitPage == P!Init => PageInv
<1> SUFFICES ASSUME P!Init PROVE PageInv
  OBVIOUS
<1>1. /\ filed = [i \in 1 .. Earlier |-> 0] /\ filter \in [P!Page -> Filter]
      /\ listed = [p \in P!Page |-> None] /\ loading = [p \in P!Page |-> TRUE]
      /\ sheet = 1 /\ text = None /\ filing = FALSE
      /\ picked = 0 /\ opening = FALSE /\ newStatus = 0 /\ previewed = 0
      /\ fetches = {P!Call(p, filter[p]) : p \in P!Page}
      /\ retried = [f \in 1 .. MaxFiled + 1 |-> 0] /\ crossed = {}
  BY DEF P!Init
<1>2. \A c \in fetches : FetchIs(c) /\ \E p \in P!Page : c = P!Call(p, filter[p]) /\ c.kind = p
                                                        /\ c.at = filter[p]
  BY <1>1, FetchCall
<1>3. \A c \in fetches : FilesForm(c) /\ OpensOne(c)
  BY <1>2 DEF FilesForm, OpensOne, P!Page
<1>4. \A p \in P!Page : ListOf(p)
  BY <1>1, <1>2 DEF ListOf
<1>5. TextOf /\ PhotoOf
  BY <1>1, <1>2 DEF TextOf, PhotoOf, P!Page
<1>6. FiledInv
  <2>1. filed \in Seq(Nat) /\ Len(filed) = Earlier /\ \A i \in 1 .. Earlier : filed[i] = 0
    BY <1>1, PagesAssumption
  <2>2. \A f \in 1 .. MaxFiled + 1 : FiledWith(f) = {}
    BY <2>1 DEF FiledWith
  <2>3. \A f \in 1 .. MaxFiled + 1 : Cardinality(FiledWith(f)) = 0
    BY <2>2, FS_EmptySet
  <2>4. DOMAIN retried = 1 .. MaxFiled + 1 /\ \A f \in 1 .. MaxFiled + 1 : retried[f] = 0
    BY <1>1
  <2>5. retried \in [1 .. MaxFiled + 1 -> Nat]
    BY <1>1
  <2>6. \A i \in 1 .. Len(filed) : filed[i] <= sheet
    <3>1. sheet = 1 /\ 0 <= 1
      BY <1>1
    <3>2. \A i \in 1 .. Len(filed) : filed[i] = 0
      BY <2>1
    <3> QED BY <3>1, <3>2
  <2>7. \A f \in DOMAIN retried : Cardinality(FiledWith(f)) <= 1 + retried[f]
    BY <2>3, <2>4
  <2>8. sheet \in DOMAIN retried => Cardinality(FiledWith(sheet)) <= retried[sheet]
    BY <1>1, <2>3, <2>4
  <2>9. sheet \in Nat
    BY <1>1
  <2> QED BY <2>1, <2>5, <2>6, <2>7, <2>8, <2>9 DEF FiledInv
<1>7. NamedRight
  BY <1>1, <1>4, <1>5 DEF NamedRight
<1> QED BY <1>1, <1>2, <1>3, <1>6, <1>7 DEF PageInv

(***************************************************************************)
(* The officer's browser, step by step.                                    *)
(***************************************************************************)
LEMMA AskCall ==
  ASSUME NEW kind, NEW at
  PROVE  /\ AskIs(O!Call(kind, at)) /\ O!Call(kind, at).kind = kind
         /\ O!Call(kind, at).at = at
BY DEF AskIs, O!Call

\* Where another page is shown, the calls for the page that was there go on
\* without it.
LEMMA ShowKeeps ==
  ASSUME NEW v, NEW s, NEW a, NEW next, O!Show(v, s, a, next), \A c \in next : AskIs(c)
  PROVE  /\ shown' = v /\ selected' = s /\ application' = a
         /\ (preview' = preview /\ asked' = next) \/ preview' = O!Fresh
         /\ \A c \in asked' : /\ AskIs(c)
                              /\ \E d \in next : c.kind = d.kind /\ c.at = d.at
         /\ \A d \in next : \E c \in asked' : c.kind = d.kind
         /\ (\A c, d \in next : Flow(c) /\ Flow(d) => c = d)
              => \A c, d \in asked' : Flow(c) /\ Flow(d) => c = d
<1>1. PICK y : y = FALSE
  OBVIOUS
<1>2. /\ shown' = v /\ selected' = s /\ application' = a
      /\ \/ preview' = preview /\ asked' = next
         \/ preview' = O!Fresh /\ asked' = {[c EXCEPT !.live = y] : c \in next}
  BY <1>1 DEF O!Show
<1>3. CASE asked' = next
  BY <1>2, <1>3
<1>4. CASE preview' = O!Fresh /\ asked' = {[c EXCEPT !.live = y] : c \in next}
  <2>1. \A d \in next : LET e == [d EXCEPT !.live = y]
                        IN AskIs(e) /\ e.kind = d.kind /\ e.at = d.at
    BY DEF AskIs
  <2>2. \A c \in asked' : \E d \in next : c = [d EXCEPT !.live = y]
    BY <1>4
  <2>3. \A c \in asked' : AskIs(c) /\ \E d \in next : c.kind = d.kind /\ c.at = d.at
    BY <2>1, <2>2
  <2>4. \A d \in next : [d EXCEPT !.live = y] \in asked'
    BY <1>4
  <2>5. \A d \in next : \E c \in asked' : c.kind = d.kind
    BY <2>1, <2>4
  <2>6. ASSUME \A c, d \in next : Flow(c) /\ Flow(d) => c = d,
               NEW c \in asked', NEW d \in asked', Flow(c), Flow(d)
        PROVE  c = d
    <3>1. PICK m \in next : c = [m EXCEPT !.live = y]
      BY <2>2
    <3>2. PICK n \in next : d = [n EXCEPT !.live = y]
      BY <2>2
    <3>3. Flow(m) /\ Flow(n)
      BY <2>1, <2>6, <3>1, <3>2 DEF Flow
    <3> QED BY <2>6, <3>1, <3>2, <3>3
  <2> QED BY <1>2, <1>4, <2>3, <2>5, <2>6
<1> QED BY <1>2, <1>3, <1>4

\* A step that shows something.
LEMMA ShowStep ==
  ASSUME OfficerInv, NEW v, NEW s, NEW a, NEW next, O!Show(v, s, a, next),
         \A c \in next : AskIs(c), \A c \in next : c \in asked \/ c.kind # "preview",
         UNCHANGED overtaken, mixed' \in BOOLEAN, ~mixed' => OneFlow(next, v, s, a)
  PROVE  OfficerInv'
<1>1. /\ shown' = v /\ selected' = s /\ application' = a
      /\ (preview' = preview /\ asked' = next) \/ preview' = O!Fresh
      /\ \A c \in asked' : AskIs(c) /\ \E d \in next : c.kind = d.kind /\ c.at = d.at
      /\ \A d \in next : \E c \in asked' : c.kind = d.kind
      /\ (\A c, d \in next : Flow(c) /\ Flow(d) => c = d)
           => \A c, d \in asked' : Flow(c) /\ Flow(d) => c = d
  BY ShowKeeps
<1>2. ~mixed' => OneFlow(asked', v, s, a)
  <2> SUFFICES ASSUME OneFlow(next, v, s, a) PROVE OneFlow(asked', v, s, a)
    OBVIOUS
  <2>1. \A c, d \in asked' : Flow(c) /\ Flow(d) => c = d
    BY <1>1 DEF OneFlow
  <2>2. \A c \in asked' : FlowFits(c, v, s, a)
    <3> SUFFICES ASSUME NEW c \in asked' PROVE FlowFits(c, v, s, a)
      OBVIOUS
    <3>1. PICK d \in next : c.kind = d.kind /\ c.at = d.at
      BY <1>1
    <3>2. FlowFits(d, v, s, a)
      BY DEF OneFlow
    <3> QED BY <3>1, <3>2 DEF FlowFits
  <2>3. v # "task" /\ (\A c \in asked' : c.kind # "claim") => a = None
    BY <1>1 DEF OneFlow
  <2> QED BY <2>1, <2>2, <2>3 DEF OneFlow
<1>3. ~overtaken' => PreviewOwn'
  <2>1. CASE preview' = preview /\ asked' = next
    BY <2>1 DEF OfficerInv, PreviewOwn
  <2>2. CASE preview' = O!Fresh
    BY <2>2 DEF PreviewOwn, O!Fresh
  <2> QED BY <1>1, <2>1, <2>2
<1>4. preview' = [doc |-> preview'.doc, blob |-> preview'.blob]
  BY <1>1 DEF OfficerInv, O!Fresh
<1>5. {mixed', overtaken'} \subseteq BOOLEAN
  BY DEF OfficerInv
<1> QED BY <1>1, <1>2, <1>3, <1>4, <1>5 DEF OfficerInv

\* A step that leaves the page as it is.
LEMMA StayStep ==
  ASSUME OfficerInv, UNCHANGED <<shown, selected, application, preview, overtaken>>,
         mixed' \in BOOLEAN, \A c \in asked' : AskIs(c),
         \A c \in asked' : c.kind = "preview" /\ c.live
           => \E d \in asked : d.kind = "preview" /\ d.live /\ d.at = c.at,
         ~mixed' => OneFlow(asked', shown, selected, application)
  PROVE  OfficerInv'
<1>1. ~overtaken' => PreviewOwn'
  BY DEF OfficerInv, PreviewOwn
<1> QED BY <1>1 DEF OfficerInv

\* A call beside the flows, in a page with the same flows.
LEMMA FlowsStay ==
  ASSUME NEW next, NEW S, NEW v, NEW s, NEW a, OneFlow(S, v, s, a),
         \A c \in next : c \in S \/ ~Flow(c), \A c \in S : Flow(c) => c \in next
  PROVE  OneFlow(next, v, s, a)
<1>1. \A c, d \in next : Flow(c) /\ Flow(d) => c = d
  BY DEF OneFlow
<1>2. \A c \in next : FlowFits(c, v, s, a)
  BY DEF OneFlow, FlowFits, Flow
<1>3. (\A c \in next : c.kind # "claim") => \A c \in S : c.kind # "claim"
  BY DEF Flow
<1> QED BY <1>1, <1>2, <1>3 DEF OneFlow

\* Nothing flows where nothing is open.
LEMMA NoFlow ==
  ASSUME NEW next, NEW v, NEW s, NEW a, \A c \in next : ~Flow(c),
         v = "task" /\ s # None /\ a # None => a = O!ArnOf(s), v # "task" => a = None
  PROVE  OneFlow(next, v, s, a)
BY DEF OneFlow, FlowFits, Flow

\* A new flow where none was.
LEMMA FirstFlow ==
  ASSUME NEW S, NEW n, NEW v, NEW s, NEW a, \A c \in S : ~Flow(c), FlowFits(n, v, s, a),
         v = "task" /\ s # None /\ a # None => a = O!ArnOf(s),
         v # "task" /\ n.kind # "claim" => a = None
  PROVE  OneFlow(S \cup {n}, v, s, a)
BY DEF OneFlow, FlowFits, Flow

LEMMA ClickTaskStep == ASSUME OfficerInv, NEW t, O!ClickTask(t) PROVE OfficerInv'
<1>1. /\ shown = "inbox" /\ mixed' = (mixed \/ O!Flowing) /\ UNCHANGED overtaken
      /\ O!Show(shown, t, application, asked \cup {O!Call("open", t)})
  BY DEF O!ClickTask
<1>2. PICK n : n = O!Call("open", t) /\ AskIs(n) /\ n.kind = "open" /\ n.at = t
  BY AskCall
<1>3. O!Show(shown, t, application, asked \cup {n})
  BY <1>1, <1>2
<1>4. ASSUME ~mixed' PROVE OneFlow(asked \cup {n}, shown, t, application)
  <2>1. OneFlow(asked, shown, selected, application) /\ \A c \in asked : ~Flow(c)
    BY <1>1, <1>4 DEF OfficerInv, O!Flowing, Flow
  <2>2. application = None
    BY <1>1, <2>1 DEF OneFlow, Flow
  <2>3. FlowFits(n, shown, t, application)
    BY <1>1, <1>2 DEF FlowFits
  <2> QED BY <1>1, <2>1, <2>2, <2>3, FirstFlow
<1>5. mixed' \in BOOLEAN
  BY <1>1 DEF OfficerInv, O!Flowing
<1> QED BY <1>1, <1>2, <1>3, <1>4, <1>5, ShowStep DEF OfficerInv

LEMMA GoToStep == ASSUME OfficerInv, NEW v \in {"inbox", "search"}, O!GoTo(v) PROVE OfficerInv'
<1>1. O!Show(v, None, None, asked) /\ mixed' = (mixed /\ O!Flowing) /\ UNCHANGED overtaken
  BY DEF O!GoTo, O!Leave
<1>2. ASSUME ~mixed' PROVE OneFlow(asked, v, None, None)
  <2>1. CASE ~mixed
    BY <2>1 DEF OfficerInv, OneFlow, FlowFits
  <2>2. CASE ~O!Flowing
    <3>1. \A c \in asked : ~Flow(c)
      BY <2>2 DEF O!Flowing, Flow
    <3> QED BY <3>1, NoFlow
  <2>3. ~mixed \/ ~O!Flowing
    BY <1>1, <1>2 DEF O!Flowing
  <2> QED BY <2>1, <2>2, <2>3
<1>3. mixed' \in BOOLEAN
  BY <1>1 DEF OfficerInv, O!Flowing
<1> QED BY <1>1, <1>2, <1>3, ShowStep DEF OfficerInv

\* A search result is clicked, or the history is gone back to.
LEMMA ClickFoundStep == ASSUME OfficerInv, NEW a, O!ClickFound(a) \/ O!JumpToTask PROVE OfficerInv'
<1>1. PICK n : /\ AskIs(n) /\ asked' = asked \cup {n}
               /\ (n.kind = "found" /\ shown = "search") \/ n.kind = "jump"
  BY AskCall DEF O!ClickFound, O!JumpToTask
<1>2. /\ UNCHANGED <<shown, selected, application, preview, overtaken>>
      /\ mixed' = (mixed \/ O!Flowing)
  BY DEF O!ClickFound, O!JumpToTask
<1>3. ASSUME ~mixed' PROVE OneFlow(asked', shown, selected, application)
  <2>1. OneFlow(asked, shown, selected, application) /\ \A c \in asked : ~Flow(c)
    BY <1>2, <1>3 DEF OfficerInv, O!Flowing, Flow
  <2>2. shown # "task" => application = None
    BY <2>1 DEF OneFlow, Flow
  <2>3. FlowFits(n, shown, selected, application)
    BY <1>1 DEF FlowFits
  <2>4. shown = "task" /\ selected # None /\ application # None => application = O!ArnOf(selected)
    BY <2>1 DEF OneFlow
  <2>5. OneFlow(asked \cup {n}, shown, selected, application)
    BY <2>1, <2>2, <2>3, <2>4, FirstFlow
  <2> QED BY <1>1, <2>5
<1>4. mixed' \in BOOLEAN
  BY <1>2 DEF OfficerInv, O!Flowing
<1>5. \A c \in asked' : AskIs(c) /\ (c.kind = "preview" => c \in asked)
  BY <1>1 DEF OfficerInv
<1> QED BY <1>2, <1>3, <1>4, <1>5, StayStep

\* The site is loaded again.
LEMMA ReloadStep == ASSUME OfficerInv, O!Reload PROVE OfficerInv'
<1>1. PICK n : n = O!Call("inbox", None) /\ AskIs(n) /\ n.kind = "inbox"
  BY AskCall
<1>2. /\ asked' = {n} /\ shown' = "inbox" /\ selected' = None /\ application' = None
      /\ preview' = O!Fresh /\ mixed' = FALSE /\ overtaken' = FALSE
  BY <1>1 DEF O!Reload
<1>3. OneFlow(asked', shown', selected', application')
  BY <1>1, <1>2, NoFlow DEF Flow
<1>4. PreviewOwn' /\ preview' = [doc |-> preview'.doc, blob |-> preview'.blob]
  BY <1>2 DEF PreviewOwn, O!Fresh
<1> QED BY <1>1, <1>2, <1>3, <1>4 DEF OfficerInv

LEMMA ClickActStep == ASSUME OfficerInv, O!ClickAct PROVE OfficerInv'
<1>1. PICK n : AskIs(n) /\ n.kind = "act" /\ asked' = asked \cup {n}
  BY AskCall DEF O!ClickAct
<1>2. UNCHANGED <<shown, selected, application, preview, overtaken, mixed>>
  BY DEF O!ClickAct, O!history
<1>3. ~mixed' => OneFlow(asked', shown, selected, application)
  BY <1>1, <1>2, FlowsStay DEF OfficerInv, Flow
<1>4. \A c \in asked' : AskIs(c) /\ (c.kind = "preview" => c \in asked)
  BY <1>1 DEF OfficerInv
<1>5. mixed' \in BOOLEAN
  BY <1>2 DEF OfficerInv
<1> QED BY <1>2, <1>3, <1>4, <1>5, StayStep

LEMMA PreviewStep == ASSUME OfficerInv, NEW d, O!ClickPreview(d) PROVE OfficerInv'
<1>1. PICK n : AskIs(n) /\ n.kind = "preview" /\ n.at = d /\ asked' = asked \cup {n}
  BY AskCall DEF O!ClickPreview
<1>2. /\ UNCHANGED <<shown, selected, application, mixed>> /\ preview' = [doc |-> d, blob |-> None]
      /\ overtaken' = (\E c \in asked : c.kind = "preview" /\ c.live)
  BY DEF O!ClickPreview, O!Previewing
<1>3. ~mixed' => OneFlow(asked', shown', selected', application')
  BY <1>1, <1>2, FlowsStay DEF OfficerInv, Flow
<1>4. \A c \in asked' : AskIs(c)
  BY <1>1 DEF OfficerInv
<1>5. ~overtaken' => PreviewOwn'
  BY <1>1, <1>2 DEF PreviewOwn
<1>6. preview' = [doc |-> preview'.doc, blob |-> preview'.blob]
  BY <1>2
<1>7. {mixed', overtaken'} \subseteq BOOLEAN
  BY <1>2 DEF OfficerInv
<1> QED BY <1>3, <1>4, <1>5, <1>6, <1>7 DEF OfficerInv

LEMMA ClosePreviewStep == ASSUME OfficerInv, O!ClosePreview PROVE OfficerInv'
<1>1. /\ UNCHANGED <<shown, selected, application, asked, mixed, overtaken>>
      /\ preview' = O!Fresh
  BY DEF O!ClosePreview, O!history
<1>2. PreviewOwn' /\ preview' = [doc |-> preview'.doc, blob |-> preview'.blob]
  BY <1>1 DEF PreviewOwn, O!Fresh
<1> QED BY <1>1, <1>2 DEF OfficerInv

LEMMA OtherOfficerStep == ASSUME OfficerInv, NEW t, O!OtherOfficer(t) PROVE OfficerInv'
<1>1. UNCHANGED <<shown, selected, application, preview, asked, mixed, overtaken>>
  BY DEF O!OtherOfficer, O!page, O!history
<1> QED BY <1>1 DEF OfficerInv, PreviewOwn

LEMMA ServeAskStep == ASSUME OfficerInv, NEW c \in asked, O!Serve(c) PROVE OfficerInv'
<1>0. UNCHANGED <<O!page, O!history>>
  BY Zenon DEF O!Serve
<1>1. UNCHANGED <<shown, selected, application, preview, mixed, overtaken>>
  BY <1>0 DEF O!page, O!history
<1>2. PICK e : /\ asked' = (asked \ {c}) \cup {e}
               /\ \/ \E x : e = [c EXCEPT !.answer = x]
                  \/ e = [c EXCEPT !.answer = "ok", !.listed = O!Inbox]
  BY Zenon DEF O!Serve, O!Served
<1>3. AskIs(e) /\ e.kind = c.kind /\ e.at = c.at /\ e.live = c.live
  <2>0. AskIs(c)
    BY DEF OfficerInv
  <2>1. ASSUME NEW x, e = [c EXCEPT !.answer = x]
        PROVE  AskIs(e) /\ e.kind = c.kind /\ e.at = c.at /\ e.live = c.live
    BY <2>0, <2>1 DEF AskIs
  <2>2. CASE e = [c EXCEPT !.answer = "ok", !.listed = O!Inbox]
    <3>1. PICK x : x = O!Inbox
      OBVIOUS
    <3>2. PICK f : f = [c EXCEPT !.answer = "ok"]
      OBVIOUS
    <3>3. e = [f EXCEPT !.listed = x]
      BY Zenon, <2>2, <3>1, <3>2
    <3>4. AskIs(f) /\ f.kind = c.kind /\ f.at = c.at /\ f.live = c.live
      BY <2>0, <3>2 DEF AskIs
    <3> QED BY <3>3, <3>4 DEF AskIs
  <2> QED BY Zenon, <1>2, <2>1, <2>2
<1>4. ~mixed' => OneFlow(asked', shown, selected, application)
  <2> SUFFICES ASSUME OneFlow(asked, shown, selected, application)
               PROVE  OneFlow(asked', shown, selected, application)
    BY <1>1 DEF OfficerInv
  <2>1. \A m, n \in asked' : Flow(m) /\ Flow(n) => m = n
    BY <1>2, <1>3 DEF OneFlow, Flow
  <2>2. \A m \in asked' : FlowFits(m, shown, selected, application)
    BY <1>2, <1>3 DEF OneFlow, FlowFits
  <2>3. (\A m \in asked' : m.kind # "claim") => \A m \in asked : m.kind # "claim"
    BY <1>2, <1>3
  <2> QED BY <2>1, <2>2, <2>3 DEF OneFlow
<1>5. \A m \in asked' : AskIs(m)
  BY <1>2, <1>3 DEF OfficerInv
<1>6. \A m \in asked' : m.kind = "preview" /\ m.live
        => \E d \in asked : d.kind = "preview" /\ d.live /\ d.at = m.at
  BY <1>2, <1>3
<1>7. mixed' \in BOOLEAN
  BY <1>1 DEF OfficerInv
<1> QED BY <1>1, <1>4, <1>5, <1>6, <1>7, StayStep

LEMMA AnswerOpenStep ==
  ASSUME OfficerInv, NEW c \in asked, NEW outcome, O!AnswerOpen(c, outcome) PROVE OfficerInv'
<1>1. PICK n : n = O!Call("claim", c.at) /\ AskIs(n) /\ n.kind = "claim" /\ n.at = c.at
  BY AskCall
<1>2. PICK a : a = O!Loaded(O!ArnOf(c.at), outcome)
  OBVIOUS
<1>3. /\ c.kind = "open" /\ UNCHANGED <<mixed, overtaken>>
      /\ O!Show(shown, selected, a, (asked \ {c}) \cup {n})
  BY <1>1, <1>2 DEF O!AnswerOpen, O!history
<1>4. ASSUME ~mixed PROVE OneFlow((asked \ {c}) \cup {n}, shown, selected, a)
  <2>1. OneFlow(asked, shown, selected, application)
    BY <1>4 DEF OfficerInv
  <2>2. \A d \in asked \ {c} : ~Flow(d)
    BY <1>3, <2>1 DEF OneFlow, Flow
  <2>3. shown # "task" /\ selected \in {None, c.at}
    BY <1>3, <2>1 DEF OneFlow, FlowFits
  <2>4. application = None
    BY <1>3, <2>1, <2>2, <2>3 DEF OneFlow, Flow
  <2>5. a \in {None, O!ArnOf(c.at)}
    BY <1>2, <2>4 DEF O!Loaded
  <2>6. FlowFits(n, shown, selected, a)
    BY <1>1, <2>3, <2>5 DEF FlowFits
  <2> QED BY <1>1, <2>2, <2>3, <2>6, FirstFlow
<1>5. mixed' \in BOOLEAN
  BY <1>3 DEF OfficerInv
<1>6. \A d \in (asked \ {c}) \cup {n} : AskIs(d) /\ (d \in asked \/ d.kind # "preview")
  BY <1>1 DEF OfficerInv
<1> QED BY <1>3, <1>4, <1>5, <1>6, ShowStep

LEMMA AnswerClaimStep == ASSUME OfficerInv, NEW c \in asked, O!AnswerClaim(c) PROVE OfficerInv'
<1>1. /\ c.kind = "claim" /\ UNCHANGED <<mixed, overtaken>>
      /\ O!Show("task", selected, application, asked \ {c})
  BY DEF O!AnswerClaim, O!history
<1>2. ASSUME ~mixed PROVE OneFlow(asked \ {c}, "task", selected, application)
  <2>1. OneFlow(asked, shown, selected, application)
    BY <1>2 DEF OfficerInv
  <2>2. \A d \in asked \ {c} : ~Flow(d)
    BY <1>1, <2>1 DEF OneFlow, Flow
  <2>3. selected \in {None, c.at} /\ application \in {None, O!ArnOf(c.at)}
    BY <1>1, <2>1 DEF OneFlow, FlowFits
  <2>4. selected # None /\ application # None => application = O!ArnOf(selected)
    BY <2>3
  <2> QED BY <2>2, <2>4, NoFlow
<1>3. mixed' \in BOOLEAN
  BY <1>1 DEF OfficerInv
<1>4. PICK v : v = "task"
  OBVIOUS
<1>5. /\ O!Show(v, selected, application, asked \ {c})
      /\ ~mixed' => OneFlow(asked \ {c}, v, selected, application)
  BY <1>1, <1>2, <1>4
<1> QED BY <1>1, <1>3, <1>5, ShowStep DEF OfficerInv

LEMMA AnswerFoundStep ==
  ASSUME OfficerInv, NEW c \in asked, NEW outcome, O!AnswerFound(c, outcome) PROVE OfficerInv'
<1>1. PICK v, s, a : v = "task" /\ s = O!Found(c.at) /\ a = O!Loaded(c.at, outcome)
  OBVIOUS
<1>2. /\ c.kind = "found" /\ UNCHANGED <<mixed, overtaken>>
      /\ O!Show(v, s, a, asked \ {c})
  BY <1>1 DEF O!AnswerFound, O!history
<1>3. ASSUME ~mixed PROVE OneFlow(asked \ {c}, v, s, a)
  <2>1. OneFlow(asked, shown, selected, application)
    BY <1>3 DEF OfficerInv
  <2>2. \A d \in asked \ {c} : ~Flow(d)
    BY <1>2, <2>1 DEF OneFlow, Flow
  <2>3. application = None
    BY <1>2, <2>1, <2>2 DEF OneFlow, FlowFits, Flow
  <2>4. a \in {None, c.at} /\ O!ArnOf(s) = c.at
    BY <1>1, <2>3 DEF O!Loaded, O!Found, O!ArnOf
  <2> QED BY <1>1, <2>2, <2>4, NoFlow
<1>4. mixed' \in BOOLEAN
  BY <1>2 DEF OfficerInv
<1> QED BY <1>2, <1>3, <1>4, ShowStep DEF OfficerInv

LEMMA AnswerJumpStep == ASSUME OfficerInv, NEW c \in asked, O!AnswerJump(c) PROVE OfficerInv'
<1>1. PICK v : v = "inbox"
  OBVIOUS
<1>2. /\ c.kind = "jump" /\ mixed' = (mixed \/ application # None) /\ UNCHANGED overtaken
      /\ O!Show(v, selected, application, asked \ {c})
  BY <1>1 DEF O!AnswerJump
<1>3. ASSUME ~mixed' PROVE OneFlow(asked \ {c}, v, selected, application)
  <2>1. OneFlow(asked, shown, selected, application) /\ application = None
    BY <1>2, <1>3 DEF OfficerInv
  <2>2. \A d \in asked \ {c} : ~Flow(d)
    BY <1>2, <2>1 DEF OneFlow, Flow
  <2> QED BY <1>1, <2>1, <2>2, NoFlow
<1>4. mixed' \in BOOLEAN
  BY <1>2 DEF OfficerInv
<1> QED BY <1>2, <1>3, <1>4, ShowStep DEF OfficerInv

\* The inbox or a refused action is answered.
LEMMA AnswerAside ==
  ASSUME OfficerInv, NEW c \in asked, ~Flow(c), asked' = asked \ {c},
         UNCHANGED <<shown, selected, application, preview, mixed, overtaken>>
  PROVE  OfficerInv'
<1>1. ~mixed' => OneFlow(asked', shown, selected, application)
  BY FlowsStay DEF OfficerInv
<1>2. \A d \in asked' : AskIs(d) /\ d \in asked
  BY DEF OfficerInv
<1>3. mixed' \in BOOLEAN
  BY DEF OfficerInv
<1> QED BY <1>1, <1>2, <1>3, StayStep

LEMMA AnswerActStep ==
  ASSUME OfficerInv, NEW c \in asked, NEW outcome,
         O!AnswerInbox(c, outcome) \/ O!AnswerAct(c, outcome)
  PROVE  OfficerInv'
<1>1. CASE O!AnswerInbox(c, outcome) \/ (O!AnswerAct(c, outcome) /\ outcome = "error")
  <2>1. /\ c.kind \in {"inbox", "act"} /\ asked' = asked \ {c}
        /\ UNCHANGED <<shown, selected, application, preview, mixed, overtaken>>
    BY <1>1 DEF O!AnswerInbox, O!AnswerAct, O!history
  <2> QED BY <2>1, AnswerAside DEF Flow
<1>2. CASE O!AnswerAct(c, outcome) /\ outcome = "ok"
  <2>1. PICK n : n = O!Call("inbox", None) /\ AskIs(n) /\ n.kind = "inbox"
    BY AskCall
  <2>2. PICK v, s : v = "inbox" /\ s = None
    OBVIOUS
  <2>3. /\ c.kind = "act" /\ mixed' = (mixed /\ O!Flowing) /\ UNCHANGED overtaken
        /\ O!Show(v, s, s, (asked \ {c}) \cup {n})
    BY <1>2, <2>1, <2>2 DEF O!AnswerAct
  <2>4. ASSUME ~mixed' PROVE OneFlow((asked \ {c}) \cup {n}, v, s, s)
    <3>1. ~mixed \/ ~O!Flowing
      BY <2>3, <2>4 DEF O!Flowing
    <3>2. CASE ~mixed
      <4>1. \A d, e \in asked : Flow(d) /\ Flow(e) => d = e
        BY <3>2 DEF OfficerInv, OneFlow
      <4>2. \A d, e \in (asked \ {c}) \cup {n} : Flow(d) /\ Flow(e) => d = e
        BY <2>1, <4>1 DEF Flow
      <4>3. \A d \in (asked \ {c}) \cup {n} : FlowFits(d, v, s, s)
        BY <2>2 DEF FlowFits
      <4> QED BY <2>2, <4>2, <4>3 DEF OneFlow
    <3>3. CASE ~O!Flowing
      <4>1. \A d \in (asked \ {c}) \cup {n} : ~Flow(d)
        BY <2>1, <3>3 DEF O!Flowing, Flow
      <4> QED BY <2>2, <4>1, NoFlow
    <3> QED BY <3>1, <3>2, <3>3
  <2>5. mixed' \in BOOLEAN
    BY <2>3 DEF OfficerInv, O!Flowing
  <2>6. \A d \in (asked \ {c}) \cup {n} : AskIs(d) /\ (d \in asked \/ d.kind # "preview")
    BY <2>1 DEF OfficerInv
  <2> QED BY <2>3, <2>4, <2>5, <2>6, ShowStep
<1> QED BY <1>1, <1>2 DEF O!AnswerAct

LEMMA AnswerPreviewStep ==
  ASSUME OfficerInv, NEW c \in asked, NEW outcome, O!AnswerPreview(c, outcome) PROVE OfficerInv'
<1>1. /\ c.kind = "preview" /\ asked' = asked \ {c}
      /\ UNCHANGED <<shown, selected, application, mixed, overtaken>>
      /\ preview' = (IF c.live /\ outcome = "ok" THEN [preview EXCEPT !.blob = c.at] ELSE preview)
  BY DEF O!AnswerPreview, O!history
<1>2. ~mixed' => OneFlow(asked', shown', selected', application')
  BY <1>1, FlowsStay DEF OfficerInv, Flow
<1>3. \A d \in asked' : AskIs(d) /\ d \in asked
  BY <1>1 DEF OfficerInv
<1>4. /\ preview' = [doc |-> preview'.doc, blob |-> preview'.blob] /\ preview'.doc = preview.doc
      /\ preview'.blob = preview.blob \/ (c.live /\ preview'.blob = c.at)
  <2>1. preview = [doc |-> preview.doc, blob |-> preview.blob]
    BY DEF OfficerInv
  <2>2. PICK x : x = c.at
    OBVIOUS
  <2>3. preview' = preview \/ (c.live /\ preview' = [preview EXCEPT !.blob = x])
    BY <1>1, <2>2
  <2>4. PICK y : y = [preview EXCEPT !.blob = x]
    OBVIOUS
  <2>5. y = [doc |-> y.doc, blob |-> y.blob] /\ y.doc = preview.doc /\ y.blob = x
    BY <2>1, <2>4
  <2> QED BY <2>1, <2>2, <2>3, <2>4, <2>5
<1>5. ~overtaken' => PreviewOwn'
  BY <1>1, <1>3, <1>4 DEF OfficerInv, PreviewOwn
<1>6. {mixed', overtaken'} \subseteq BOOLEAN
  BY <1>1 DEF OfficerInv
<1> QED BY <1>2, <1>3, <1>4, <1>5, <1>6 DEF OfficerInv

LEMMA HandleAsk ==
  ASSUME OfficerInv, NEW c \in asked, NEW outcome, O!Handle(c, outcome) PROVE OfficerInv'
BY AnswerOpenStep, AnswerClaimStep, AnswerFoundStep, AnswerJumpStep, AnswerActStep,
   AnswerPreviewStep DEF O!Handle

LEMMA InitOfficer == O!Init => OfficerInv
<1> SUFFICES ASSUME O!Init PROVE OfficerInv
  OBVIOUS
<1>1. PICK n : /\ n = [kind |-> "inbox", at |-> None, live |-> FALSE, listed |-> {},
                       answer |-> None]
               /\ AskIs(n) /\ n.kind = "inbox" /\ asked = {n}
  BY DEF O!Init, AskIs
<1>2. /\ shown = "inbox" /\ selected = None /\ application = None
      /\ preview = O!Fresh /\ mixed = FALSE /\ overtaken = FALSE
  BY DEF O!Init
<1>3. OneFlow(asked, shown, selected, application)
  BY <1>1, <1>2, NoFlow DEF Flow
<1>4. PreviewOwn /\ preview = [doc |-> preview.doc, blob |-> preview.blob]
  BY <1>2 DEF PreviewOwn, O!Fresh
<1> QED BY <1>1, <1>2, <1>3, <1>4 DEF OfficerInv

LEMMA OfficerParts == OfficerInv => O!ShowsWhatItNames
BY DEF OfficerInv, OneFlow, PreviewOwn, O!ShowsWhatItNames, O!Mounted

(***************************************************************************)
(* The citizen's browser, step by step.                                    *)
(***************************************************************************)
\* Rows only get newer versions with every change, and what was fetched stays so.
Onward ==
  /\ DOMAIN rows \subseteq DOMAIN rows' /\ fetched \subseteq fetched'
  /\ \A i \in DOMAIN rows :
       /\ rows[i].version \in Nat /\ rows'[i].version \in Nat
       /\ rows[i].version <= rows'[i].version
       /\ rows[i].version = rows'[i].version => rows[i].data = rows'[i].data

LEMMA HeldOnward ==
  ASSUME Onward, NEW v, NEW i, Held(v, i) PROVE Held(v, i)'
<1>1. /\ i \in DOMAIN rows' /\ v \in Nat /\ v <= rows[i].version
      /\ rows[i].version \in Nat /\ rows'[i].version \in Nat
      /\ rows[i].version <= rows'[i].version
      /\ rows[i].version = rows'[i].version => rows[i].data = rows'[i].data
      /\ v = rows[i].version => rows[i].data \cap Other \subseteq fetched
      /\ fetched \subseteq fetched'
  BY DEF Onward, Held
<1>2. v <= rows'[i].version
  BY <1>1
<1>3. v = rows'[i].version => rows[i].version = rows'[i].version
  BY <1>1
<1>4. v = rows'[i].version => rows'[i].data \cap Other \subseteq fetched'
  BY <1>1, <1>3
<1> QED BY <1>1, <1>2, <1>4 DEF Held

LEMMA KeptOnward ==
  ASSUME Onward, NEW r, NEW i, Kept(r, i) PROVE Kept(r, i)'
<1>1. /\ i \in DOMAIN rows' /\ r \in Row /\ r.version \in Nat /\ r.version <= rows[i].version
      /\ rows[i].version \in Nat /\ rows'[i].version \in Nat
      /\ rows[i].version <= rows'[i].version
      /\ rows[i].version = rows'[i].version => rows[i].data = rows'[i].data
      /\ r.version = rows[i].version => rows[i].data = r.data
  BY DEF Onward, Kept, Row
<1>2. r.version <= rows'[i].version
  BY <1>1
<1>3. r.version = rows'[i].version => rows[i].version = rows'[i].version
  BY <1>1
<1>4. r.version = rows'[i].version => rows'[i].data = r.data
  BY <1>1, <1>3
<1> QED BY <1>1, <1>2, <1>4 DEF Kept

LEMMA AppOnward ==
  ASSUME Onward, NEW a, AppIs(a) PROVE AppIs(a)'
BY HeldOnward DEF AppIs, Onward

LEMMA CallOnward ==
  ASSUME Onward, NEW c, CallIs(c) PROVE CallIs(c)'
<1>1. Answers(c) => Answers(c)'
  <2> SUFFICES ASSUME Answers(c) PROVE Answers(c)'
    OBVIOUS
  <2>1. PICK r, i : r = c.answer.row /\ i = c.id
    OBVIOUS
  <2>2. Kept(r, i) => Kept(r, i)'
    BY KeptOnward
  <2> QED BY <2>1, <2>2 DEF Answers
<1>2. \A d : Seen(d) => Seen(d)'
  BY DEF Seen, Onward
<1>3. c.id \in DOMAIN rows => c.id \in DOMAIN rows'
  BY DEF Onward
<1>4. CASE c.kind \in {"load", "open", "reload"} /\ ReadIs(c)
  BY <1>1, <1>3, <1>4 DEF CallIs, ReadIs
<1>5. CASE c.kind = "put" /\ PutIs(c)
  <2>1. PICK v, i : v = c.version /\ i = c.from
    OBVIOUS
  <2>2. Held(v, i)'
    BY <1>5, <2>1, HeldOnward DEF PutIs
  <2> QED BY <1>1, <1>2, <1>3, <1>5, <2>1, <2>2 DEF CallIs, PutIs
<1>6. CASE c.kind = "post" /\ PostIs(c)
  BY <1>1, <1>2, <1>3, <1>6 DEF CallIs, PostIs
<1>7. CASE c.kind = "submit" /\ SubmitIs(c)
  <2>1. PICK a : a = c.app
    OBVIOUS
  <2>2. AppIs(a)'
    BY <1>7, <2>1, AppOnward DEF SubmitIs
  <2> QED BY <1>3, <1>7, <2>1, <2>2 DEF CallIs, SubmitIs
<1> QED BY <1>4, <1>5, <1>6, <1>7 DEF CallIs

\* Where no application is being made anew, there is still room.
LEMMA RoomStays ==
  ASSUME RowsFit, rows \in Seq(Row), Len(rows') = Len(rows),
         \A c \in calls' : c.kind = "post" /\ c.answer = None => c \in calls
  PROVE  RowsFit'
<1>1. Made' \subseteq Made /\ IsFiniteSet(Made) /\ Len(rows) + Cardinality(Made) <= MaxRows
  BY DEF Made, RowsFit
<1>2. IsFiniteSet(Made') /\ Cardinality(Made') <= Cardinality(Made)
  BY <1>1, FS_Subset
<1>3. Cardinality(Made') \in Nat /\ Cardinality(Made) \in Nat /\ Len(rows) \in Nat
  BY <1>1, <1>2, FS_CardinalityType
<1>4. Len(rows) + Cardinality(Made') <= MaxRows
  BY <1>1, <1>2, <1>3, PagesAssumption
<1> QED BY <1>2, <1>4 DEF RowsFit

\* The applications have room in the cache.
LEMMA RowsInId == CitizenInv => DOMAIN rows \subseteq Id /\ \A i \in DOMAIN rows : rows[i] \in Row
<1> SUFFICES ASSUME CitizenInv
             PROVE  DOMAIN rows \subseteq Id /\ \A i \in DOMAIN rows : rows[i] \in Row
  OBVIOUS
<1>1. Len(rows) \in Nat /\ DOMAIN rows = 1 .. Len(rows) /\ \A i \in DOMAIN rows : rows[i] \in Row
  BY DEF CitizenInv
<1>2. Cardinality(Made) \in Nat /\ Len(rows) + Cardinality(Made) <= MaxRows
  BY FS_CardinalityType DEF CitizenInv, RowsFit
<1>3. Len(rows) <= MaxRows
  BY <1>1, <1>2, PagesAssumption
<1> QED BY <1>1, <1>3, PagesAssumption DEF Id

\* A step of the browser, with no application made anew.
LEMMA BrowserStep ==
  ASSUME CitizenInv, rows' = rows, fetched \subseteq fetched', CopiesHeld',
         \A c \in calls' : c \in calls \/ (CallIs(c) /\ c.kind # "post")
  PROVE  CitizenInv'
<1>1. Onward
  BY RowsInId DEF Onward, Row
<1>2. \A c \in calls' : CallIs(c)'
  BY <1>1, CallOnward DEF CitizenInv
<1>3. RowsFit'
  BY RoomStays DEF CitizenInv
<1> QED BY <1>2, <1>3 DEF CitizenInv

\* ... that fetches nothing.
LEMMA OwnStep ==
  ASSUME CitizenInv, UNCHANGED <<rows, fetched, cache>>, Seen(form'),
         app' # None => AppIs(app'), conflict' # None => conflict' \in DOMAIN rows,
         \A c \in calls' : c \in calls \/ (CallIs(c) /\ c.kind # "post")
  PROVE  CitizenInv'
<1>1. CopiesHeld'
  BY DEF CitizenInv, CopiesHeld, Seen, AppIs, Held
<1> QED BY <1>1, BrowserStep

LEMMA LoadCall ==
  ASSUME NEW i \in DOMAIN rows PROVE CallIs(Load(i)) /\ Load(i).kind = "load"
BY DEF Load, CallIs, ReadIs

\* What is typed, left, kept or disconnected.
LEMMA WalkOwn ==
  ASSUME CitizenInv,
         \/ StartApplication \/ Leave \/ KeepForm \/ GoOffline \/ \E e \in Edit : Type(e)
  PROVE  CitizenInv'
<1>1. /\ UNCHANGED <<rows, fetched, cache, calls>> /\ app' \in {app, None}
      /\ conflict' \in {conflict, None} /\ (form' = form \/ \E e \in Edit : form' = form \cup {e})
  BY DEF StartApplication, Leave, KeepForm, GoOffline, Type
<1>2. Seen(form')
  BY <1>1, ClientAssumption DEF CitizenInv, CopiesHeld, Seen, Data
<1>3. app' # None => AppIs(app')
  BY <1>1 DEF CitizenInv, CopiesHeld
<1>4. conflict' # None => conflict' \in DOMAIN rows
  BY <1>1 DEF CitizenInv, CopiesHeld
<1> QED BY <1>1, <1>2, <1>3, <1>4, OwnStep

\* The application shown, under another version that is held.
LEMMA VersionTaken ==
  ASSUME NEW a, NEW v, NEW i, AppIs(a), Held(v, i),
         NEW b, b = [a EXCEPT !.version = v], NEW d, d = [b EXCEPT !.from = i]
  PROVE  AppIs(d)
<1>1. a = [id |-> a.id, version |-> a.version, draft |-> a.draft, from |-> a.from]
  BY DEF AppIs
<1>2. /\ b = [id |-> b.id, version |-> b.version, draft |-> b.draft, from |-> b.from]
      /\ b.id = a.id /\ b.version = v
  BY <1>1
<1>3. /\ d = [id |-> d.id, version |-> d.version, draft |-> d.draft, from |-> d.from]
      /\ d.id = a.id /\ d.version = v /\ d.from = i
  BY <1>2
<1> QED BY <1>3 DEF AppIs

LEMMA ReloadOfflineStep == ASSUME CitizenInv, ReloadOffline PROVE CitizenInv'
<1>1. /\ UNCHANGED <<rows, fetched, cache, calls, form>> /\ conflict' = None /\ conflict # None
  BY Zenon DEF ReloadOffline
<1>2. PICK v, i : v = cache[conflict].version /\ i = conflict
  OBVIOUS
<1>3. \/ app' = app
      \/ app # None /\ cache[conflict] # None /\ app' = [app EXCEPT !.version = v, !.from = i]
  BY Zenon, <1>2 DEF ReloadOffline
<1>4. app # None /\ cache[conflict] # None => AppIs(app) /\ Held(v, i)
  BY <1>1, <1>2, RowsInId DEF CitizenInv, CopiesHeld
<1>5. app' # None => AppIs(app')
  <2>1. CASE app' = app
    BY <2>1 DEF CitizenInv, CopiesHeld
  <2>2. CASE app # None /\ cache[conflict] # None /\ app' = [app EXCEPT !.version = v, !.from = i]
    <3>1. PICK a : a = app
      OBVIOUS
    <3>2. PICK b : b = [a EXCEPT !.version = v]
      OBVIOUS
    <3>3. PICK d : d = [b EXCEPT !.from = i]
      OBVIOUS
    <3>4. AppIs(a) /\ Held(v, i)
      BY <1>4, <2>2, <3>1
    <3>5. AppIs(d)
      BY <3>2, <3>3, <3>4, VersionTaken
    <3>6. app' = d
      BY Zenon, <2>2, <3>1, <3>2, <3>3
    <3> QED BY Zenon, <3>5, <3>6
  <2> QED BY Zenon, <1>3, <2>1, <2>2
<1>6. Seen(form')
  BY <1>1 DEF CitizenInv, CopiesHeld
<1> QED BY <1>1, <1>5, <1>6, OwnStep

\* The application of a row that is held.
LEMMA CurrentIs ==
  ASSUME NEW i \in DOMAIN rows, NEW row, Held(row.version, i)
  PROVE  AppIs(Current(i, row)) /\ Current(i, row).id = i
BY DEF AppIs, Current

\* An application is shown as it was fetched before.
LEMMA ShowCachedStep ==
  ASSUME CitizenInv, NEW i \in DOMAIN rows, ShowCached(i),
         \A c \in calls' : c \in calls
  PROVE  CitizenInv'
<1>1. /\ UNCHANGED <<rows, fetched, cache, form, conflict>> /\ cache[i] # None
      /\ app' = Current(i, cache[i])
  BY DEF ShowCached
<1>2. PICK row : row = cache[i]
  OBVIOUS
<1>3. Held(row.version, i)
  BY <1>1, <1>2, RowsInId DEF CitizenInv, CopiesHeld
<1>4. AppIs(app')
  BY <1>1, <1>2, <1>3, CurrentIs
<1>5. Seen(form') /\ (conflict' # None => conflict' \in DOMAIN rows)
  BY <1>1 DEF CitizenInv, CopiesHeld
<1> QED BY <1>1, <1>4, <1>5, OwnStep

\* The site is opened again, or the browser comes back online.
LEMMA BackStep == ASSUME CitizenInv, Revisit \/ GoOnline PROVE CitizenInv'
<1>1. /\ UNCHANGED <<rows, fetched, cache, form, app>> /\ conflict' \in {conflict, None}
      /\ \A c \in calls' : c \in calls \/ (app # None /\ c = Load(app.id))
  BY DEF Revisit, GoOnline
<1>2. app # None => CallIs(Load(app.id)) /\ Load(app.id).kind = "load"
  <2> SUFFICES ASSUME app # None PROVE CallIs(Load(app.id)) /\ Load(app.id).kind = "load"
    OBVIOUS
  <2>1. PICK i : i = app.id
    OBVIOUS
  <2>2. i \in DOMAIN rows
    BY <2>1 DEF CitizenInv, CopiesHeld, AppIs
  <2> QED BY <2>1, <2>2, LoadCall
<1>3. \A c \in calls' : c \in calls \/ (CallIs(c) /\ c.kind # "post")
  BY <1>1, <1>2
<1>4. Seen(form') /\ (app' # None => AppIs(app')) /\ (conflict' # None => conflict' \in DOMAIN rows)
  BY <1>1 DEF CitizenInv, CopiesHeld
<1> QED BY <1>1, <1>3, <1>4, OwnStep

LEMMA LoseCallStep == ASSUME CitizenInv, NEW c \in calls, Lose(c) PROVE CitizenInv'
<1>1. \A d \in calls' : d \in calls
  BY DEF Lose
<1>2. CASE c.kind = "open" /\ ShowCached(c.id)
  <2>1. PICK i : i = c.id
    OBVIOUS
  <2>2. i \in DOMAIN rows /\ ShowCached(i)
    BY <1>2, <2>1 DEF CitizenInv, CallIs, ReadIs
  <2> QED BY <1>1, <2>2, ShowCachedStep
<1>3. CASE UNCHANGED <<rows, app, form, cache, fetched>> /\ conflict' \in {conflict, None}
  <2>1. /\ Seen(form')
        /\ app' # None => AppIs(app')
        /\ conflict' # None => conflict' \in DOMAIN rows
    BY <1>3 DEF CitizenInv, CopiesHeld
  <2> QED BY <1>1, <1>3, <2>1, OwnStep
<1> QED BY <1>2, <1>3 DEF Lose, page

\* A call is made; for one that makes an application there is room.
LEMMA CallStep ==
  ASSUME CitizenInv, NEW call, CallIs(call), Call(call), UNCHANGED page,
         call.kind = "post" => RoomForRow
  PROVE  CitizenInv'
<1>1. /\ calls' = calls \cup {call}
      /\ UNCHANGED <<rows, fetched, cache, form, app, conflict>>
  BY DEF Call, page
<1>2. Seen(form') /\ (app' # None => AppIs(app')) /\ (conflict' # None => conflict' \in DOMAIN rows)
  BY <1>1 DEF CitizenInv, CopiesHeld
<1>3. CASE call.kind # "post"
  BY <1>1, <1>2, <1>3, OwnStep
<1>4. CASE call.kind = "post"
  <2>1. Len(rows) + Cardinality(Made) < MaxRows /\ IsFiniteSet(Made)
    BY <1>4 DEF RoomForRow, Made, CitizenInv, RowsFit
  <2>2. Made' \subseteq Made \cup {call} /\ rows' = rows
    BY <1>1 DEF Made
  <2>3. IsFiniteSet(Made \cup {call}) /\ Cardinality(Made \cup {call}) <= Cardinality(Made) + 1
    <3>1. PICK S : S = Made
      OBVIOUS
    <3>2. /\ IsFiniteSet(S \cup {call})
          /\ Cardinality(S \cup {call})
               = (IF call \in S THEN Cardinality(S) ELSE Cardinality(S) + 1)
      BY <2>1, <3>1, FS_AddElement
    <3>3. Cardinality(S) \in Nat
      BY <2>1, <3>1, FS_CardinalityType
    <3> QED BY <3>1, <3>2, <3>3
  <2>4. IsFiniteSet(Made') /\ Cardinality(Made') <= Cardinality(Made \cup {call})
    BY <2>2, <2>3, FS_Subset
  <2>5. /\ Cardinality(Made') \in Nat /\ Cardinality(Made) \in Nat
        /\ Cardinality(Made \cup {call}) \in Nat /\ Len(rows) \in Nat
    BY <2>1, <2>3, <2>4, FS_CardinalityType DEF CitizenInv
  <2>6. PICK m : m = Cardinality(Made')
    OBVIOUS
  <2>7. Len(rows) + m <= MaxRows
    BY <2>1, <2>3, <2>4, <2>5, <2>6, PagesAssumption
  <2>8. RowsFit'
    BY <2>2, <2>4, <2>6, <2>7 DEF RowsFit
  <2>9. Onward
    BY <1>1, RowsInId DEF Onward, Row
  <2>10. \A c \in calls' : CallIs(c)'
    BY <1>1, <2>9, CallOnward DEF CitizenInv
  <2>11. CopiesHeld'
    BY <1>1 DEF CitizenInv, CopiesHeld, Seen, AppIs, Held
  <2> QED BY <1>1, <2>8, <2>10, <2>11 DEF CitizenInv
<1> QED BY <1>3, <1>4

LEMMA SaveStep == ASSUME CitizenInv, ClickSave \/ ClickCreate PROVE CitizenInv'
<1>1. /\ UNCHANGED page
      /\ \/ app # None /\ Call(Put)
         \/ \E then \in {"stay", "track"} : RoomForRow /\ Call(Post(then))
  BY DEF ClickSave, ClickCreate
<1>2. Seen(form) /\ (app # None => AppIs(app))
  BY DEF CitizenInv, CopiesHeld
<1>3. CASE app # None /\ Call(Put)
  <2>1. CallIs(Put) /\ Put.kind = "put"
    BY <1>2, <1>3 DEF Put, CallIs, PutIs, AppIs
  <2>2. PICK call : call = Put
    OBVIOUS
  <2> QED BY <1>1, <1>3, <2>1, <2>2, CallStep
<1>4. ASSUME NEW then, RoomForRow, Call(Post(then)) PROVE CitizenInv'
  <2>1. CallIs(Post(then))
    BY <1>2 DEF Post, CallIs, PostIs
  <2>2. PICK call : call = Post(then)
    OBVIOUS
  <2> QED BY <1>1, <1>4, <2>1, <2>2, CallStep
<1> QED BY <1>1, <1>3, <1>4

LEMMA ReadStep == ASSUME CitizenInv, ClickSubmit \/ ClickReload PROVE CitizenInv'
<1>1. CASE ClickSubmit
  <2>1. PICK call : call = [kind |-> "submit", id |-> app.id, app |-> app, answer |-> None]
    OBVIOUS
  <2>2. Call(call) /\ UNCHANGED page /\ app # None
    BY <1>1, <2>1 DEF ClickSubmit
  <2>3. AppIs(app)
    BY <2>2 DEF CitizenInv, CopiesHeld
  <2>4. CallIs(call) /\ call.kind = "submit"
    BY <2>1, <2>3 DEF CallIs, SubmitIs, AppIs
  <2> QED BY <2>2, <2>4, CallStep
<1>2. CASE ClickReload
  <2>1. PICK call : call = [kind |-> "reload", id |-> conflict, answer |-> None]
    OBVIOUS
  <2>2. Call(call) /\ UNCHANGED page /\ conflict \in DOMAIN rows
    BY <1>2, <2>1 DEF ClickReload, CitizenInv, CopiesHeld
  <2>3. CallIs(call) /\ call.kind = "reload"
    BY <2>1, <2>2 DEF CallIs, ReadIs
  <2> QED BY <2>2, <2>3, CallStep
<1> QED BY <1>1, <1>2

LEMMA OpenStep == ASSUME CitizenInv, NEW i \in DOMAIN rows, OpenApplication(i) PROVE CitizenInv'
<1>1. PICK call : call = [kind |-> "open", id |-> i, answer |-> None]
  OBVIOUS
<1>2. CallIs(call) /\ call.kind = "open"
  BY <1>1 DEF CallIs, ReadIs
<1>3. CASE Call(call) /\ UNCHANGED page
  BY <1>2, <1>3, CallStep
<1>4. CASE ShowCached(i) /\ UNCHANGED calls
  BY <1>4, ShowCachedStep
<1> QED BY <1>1, <1>3, <1>4 DEF OpenApplication

\* What the page has of the applications, while they get newer.
LEMMA CopiesOnward ==
  ASSUME CitizenInv, Onward, UNCHANGED page PROVE CopiesHeld'
<1>1. UNCHANGED <<cache, form, app, conflict>>
  BY DEF page
<1>2. Seen(form)'
  BY <1>1 DEF CitizenInv, CopiesHeld, Seen, Onward
<1>3. PICK a : a = app
  OBVIOUS
<1>4. app' # None => AppIs(app)'
  <2>1. a # None => AppIs(a)
    BY <1>3 DEF CitizenInv, CopiesHeld
  <2>2. a # None => AppIs(a)'
    BY <2>1, AppOnward
  <2> QED BY <1>1, <1>3, <2>2 DEF AppIs
<1>5. conflict' # None => conflict' \in DOMAIN rows'
  BY <1>1 DEF CitizenInv, CopiesHeld, Onward
<1>6. PICK k : k = cache
  OBVIOUS
<1>7. \A i \in Id : k[i] # None => Held(k[i].version, i)'
  <2> SUFFICES ASSUME NEW i \in Id, k[i] # None PROVE Held(k[i].version, i)'
    OBVIOUS
  <2>1. Held(k[i].version, i)
    BY <1>6 DEF CitizenInv, CopiesHeld
  <2> QED BY <2>1, HeldOnward
<1>8. DOMAIN cache' = Id /\ \A i \in Id : cache'[i] # None => Held(cache[i].version, i)'
  BY <1>1, <1>6, <1>7 DEF CitizenInv, CopiesHeld
<1> QED BY <1>2, <1>4, <1>5, <1>8 DEF CopiesHeld

\* A row of an application is replaced by a newer one.
LEMMA RowStep ==
  ASSUME CitizenInv, NEW k \in DOMAIN rows, NEW r \in Row, rows' = [rows EXCEPT ![k] = r],
         rows[k].version <= r.version, rows[k].version = r.version => rows[k].data = r.data,
         UNCHANGED fetched
  PROVE  /\ rows' \in Seq(Row) /\ Len(rows') = Len(rows) /\ DOMAIN rows' = DOMAIN rows
         /\ rows'[k] = r /\ Onward
<1>1. rows \in Seq(Row) /\ \A i \in DOMAIN rows : rows[i] \in Row /\ rows[i].version \in Nat
  BY RowsInId DEF CitizenInv, Row
<1>2. rows' \in Seq(Row) /\ Len(rows') = Len(rows) /\ DOMAIN rows' = DOMAIN rows
  BY <1>1
<1>3. \A i \in DOMAIN rows : rows'[i] = (IF i = k THEN r ELSE rows[i])
  BY <1>1
<1>4. r.version \in Nat
  BY DEF Row
<1>5. \A i \in DOMAIN rows :
        /\ rows[i].version \in Nat /\ rows'[i].version \in Nat
        /\ rows[i].version <= rows'[i].version
        /\ rows[i].version = rows'[i].version => rows[i].data = rows'[i].data
  BY <1>1, <1>3, <1>4
<1> QED BY <1>2, <1>3, <1>5 DEF Onward

\* A row whose version is bumped is another one.
LEMMA BumpedRow ==
  ASSUME CitizenInv, NEW k \in DOMAIN rows, NEW r, r.data \in Data, r.draft \in BOOLEAN,
         r = [data |-> r.data, version |-> r.version, draft |-> r.draft],
         r.version = rows[k].version + 1
  PROVE  r \in Row /\ rows[k].version <= r.version /\ rows[k].version # r.version
<1>1. rows[k].version \in Nat
  BY RowsInId DEF Row
<1>2. r.version \in Nat /\ rows[k].version <= r.version /\ rows[k].version # r.version
  BY <1>1
<1> QED BY <1>2 DEF Row

\* An application is submitted, here or in the other session.
LEMMA SubmitRow ==
  ASSUME CitizenInv, NEW k \in DOMAIN rows,
         rows' = [rows EXCEPT ![k].draft = FALSE, ![k].version = @ + 1]
  PROVE  \E r \in Row : /\ rows' = [rows EXCEPT ![k] = r] /\ rows[k].data = r.data
                        /\ rows[k].version <= r.version /\ rows[k].version # r.version
<1>1. PICK y : y = FALSE
  OBVIOUS
<1>2. PICK p : p = [rows[k] EXCEPT !.draft = y]
  OBVIOUS
<1>3. PICK q : q = [rows EXCEPT ![k] = p]
  OBVIOUS
<1>4. PICK v : v = rows[k].version + 1
  OBVIOUS
<1>5. rows' = [q EXCEPT ![k] = [q[k] EXCEPT !.version = v]]
  BY Zenon, <1>1, <1>2, <1>3, <1>4
<1>6. rows[k] = [data |-> rows[k].data, version |-> rows[k].version, draft |-> rows[k].draft]
      /\ rows[k].data \in Data
  BY RowsInId DEF Row
<1>7. /\ p = [data |-> p.data, version |-> p.version, draft |-> p.draft]
      /\ p.data = rows[k].data /\ p.draft = y
  BY <1>2, <1>6
<1>8. PICK r : r = [p EXCEPT !.version = v]
  OBVIOUS
<1>9. /\ r = [data |-> r.data, version |-> r.version, draft |-> r.draft]
      /\ r.data = p.data /\ r.draft = p.draft /\ r.version = rows[k].version + 1
  BY <1>4, <1>7, <1>8
<1>10. rows' = [rows EXCEPT ![k] = r]
  <2>1. rows \in Seq(Row)
    BY DEF CitizenInv
  <2>2. q[k] = p
    BY <1>3, <2>1
  <2>3. rows' = [q EXCEPT ![k] = r]
    BY Zenon, <1>5, <1>8, <2>2
  <2> QED BY <1>3, <2>1, <2>3
<1>11. r.data \in Data /\ r.draft \in BOOLEAN
  <2>1. y \in BOOLEAN
    BY <1>1
  <2> QED BY Zenon, <1>6, <1>7, <1>9, <2>1
<1>12. r \in Row /\ rows[k].version <= r.version /\ rows[k].version # r.version
  BY Zenon, <1>9, <1>11, BumpedRow
<1> QED BY Zenon, <1>7, <1>9, <1>10, <1>12

\* The other session adds an edit.
LEMMA OtherRow ==
  ASSUME CitizenInv, NEW k \in DOMAIN rows, NEW o \in Other,
         rows' = [rows EXCEPT ![k].data = @ \cup {o}, ![k].version = @ + 1]
  PROVE  \E r \in Row : /\ rows' = [rows EXCEPT ![k] = r] /\ rows[k].data \subseteq r.data
                        /\ rows[k].version <= r.version /\ rows[k].version # r.version
<1>1. PICK y : y = rows[k].data \cup {o}
  OBVIOUS
<1>2. PICK p : p = [rows[k] EXCEPT !.data = y]
  OBVIOUS
<1>3. PICK q : q = [rows EXCEPT ![k] = p]
  OBVIOUS
<1>4. PICK v : v = rows[k].version + 1
  OBVIOUS
<1>5. rows' = [q EXCEPT ![k] = [q[k] EXCEPT !.version = v]]
  BY Zenon, <1>1, <1>2, <1>3, <1>4
<1>6. rows[k] = [data |-> rows[k].data, version |-> rows[k].version, draft |-> rows[k].draft]
      /\ rows[k].data \in Data /\ rows[k].draft \in BOOLEAN
  BY RowsInId DEF Row
<1>7. /\ p = [data |-> p.data, version |-> p.version, draft |-> p.draft]
      /\ p.data = y /\ p.draft = rows[k].draft
  BY <1>2, <1>6
<1>8. PICK r : r = [p EXCEPT !.version = v]
  OBVIOUS
<1>9. /\ r = [data |-> r.data, version |-> r.version, draft |-> r.draft]
      /\ r.data = p.data /\ r.draft = p.draft /\ r.version = rows[k].version + 1
  BY <1>4, <1>7, <1>8
<1>10. rows' = [rows EXCEPT ![k] = r]
  <2>1. rows \in Seq(Row)
    BY DEF CitizenInv
  <2>2. q[k] = p
    BY <1>3, <2>1
  <2>3. rows' = [q EXCEPT ![k] = r]
    BY Zenon, <1>5, <1>8, <2>2
  <2> QED BY <1>3, <2>1, <2>3
<1>11. r.data = rows[k].data \cup {o} /\ r.data \in Data /\ r.draft \in BOOLEAN
  BY <1>1, <1>6, <1>7, <1>9 DEF Data
<1>12. r \in Row /\ rows[k].version <= r.version /\ rows[k].version # r.version
  BY Zenon, <1>9, <1>11, BumpedRow
<1>13. rows[k].data \subseteq r.data
  BY <1>11
<1> QED BY Zenon, <1>10, <1>12, <1>13

\* The rows move on; no application is made anew.
LEMMA RowsMove ==
  ASSUME CitizenInv, rows' \in Seq(Row), Len(rows') = Len(rows), Onward, UNCHANGED page,
         \A c \in calls' : c \in calls \/ (CallIs(c)' /\ c.kind # "post")
  PROVE  CitizenInv'
<1>1. \A c \in calls' : CallIs(c)'
  BY CallOnward DEF CitizenInv
<1>2. RowsFit'
  BY RoomStays DEF CitizenInv
<1>3. CopiesHeld'
  BY CopiesOnward
<1> QED BY <1>1, <1>2, <1>3 DEF CitizenInv

LEMMA OtherStep ==
  ASSUME CitizenInv, NEW k \in DOMAIN rows, OtherSubmit(k) \/ \E o \in Other : OtherSave(k, o)
  PROVE  CitizenInv'
<1>1. UNCHANGED <<page, calls, fetched>>
  BY Zenon DEF OtherSubmit, OtherSave
<1>2. PICK r \in Row : /\ rows' = [rows EXCEPT ![k] = r] /\ rows[k].version <= r.version
                       /\ rows[k].version # r.version
  BY Zenon, SubmitRow, OtherRow DEF OtherSubmit, OtherSave
<1>3. rows' \in Seq(Row) /\ Len(rows') = Len(rows) /\ Onward
  BY <1>1, <1>2, RowStep
<1> QED BY <1>1, <1>3, RowsMove

LEMMA ServeReadStep == ASSUME CitizenInv, NEW c \in calls, ServeRead(c) PROVE CitizenInv'
<1>1. /\ c.kind \in {"load", "open", "reload"} /\ UNCHANGED <<rows, page, fetched>>
      /\ calls' = Answered(c, "ok", c.id, rows[c.id])
  BY DEF ServeRead
<1>2. c = [kind |-> c.kind, id |-> c.id, answer |-> c.answer] /\ c.id \in DOMAIN rows
  BY <1>1 DEF CitizenInv, CallIs, ReadIs
<1>3. PICK outcome, i, row : outcome = "ok" /\ i = c.id /\ row = rows[i]
  OBVIOUS
<1>4. PICK b, e, answer :
        /\ answer = [outcome |-> outcome, row |-> row]
        /\ b = [c EXCEPT !.id = i] /\ e = [b EXCEPT !.answer = answer]
        /\ calls' = (calls \ {c}) \cup {e}
  <2>1. PICK answer : answer = [outcome |-> outcome, row |-> row]
    OBVIOUS
  <2>2. PICK b : b = [c EXCEPT !.id = i]
    OBVIOUS
  <2>3. PICK e : e = [b EXCEPT !.answer = answer]
    OBVIOUS
  <2>4. calls' = (calls \ {c}) \cup {e}
    BY Zenon, <1>1, <1>3, <2>1, <2>2, <2>3 DEF Answered
  <2> QED BY Zenon, <2>1, <2>2, <2>3, <2>4
<1>5. /\ e = [kind |-> e.kind, id |-> e.id, answer |-> e.answer]
      /\ e.kind = c.kind /\ e.id = i /\ e.answer = answer
  BY <1>2, <1>4
<1>6. row \in Row /\ i \in DOMAIN rows
  BY <1>2, <1>3, RowsInId
<1>7. /\ answer \in [outcome : {"ok", "conflict", "error"}, row : Row]
      /\ answer.outcome = "ok" /\ answer.row = row
  BY <1>3, <1>4, <1>6
<1>8. Kept(row, i)
  BY <1>3, <1>6 DEF Kept, Row
<1>9. CallIs(e)
  BY <1>1, <1>5, <1>6, <1>7, <1>8 DEF CallIs, ReadIs, Answers
<1>10. e.kind # "post"
  BY <1>1, <1>5
<1>11. CopiesHeld'
  BY <1>1 DEF page, CitizenInv, CopiesHeld, Seen, AppIs, Held
<1> QED BY <1>1, <1>4, <1>9, <1>10, <1>11, BrowserStep

LEMMA ServePutStep == ASSUME CitizenInv, NEW c \in calls, ServePut(c) PROVE CitizenInv'
<1>1. PICK row, outcome, saved :
        /\ row = rows[c.id] /\ outcome = SaveOutcome(c, row)
        /\ saved = (IF outcome = "ok" THEN [row EXCEPT !.data = c.data, !.version = @ + 1] ELSE row)
        /\ c.kind = "put" /\ rows' = [rows EXCEPT ![c.id] = saved]
        /\ calls' = Answered(c, outcome, c.id, saved)
        /\ UNCHANGED <<page, fetched>>
  BY Zenon DEF ServePut
<1>2. PICK i : i = c.id
  OBVIOUS
<1>3. PutIs(c) /\ i \in DOMAIN rows /\ row = rows[i] /\ row \in Row
  BY <1>1, <1>2, RowsInId DEF CitizenInv, CallIs, PutIs
<1>4. /\ outcome \in {"ok", "conflict", "error"} /\ saved \in Row
      /\ rows[i].version <= saved.version
      /\ rows[i].version = saved.version => rows[i].data = saved.data
      /\ outcome = "ok" => saved.data = c.data
  <2>1. CASE outcome = "ok"
    <3>1. PICK d, p : d = c.data /\ p = [row EXCEPT !.data = d]
      OBVIOUS
    <3>2. PICK v : v = row.version + 1
      OBVIOUS
    <3>3. saved = [p EXCEPT !.version = v]
      BY Zenon, <1>1, <2>1, <3>1, <3>2
    <3>4. /\ row = [data |-> row.data, version |-> row.version, draft |-> row.draft]
          /\ row.draft \in BOOLEAN
      BY <1>3 DEF Row
    <3>5. p = [data |-> d, version |-> row.version, draft |-> row.draft]
      BY <3>1, <3>4
    <3>6. /\ saved = [data |-> saved.data, version |-> saved.version, draft |-> saved.draft]
          /\ saved.data = d /\ saved.version = v /\ saved.draft = row.draft
      BY <3>3, <3>5
    <3>7. d \in Data
      BY <1>3, <3>1 DEF PutIs, Seen
    <3>8. saved \in Row /\ rows[i].version <= saved.version /\ rows[i].version # saved.version
      BY <1>3, <3>2, <3>4, <3>6, <3>7, BumpedRow
    <3> QED BY <2>1, <3>1, <3>6, <3>8
  <2>2. CASE outcome # "ok"
    <3>1. outcome \in {"conflict", "error"}
      BY <1>1, <2>2 DEF SaveOutcome
    <3> QED BY <1>1, <1>3, <2>2, <3>1 DEF Row
  <2> QED BY <2>1, <2>2
<1>5. PICK b, e, answer :
        /\ answer = [outcome |-> outcome, row |-> saved]
        /\ b = [c EXCEPT !.id = i] /\ e = [b EXCEPT !.answer = answer]
        /\ calls' = (calls \ {c}) \cup {e}
  <2>1. PICK answer : answer = [outcome |-> outcome, row |-> saved]
    OBVIOUS
  <2>2. PICK b : b = [c EXCEPT !.id = i]
    OBVIOUS
  <2>3. PICK e : e = [b EXCEPT !.answer = answer]
    OBVIOUS
  <2>4. calls' = (calls \ {c}) \cup {e}
    BY Zenon, <1>1, <1>2, <2>1, <2>2, <2>3 DEF Answered
  <2> QED BY Zenon, <2>1, <2>2, <2>3, <2>4
<1>6. /\ e = [kind |-> e.kind, id |-> e.id, data |-> e.data, version |-> e.version,
              from |-> e.from, answer |-> e.answer]
      /\ e.kind = c.kind /\ e.id = i /\ e.data = c.data /\ e.version = c.version
      /\ e.from = c.from /\ e.answer = answer
  BY <1>3, <1>5 DEF PutIs
<1>7. /\ answer \in [outcome : {"ok", "conflict", "error"}, row : Row]
      /\ answer.outcome = outcome /\ answer.row = saved
  BY <1>4, <1>5
<1>8. rows' = [rows EXCEPT ![i] = saved] /\ UNCHANGED <<page, fetched>>
  BY <1>1, <1>2
<1>9. /\ rows' \in Seq(Row) /\ Len(rows') = Len(rows) /\ DOMAIN rows' = DOMAIN rows
      /\ rows'[i] = saved /\ Onward
  BY <1>3, <1>4, <1>8, RowStep
<1>10. Kept(saved, i)'
  BY <1>3, <1>4, <1>9 DEF Kept, Row
<1>11. Answers(e)'
  BY <1>6, <1>7, <1>10 DEF Answers
<1>12. Seen(c.data)
  BY <1>3 DEF PutIs
<1>13. answer.outcome = "ok" => Seen(saved.data)'
  BY <1>4, <1>7, <1>8, <1>12 DEF Seen
<1>14. PICK v, j : v = c.version /\ j = c.from
  OBVIOUS
<1>15. Held(v, j)'
  BY <1>3, <1>9, <1>14, HeldOnward DEF PutIs
<1>16. PutIs(e)'
  <2>1. e.id \in DOMAIN rows'
    BY <1>3, <1>6, <1>9
  <2>2. Seen(e.data)'
    BY <1>6, <1>8, <1>12 DEF Seen
  <2>3. Held(e.version, e.from)'
    BY <1>6, <1>14, <1>15
  <2>4. (e.answer.outcome = "ok" => Seen(e.answer.row.data))'
    BY <1>6, <1>7, <1>13
  <2> QED BY <1>6, <1>11, <2>1, <2>2, <2>3, <2>4 DEF PutIs
<1>17. CallIs(e)' /\ e.kind # "post"
  BY <1>1, <1>6, <1>16 DEF CallIs
<1> QED BY <1>5, <1>8, <1>9, <1>17, RowsMove

LEMMA ServeSubmitStep == ASSUME CitizenInv, NEW c \in calls, ServeSubmit(c) PROVE CitizenInv'
<1>1. PICK i : i = c.id
  OBVIOUS
<1>2. /\ c.kind = "submit" /\ UNCHANGED <<page, fetched>>
      /\ \/ rows' = [rows EXCEPT ![i].draft = FALSE, ![i].version = @ + 1]
         \/ rows' = rows
      /\ \E outcome, row : calls' = Answered(c, outcome, i, row)
  BY Zenon, <1>1 DEF ServeSubmit
<1>3. SubmitIs(c) /\ i \in DOMAIN rows
  BY <1>1, <1>2 DEF CitizenInv, CallIs, SubmitIs
<1>4. PICK answer, b, e : /\ b = [c EXCEPT !.id = i] /\ e = [b EXCEPT !.answer = answer]
                          /\ calls' = (calls \ {c}) \cup {e}
  <2>1. PICK outcome, row : calls' = Answered(c, outcome, i, row)
    BY <1>2
  <2>2. PICK answer : answer = [outcome |-> outcome, row |-> row]
    OBVIOUS
  <2>3. PICK b : b = [c EXCEPT !.id = i]
    OBVIOUS
  <2>4. PICK e : e = [b EXCEPT !.answer = answer]
    OBVIOUS
  <2>5. calls' = (calls \ {c}) \cup {e}
    BY Zenon, <2>1, <2>2, <2>3, <2>4 DEF Answered
  <2> QED BY Zenon, <2>3, <2>4, <2>5
<1>5. /\ e = [kind |-> e.kind, id |-> e.id, app |-> e.app, answer |-> e.answer]
      /\ e.kind = c.kind /\ e.id = i /\ e.app = c.app
  BY <1>3, <1>4 DEF SubmitIs
<1>6. rows' \in Seq(Row) /\ Len(rows') = Len(rows) /\ DOMAIN rows' = DOMAIN rows /\ Onward
  <2>1. CASE rows' = [rows EXCEPT ![i].draft = FALSE, ![i].version = @ + 1]
    <3>1. PICK r \in Row : /\ rows' = [rows EXCEPT ![i] = r] /\ rows[i].version <= r.version
                           /\ rows[i].version # r.version
      BY Zenon, <1>3, <2>1, SubmitRow
    <3> QED BY <1>2, <1>3, <3>1, RowStep
  <2>2. CASE rows' = rows
    BY <1>2, <2>2, RowsInId DEF CitizenInv, Onward, Row
  <2> QED BY Zenon, <1>2, <2>1, <2>2
<1>7. PICK a : a = c.app
  OBVIOUS
<1>8. AppIs(a)'
  BY <1>3, <1>6, <1>7, AppOnward DEF SubmitIs
<1>9. CallIs(e)' /\ e.kind # "post"
  BY <1>2, <1>3, <1>5, <1>6, <1>7, <1>8 DEF CallIs, SubmitIs
<1> QED BY <1>2, <1>4, <1>6, <1>9, RowsMove

LEMMA ServePostStep == ASSUME CitizenInv, NEW c \in calls, ServePost(c) PROVE CitizenInv'
<1>1. PICK row : /\ row = [data |-> c.data, version |-> 1, draft |-> TRUE]
                 /\ c.kind = "post" /\ c.answer = None /\ rows' = Append(rows, row)
                 /\ calls' = Answered(c, "ok", Len(rows) + 1, row)
                 /\ UNCHANGED <<page, fetched>>
  BY Zenon DEF ServePost
<1>2. PICK i : i = Len(rows) + 1
  OBVIOUS
<1>3. PostIs(c) /\ Seen(c.data) /\ rows \in Seq(Row) /\ Len(rows) \in Nat
  BY <1>1 DEF CitizenInv, CallIs, PostIs
<1>4. /\ row \in Row /\ row.version = 1 /\ row.data = c.data
  BY <1>1, <1>3 DEF Seen, Row
<1>5. PICK outcome : outcome = "ok"
  OBVIOUS
<1>6. PICK b, e, answer :
        /\ answer = [outcome |-> outcome, row |-> row]
        /\ b = [c EXCEPT !.id = i] /\ e = [b EXCEPT !.answer = answer]
        /\ calls' = (calls \ {c}) \cup {e}
  <2>1. PICK answer : answer = [outcome |-> outcome, row |-> row]
    OBVIOUS
  <2>2. PICK b : b = [c EXCEPT !.id = i]
    OBVIOUS
  <2>3. PICK e : e = [b EXCEPT !.answer = answer]
    OBVIOUS
  <2>4. calls' = (calls \ {c}) \cup {e}
    BY Zenon, <1>1, <1>2, <1>5, <2>1, <2>2, <2>3 DEF Answered
  <2> QED BY Zenon, <2>1, <2>2, <2>3, <2>4
<1>7. /\ e = [kind |-> e.kind, data |-> e.data, then |-> e.then, dirty |-> e.dirty,
              id |-> e.id, answer |-> e.answer]
      /\ e.kind = c.kind /\ e.id = i /\ e.data = c.data /\ e.answer = answer
  BY <1>3, <1>6 DEF PostIs
<1>8. /\ answer \in [outcome : {"ok", "conflict", "error"}, row : Row]
      /\ answer.outcome = "ok" /\ answer.row = row
  BY <1>4, <1>5, <1>6
<1>9. answer # None
  BY <1>8, PagesAssumption
<1>10. /\ rows' \in Seq(Row) /\ Len(rows') = Len(rows) + 1 /\ DOMAIN rows' = 1 .. Len(rows) + 1
       /\ rows'[i] = row /\ i \in DOMAIN rows'
       /\ \A j \in DOMAIN rows : j \in DOMAIN rows' /\ rows'[j] = rows[j]
  BY <1>1, <1>2, <1>3, <1>4
<1>11. Onward
  BY <1>1, <1>10, RowsInId DEF Onward, Row
<1>12. CallIs(e)'
  <2>1. Kept(row, i)'
    BY <1>4, <1>10 DEF Kept
  <2>2. Seen(row.data)' /\ Seen(e.data)'
    BY <1>1, <1>3, <1>4, <1>7 DEF Seen
  <2>3. Answers(e)'
    BY <1>7, <1>8, <2>1 DEF Answers
  <2>4. PostIs(e)'
    BY <1>7, <1>8, <1>10, <2>2, <2>3 DEF PostIs
  <2> QED BY <1>1, <1>7, <2>4 DEF CallIs
<1>13. \A d \in calls' : CallIs(d)'
  BY <1>6, <1>11, <1>12, CallOnward DEF CitizenInv
<1>14. RowsFit'
  <2>1. c \in Made /\ IsFiniteSet(Made) /\ Len(rows) + Cardinality(Made) <= MaxRows
    BY <1>1 DEF Made, CitizenInv, RowsFit
  <2>2. Made' \subseteq Made \ {c}
    BY <1>6, <1>7, <1>9 DEF Made
  <2>3. PICK S : S = Made
    OBVIOUS
  <2>4. IsFiniteSet(S \ {c}) /\ Cardinality(S \ {c}) = Cardinality(S) - 1 /\ Cardinality(S) \in Nat
    <3>1. IsFiniteSet(S) /\ c \in S
      BY <2>1, <2>3
    <3>2. IsFiniteSet(S \ {c}) /\ Cardinality(S \ {c}) = IF c \in S THEN Cardinality(S) - 1
                                                        ELSE Cardinality(S)
      BY <3>1, FS_RemoveElement
    <3> QED BY <3>1, <3>2, FS_CardinalityType
  <2>5. /\ IsFiniteSet(Made') /\ Cardinality(Made') <= Cardinality(S \ {c})
    BY <2>2, <2>3, <2>4, FS_Subset
  <2>6. PICK m : m = Cardinality(Made') /\ m \in Nat
    BY <2>5, FS_CardinalityType
  <2>7. PICK n : n = Cardinality(S) /\ n \in Nat /\ m <= n - 1 /\ Len(rows) + n <= MaxRows
    BY <2>1, <2>3, <2>4, <2>5, <2>6
  <2>8. Len(rows) + 1 + m <= MaxRows
    BY <1>3, <2>6, <2>7, PagesAssumption
  <2> QED BY <1>10, <2>5, <2>6, <2>8 DEF RowsFit
<1>15. CopiesHeld'
  BY <1>1, <1>11, CopiesOnward
<1> QED BY <1>10, <1>13, <1>14, <1>15 DEF CitizenInv

\* What the page has, with the row of application i among it.
LEMMA CopyTaken ==
  ASSUME CitizenInv, UNCHANGED rows, fetched \subseteq fetched', NEW i, NEW row, Kept(row, i),
         row.data \cap Other \subseteq fetched',
         cache' = cache \/ cache' = [cache EXCEPT ![i] = row],
         form' = form \/ form' = row.data, app' # None => AppIs(app)',
         conflict' \in {conflict, None}
  PROVE  CopiesHeld'
<1>1. rows' = rows /\ \A j \in DOMAIN rows : rows[j].version \in Nat
  BY RowsInId DEF Row
<1>2. row \in Row /\ row.data \in Data /\ i \in DOMAIN rows
  BY DEF Kept, Row
<1>3. Held(row.version, i)'
  BY <1>1, <1>2 DEF Held, Kept, Row
<1>4. Seen(form)'
  BY <1>2 DEF CitizenInv, CopiesHeld, Seen
<1>5. conflict' # None => conflict' \in DOMAIN rows'
  BY <1>1 DEF CitizenInv, CopiesHeld
<1>6. i \in Id /\ DOMAIN cache = Id /\ \A j \in Id : cache[j] # None => Held(cache[j].version, j)
  BY <1>2, RowsInId DEF CitizenInv, CopiesHeld
<1>7. DOMAIN cache' = Id
  BY <1>6
<1>8. ASSUME NEW j \in Id, cache'[j] # None PROVE Held(cache[j].version, j)'
  <2>1. CASE cache'[j] = row /\ j = i
    BY <1>3, <2>1 DEF Held
  <2>2. CASE cache'[j] = cache[j]
    BY <1>1, <1>6, <1>8, <2>2 DEF Held
  <2> QED BY <1>6, <1>8, <2>1, <2>2
<1> QED BY <1>4, <1>5, <1>7, <1>8 DEF CopiesHeld

\* The application of an answer is shown.
LEMMA AnswerShown ==
  ASSUME CitizenInv, NEW c \in calls, Answers(c), c.answer.outcome = "ok",
         UNCHANGED rows, fetched \subseteq fetched',
         c.answer.row.data \cap Other \subseteq fetched',
         app' = Current(c.id, c.answer.row), Done(c, app'), conflict' \in {conflict, None},
         cache' = cache \/ cache' = [cache EXCEPT ![c.id] = c.answer.row],
         form' = form \/ form' = c.answer.row.data
  PROVE  CitizenInv'
<1>1. PICK i, row : i = c.id /\ row = c.answer.row
  OBVIOUS
<1>2. Kept(row, i)
  BY <1>1 DEF Answers
<1>3. i \in DOMAIN rows /\ row \in Row /\ \A j \in DOMAIN rows : rows[j].version \in Nat
  BY <1>2, RowsInId DEF Kept, Row
<1>4. app' = Current(i, row)
  BY <1>1
<1>5. Held(row.version, i)'
  BY <1>1, <1>2, <1>3 DEF Held, Kept, Row
<1>6. AppIs(app)' /\ app'.id = i
  BY <1>3, <1>4, <1>5 DEF AppIs, Current
<1>7. CopiesHeld'
  BY <1>1, <1>2, <1>6, CopyTaken
<1>8. CallIs(Load(i)) /\ Load(i).kind = "load"
  BY <1>3, LoadCall
<1>9. \A d \in calls' : d \in calls \/ d = Load(i)
  BY <1>6 DEF Done, Refresh
<1> QED BY <1>7, <1>8, <1>9, BrowserStep

LEMMA AnswerSavedStep ==
  ASSUME CitizenInv, NEW c \in calls, c.answer # None, AnswerPut(c) \/ AnswerPost(c)
  PROVE  CitizenInv'
<1>1. c.kind \in {"put", "post"} /\ UNCHANGED <<rows, form, cache, fetched>>
  BY DEF AnswerPut, AnswerPost
<1>2. /\ Answers(c)
      /\ c.answer.outcome = "ok" => Seen(c.answer.row.data)
      /\ c.kind = "post" => c.answer.outcome = "ok"
      /\ c.id \in DOMAIN rows
  BY <1>1 DEF CitizenInv, CallIs, PutIs, PostIs
<1>3. CASE c.answer.outcome = "ok" /\ app' = Current(c.id, c.answer.row) /\ Done(c, app')
           /\ conflict' = conflict
  BY <1>1, <1>2, <1>3, AnswerShown DEF Seen
<1>4. CASE calls' = calls \ {c} /\ app' = app /\ conflict' \in {conflict, c.id}
  <2>1. /\ Seen(form')
        /\ app' # None => AppIs(app')
        /\ conflict' # None => conflict' \in DOMAIN rows
    BY <1>1, <1>2, <1>4 DEF CitizenInv, CopiesHeld
  <2> QED BY <1>1, <1>4, <2>1, OwnStep
<1> QED BY <1>2, <1>3, <1>4 DEF AnswerPut, AnswerPost

LEMMA AnswerShownStep ==
  ASSUME CitizenInv, NEW c \in calls, c.answer # None, AnswerOpen(c) \/ AnswerReload(c)
  PROVE  CitizenInv'
<1>1. /\ c.kind \in {"open", "reload"} /\ UNCHANGED rows
      /\ app' = Current(c.id, c.answer.row) /\ Done(c, app') /\ conflict' \in {conflict, None}
      /\ cache' = [cache EXCEPT ![c.id] = c.answer.row] /\ fetched' = Fetched(c.answer.row)
      /\ form' = form \/ form' = c.answer.row.data
  BY DEF AnswerOpen, AnswerReload, Reloaded
<1>2. Answers(c) /\ c.answer.outcome = "ok"
  BY <1>1 DEF CitizenInv, CallIs, ReadIs
<1>3. fetched \subseteq fetched' /\ c.answer.row.data \cap Other \subseteq fetched'
  BY <1>1 DEF Fetched
<1> QED BY <1>1, <1>2, <1>3, AnswerShown

LEMMA AnswerLoadedStep ==
  ASSUME CitizenInv, NEW c \in calls, c.answer # None, AnswerLoad(c) PROVE CitizenInv'
<1>1. PICK i, row : i = c.id /\ row = c.answer.row
  OBVIOUS
<1>2. PICK v : v = row.version
  OBVIOUS
<1>3. /\ c.kind = "load" /\ UNCHANGED <<rows, form, conflict>> /\ calls' = calls \ {c}
      /\ cache' = [cache EXCEPT ![i] = row] /\ fetched' = Fetched(row)
      /\ \/ app' = None
         \/ app # None /\ app' = [app EXCEPT !.version = v, !.from = i]
  BY Zenon, <1>1, <1>2 DEF AnswerLoad
<1>4. Kept(row, i)
  BY <1>1, <1>3 DEF CitizenInv, CallIs, ReadIs, Answers
<1>5. /\ UNCHANGED rows /\ fetched \subseteq fetched' /\ row.data \cap Other \subseteq fetched'
      /\ cache' = [cache EXCEPT ![i] = row] /\ form' = form /\ conflict' = conflict
      /\ \A d \in calls' : d \in calls
  BY <1>3 DEF Fetched
<1>6. i \in DOMAIN rows /\ row \in Row /\ \A j \in DOMAIN rows : rows[j].version \in Nat
  BY <1>4, RowsInId DEF Kept, Row
<1>7. Held(v, i)'
  BY <1>2, <1>4, <1>5, <1>6 DEF Held, Kept, Row
<1>8. app' # None => AppIs(app)'
  <2> SUFFICES ASSUME app' # None PROVE AppIs(app)'
    OBVIOUS
  <2>1. PICK a : a = app
    OBVIOUS
  <2>2. PICK b : b = [a EXCEPT !.version = v]
    OBVIOUS
  <2>3. PICK d : d = [b EXCEPT !.from = i]
    OBVIOUS
  <2>4. app # None /\ app' = d
    BY Zenon, <1>3, <2>1, <2>2, <2>3
  <2>5. /\ a = [id |-> a.id, version |-> a.version, draft |-> a.draft, from |-> a.from]
        /\ a.id \in DOMAIN rows
    BY <2>1, <2>4 DEF CitizenInv, CopiesHeld, AppIs
  <2>6. /\ b = [id |-> b.id, version |-> b.version, draft |-> b.draft, from |-> b.from]
        /\ b.id = a.id /\ b.version = v
    BY <2>2, <2>5
  <2>7. /\ d = [id |-> d.id, version |-> d.version, draft |-> d.draft, from |-> d.from]
        /\ d.id = a.id /\ d.version = v /\ d.from = i
    BY <2>3, <2>6
  <2>8. d.id \in DOMAIN rows'
    BY <1>5, <2>5, <2>7
  <2>9. Held(d.version, d.from)'
    BY <1>7, <2>7
  <2> QED BY <2>4, <2>7, <2>8, <2>9 DEF AppIs
<1>9. CopiesHeld'
  BY <1>4, <1>5, <1>8, CopyTaken
<1> QED BY <1>5, <1>9, BrowserStep

LEMMA AnswerSubmittedStep ==
  ASSUME CitizenInv, NEW c \in calls, AnswerSubmit(c) PROVE CitizenInv'
<1>1. PICK y, a, i : y = FALSE /\ a = c.app /\ i = c.id
  OBVIOUS
<1>2. PICK b : b = [a EXCEPT !.draft = y]
  OBVIOUS
<1>3. /\ c.kind = "submit" /\ UNCHANGED <<rows, form, conflict, cache, fetched>>
      /\ app' \in {app, b} /\ \A d \in calls' : d \in calls \/ d = Load(i)
  <2>1. c.kind = "submit" /\ UNCHANGED <<rows, form, conflict, cache, fetched>>
    BY Zenon DEF AnswerSubmit
  <2>2. app' = b \/ app' = app
    BY Zenon, <1>1, <1>2 DEF AnswerSubmit
  <2>3. \A d \in calls' : d \in calls \/ d = Load(i)
    <3>1. \/ calls' = (calls \ {c}) \cup (IF online THEN {Load(i)} ELSE {})
          \/ calls' = calls \ {c}
      BY Zenon, <1>1 DEF AnswerSubmit
    <3> QED BY <3>1
  <2> QED BY <2>1, <2>2, <2>3
<1>4. SubmitIs(c)
  BY <1>3 DEF CitizenInv, CallIs
<1>5. AppIs(b)
  <2>1. AppIs(a) /\ a = [id |-> a.id, version |-> a.version, draft |-> a.draft, from |-> a.from]
    BY <1>1, <1>4 DEF SubmitIs, AppIs
  <2>2. /\ b = [id |-> b.id, version |-> b.version, draft |-> b.draft, from |-> b.from]
        /\ b.id = a.id /\ b.version = a.version /\ b.from = a.from
    BY <1>2, <2>1
  <2> QED BY <2>1, <2>2 DEF AppIs
<1>6. Seen(form') /\ (app' # None => AppIs(app')) /\ (conflict' # None => conflict' \in DOMAIN rows)
  BY <1>3, <1>5 DEF CitizenInv, CopiesHeld
<1>7. CallIs(Load(i)) /\ Load(i).kind = "load"
  BY <1>1, <1>4, LoadCall DEF SubmitIs
<1>8. \A d \in calls' : d \in calls \/ (CallIs(d) /\ d.kind # "post")
  BY <1>3, <1>7
<1> QED BY <1>3, <1>6, <1>8, OwnStep

LEMMA InitCitizen == Init => CitizenInv
<1> SUFFICES ASSUME Init PROVE CitizenInv
  OBVIOUS
<1>1. rows = << >> /\ app = None /\ form = {} /\ conflict = None /\ calls = {} /\ fetched = {}
      /\ cache = [i \in Id |-> None]
  BY DEF Init
<1>2. RowsFit
  <2>1. Made = {}
    BY <1>1 DEF Made
  <2> QED BY <1>1, <2>1, FS_EmptySet, PagesAssumption DEF RowsFit
<1>3. CopiesHeld
  BY <1>1 DEF CopiesHeld, Seen, Data
<1> QED BY <1>1, <1>2, <1>3 DEF CitizenInv

LEMMA NextCitizen ==
  ASSUME CitizenInv,
         \/ StartApplication \/ ClickSave \/ ClickCreate \/ ClickSubmit \/ ClickReload
         \/ ReloadOffline \/ KeepForm \/ Leave \/ Revisit \/ GoOffline \/ GoOnline
         \/ \E e \in Edit : Type(e)
         \/ \E c \in calls : Serve(c) \/ Answer(c) \/ Lose(c)
         \/ \E i \in DOMAIN rows :
              OpenApplication(i) \/ OtherSubmit(i) \/ \E o \in Other : OtherSave(i, o)
  PROVE  CitizenInv'
<1>1. CASE \/ StartApplication \/ Leave \/ KeepForm \/ GoOffline \/ \E e \in Edit : Type(e)
  BY <1>1, WalkOwn
<1>2. CASE \/ ClickSave \/ ClickCreate \/ ClickSubmit \/ ClickReload \/ ReloadOffline
           \/ Revisit \/ GoOnline
  BY <1>2, SaveStep, ReadStep, ReloadOfflineStep, BackStep
<1>3. ASSUME NEW c \in calls, Serve(c) \/ Answer(c) \/ Lose(c) PROVE CitizenInv'
  <2>1. CASE Serve(c)
    BY <2>1, ServePostStep, ServePutStep, ServeReadStep, ServeSubmitStep DEF Serve
  <2>2. CASE Answer(c)
    BY <2>2, AnswerSavedStep, AnswerShownStep, AnswerLoadedStep, AnswerSubmittedStep DEF Answer
  <2>3. CASE Lose(c)
    BY <2>3, LoseCallStep
  <2> QED BY <1>3, <2>1, <2>2, <2>3
<1>4. ASSUME NEW i \in DOMAIN rows,
             OpenApplication(i) \/ OtherSubmit(i) \/ \E o \in Other : OtherSave(i, o)
      PROVE  CitizenInv'
  BY <1>4, OpenStep, OtherStep
<1> QED BY <1>1, <1>2, <1>3, <1>4

\* What a step of the citizen's browser may take out of an application.
Allowed ==
  \A i \in DOMAIN rows :
    Overwritten(i) \subseteq fetched
      \/ \E c \in calls \ calls' : c.kind = "put" /\ c.id = i /\ c.from # i

LEMMA NothingTaken ==
  ASSUME \A i \in DOMAIN rows : rows[i].data \subseteq rows'[i].data PROVE Allowed
BY DEF Allowed, Overwritten

LEMMA PutTakes == ASSUME CitizenInv, NEW c \in calls, ServePut(c) PROVE Allowed
<1>1. PICK row, outcome, saved :
        /\ row = rows[c.id] /\ outcome = SaveOutcome(c, row)
        /\ saved = (IF outcome = "ok" THEN [row EXCEPT !.data = c.data, !.version = @ + 1] ELSE row)
        /\ c.kind = "put" /\ c.answer = None /\ rows' = [rows EXCEPT ![c.id] = saved]
        /\ calls' = Answered(c, outcome, c.id, saved)
  BY Zenon DEF ServePut
<1>2. PutIs(c) /\ rows \in Seq(Row)
  BY <1>1 DEF CitizenInv, CallIs
<1>3. \A i \in DOMAIN rows : i # c.id => rows'[i] = rows[i]
  BY <1>1, <1>2
<1>4. CASE outcome # "ok"
  <2>1. \A i \in DOMAIN rows : rows'[i] = rows[i]
    BY <1>1, <1>2, <1>4
  <2> QED BY <2>1, NothingTaken
<1>5. CASE outcome = "ok" /\ c.from = c.id
  <2>1. row.version = c.version
    BY <1>1, <1>5 DEF SaveOutcome
  <2>2. rows[c.id].data \cap Other \subseteq fetched
    BY <1>1, <1>2, <1>5, <2>1 DEF PutIs, Held
  <2>3. \A i \in DOMAIN rows : Overwritten(i) \subseteq fetched
    BY <1>3, <2>2 DEF Overwritten
  <2> QED BY <2>3 DEF Allowed
<1>6. CASE outcome = "ok" /\ c.from # c.id
  <2>1. PICK answer : answer = [outcome |-> outcome, row |-> saved]
    OBVIOUS
  <2>2. answer # None
    <3>1. SaveOutcome(c, row) \in {"ok", "conflict", "error"}
      BY DEF SaveOutcome
    <3>2. saved \in Row
      <4>1. PICK d, p, v : d = c.data /\ p = [row EXCEPT !.data = d] /\ v = row.version + 1
        OBVIOUS
      <4>2. saved = [p EXCEPT !.version = v]
        BY Zenon, <1>1, <1>6, <4>1
      <4>3. row \in Row /\ d \in Data
        BY <1>1, <1>2, <4>1, RowsInId DEF PutIs, Seen
      <4>4. /\ row = [data |-> row.data, version |-> row.version, draft |-> row.draft]
            /\ v \in Nat
        BY <4>1, <4>3 DEF Row
      <4>5. p = [data |-> d, version |-> row.version, draft |-> row.draft]
        BY <4>1, <4>4
      <4>6. saved = [data |-> d, version |-> v, draft |-> row.draft]
        BY <4>2, <4>5
      <4> QED BY <4>3, <4>4, <4>6 DEF Row
    <3>3. answer \in [outcome : {"ok", "conflict", "error"}, row : Row]
      BY <1>1, <2>1, <3>1, <3>2
    <3> QED BY <3>3, PagesAssumption
  <2>3. PICK i, b : i = c.id /\ b = [c EXCEPT !.id = i]
    OBVIOUS
  <2>4. PICK e : e = [b EXCEPT !.answer = answer]
    OBVIOUS
  <2>5. calls' = (calls \ {c}) \cup {e}
    BY Zenon, <1>1, <2>1, <2>3, <2>4 DEF Answered
  <2>6. e.answer = answer
    BY <1>2, <2>3, <2>4 DEF PutIs
  <2>7. c \in calls \ calls'
    BY <1>1, <2>2, <2>5, <2>6
  <2> QED BY <1>1, <1>3, <1>6, <2>7 DEF Allowed, Overwritten
<1> QED BY <1>4, <1>5, <1>6

LEMMA CitizenTakes ==
  ASSUME CitizenInv,
         \/ StartApplication \/ ClickSave \/ ClickCreate \/ ClickSubmit \/ ClickReload
         \/ ReloadOffline \/ KeepForm \/ Leave \/ Revisit \/ GoOffline \/ GoOnline
         \/ \E e \in Edit : Type(e)
         \/ \E c \in calls : Serve(c) \/ Answer(c) \/ Lose(c)
         \/ \E i \in DOMAIN rows :
              OpenApplication(i) \/ OtherSubmit(i) \/ \E o \in Other : OtherSave(i, o)
  PROVE  Allowed
<1>1. CASE \/ StartApplication \/ ClickSave \/ ClickCreate \/ ClickSubmit \/ ClickReload
           \/ ReloadOffline \/ KeepForm \/ Leave \/ Revisit \/ GoOffline \/ GoOnline
           \/ \E e \in Edit : Type(e)
  <2>1. UNCHANGED rows
    BY <1>1 DEF StartApplication, ClickSave, ClickCreate, ClickSubmit, ClickReload, ReloadOffline,
       KeepForm, Leave, Revisit, GoOffline, GoOnline, Type, Call
  <2> QED BY <2>1, NothingTaken
<1>2. ASSUME NEW c \in calls, Serve(c) \/ Answer(c) \/ Lose(c) PROVE Allowed
  <2>1. CASE ServePut(c)
    BY <2>1, PutTakes
  <2>2. CASE ServePost(c)
    <3>1. PICK row : rows' = Append(rows, row) /\ rows \in Seq(Row)
      BY <2>2 DEF ServePost, CitizenInv
    <3>2. \A i \in DOMAIN rows : rows'[i] = rows[i]
      BY <3>1
    <3> QED BY <3>2, NothingTaken
  <2>3. CASE ServeRead(c)
    BY <2>3, NothingTaken DEF ServeRead
  <2>4. CASE ServeSubmit(c)
    <3>1. PICK i : i = c.id
      OBVIOUS
    <3>2. \/ rows' = [rows EXCEPT ![i].draft = FALSE, ![i].version = @ + 1]
          \/ rows' = rows
      BY Zenon, <2>4, <3>1 DEF ServeSubmit
    <3>3. i \in DOMAIN rows
      BY <2>4, <3>1 DEF ServeSubmit, CitizenInv, CallIs, SubmitIs
    <3>4. CASE rows' = [rows EXCEPT ![i].draft = FALSE, ![i].version = @ + 1]
      <4>1. PICK r \in Row : rows' = [rows EXCEPT ![i] = r] /\ rows[i].data = r.data
        BY Zenon, <3>3, <3>4, SubmitRow
      <4>2. \A j \in DOMAIN rows : rows'[j].data = rows[j].data
        BY <4>1 DEF CitizenInv
      <4> QED BY <4>2, NothingTaken
    <3>5. CASE rows' = rows
      BY <3>5, NothingTaken
    <3> QED BY Zenon, <3>2, <3>4, <3>5
  <2>5. CASE Answer(c) \/ Lose(c)
    <3>1. UNCHANGED rows
      <4>1. CASE Answer(c)
        BY Zenon, <4>1 DEF Answer, AnswerPut, AnswerPost, AnswerLoad, AnswerOpen, AnswerReload,
           AnswerSubmit
      <4>2. CASE Lose(c)
        BY <4>2 DEF Lose, ShowCached
      <4> QED BY <2>5, <4>1, <4>2
    <3> QED BY <3>1, NothingTaken
  <2> QED BY <1>2, <2>1, <2>2, <2>3, <2>4, <2>5 DEF Serve
<1>3. ASSUME NEW i \in DOMAIN rows,
             OpenApplication(i) \/ OtherSubmit(i) \/ \E o \in Other : OtherSave(i, o)
      PROVE  Allowed
  <2>1. CASE OpenApplication(i)
    <3>1. UNCHANGED rows
      BY <2>1 DEF OpenApplication, Call, ShowCached
    <3> QED BY <3>1, NothingTaken
  <2>2. CASE OtherSubmit(i) \/ \E o \in Other : OtherSave(i, o)
    <3>1. PICK r \in Row : rows' = [rows EXCEPT ![i] = r] /\ rows[i].data \subseteq r.data
      BY Zenon, <2>2, SubmitRow, OtherRow DEF OtherSubmit, OtherSave
    <3>2. \A j \in DOMAIN rows : rows[j].data \subseteq rows'[j].data
      BY <3>1 DEF CitizenInv
    <3> QED BY <3>2, NothingTaken
  <2> QED BY <1>3, <2>1, <2>2
<1> QED BY <1>1, <1>2, <1>3

(***************************************************************************)
(* Side by side.                                                           *)
(***************************************************************************)
LEMMA CitizenStill == ASSUME CitizenInv, UNCHANGED vars PROVE CitizenInv'
<1>1. UNCHANGED <<rows, fetched, calls, form, app, conflict, cache>>
  BY DEF vars, page
<1> QED BY <1>1 DEF CitizenInv, RowsFit, Made, CopiesHeld, Seen, AppIs, Held, CallIs, ReadIs, PutIs,
                    PostIs, SubmitIs, Answers, Kept

LEMMA OfficerStill == ASSUME OfficerInv, UNCHANGED officerVars PROVE OfficerInv'
BY DEF officerVars, OfficerInv, PreviewOwn

LEMMA PagesStill == ASSUME PageInv, UNCHANGED pageVars PROVE PageInv'
<1>1. UNCHANGED <<filed, filter, listed, loading, sheet, text, filing, picked, opening, newStatus,
                  previewed, fetches, retried, crossed>>
  BY DEF pageVars
<1> QED BY <1>1, PageOnly DEF PageInv, NamedRight, TextOf, PhotoOf

\* Which of the three moves.
LEMMA OneMoves ==
  ASSUME MCNext
  PROVE  \/ /\ UNCHANGED <<officerVars, pageVars>>
            /\ \/ StartApplication \/ ClickSave \/ ClickCreate \/ ClickSubmit \/ ClickReload
               \/ ReloadOffline \/ KeepForm \/ Leave \/ Revisit \/ GoOffline \/ GoOnline
               \/ \E e \in Edit : Type(e)
               \/ \E c \in calls : Serve(c) \/ Answer(c) \/ Lose(c)
               \/ \E i \in DOMAIN rows :
                    OpenApplication(i) \/ OtherSubmit(i) \/ \E o \in Other : OtherSave(i, o)
         \/ UNCHANGED <<vars, pageVars>> /\ O!Next
         \/ UNCHANGED <<vars, officerVars>> /\ P!Next
BY Zenon DEF MCNext, Citizen, Officer, Complaints, O!Next

LEMMA NextOfficer == ASSUME OfficerInv, O!Next PROVE OfficerInv'
<1>1. ASSUME NEW t \in O!Task, O!ClickTask(t) \/ O!OtherOfficer(t) PROVE OfficerInv'
  BY <1>1, ClickTaskStep, OtherOfficerStep
<1>2. ASSUME NEW a \in Arn, O!ClickFound(a) PROVE OfficerInv'
  BY <1>2, ClickFoundStep
<1>3. ASSUME NEW v \in {"inbox", "search"}, O!GoTo(v) PROVE OfficerInv'
  BY <1>3, GoToStep
<1>4. CASE O!JumpToTask \/ O!Reload \/ O!ClickAct \/ O!ClosePreview
  BY <1>4, ClickFoundStep, ReloadStep, ClickActStep, ClosePreviewStep
<1>5. ASSUME NEW d \in Doc, O!ClickPreview(d) PROVE OfficerInv'
  BY <1>5, PreviewStep
<1>6. ASSUME NEW c \in asked, O!Serve(c) \/ O!Answer(c) \/ O!Lose(c) PROVE OfficerInv'
  BY <1>6, ServeAskStep, HandleAsk DEF O!Answer, O!Lose
<1> QED BY <1>1, <1>2, <1>3, <1>4, <1>5, <1>6 DEF O!Next

LEMMA InitClients == MCInit => ClientsInv
BY InitCitizen, InitOfficer, InitPage DEF MCInit, ClientsInv

LEMMA StepClients == ClientsInv /\ [MCNext]_clientVars => ClientsInv'
<1> SUFFICES ASSUME ClientsInv, [MCNext]_clientVars PROVE ClientsInv'
  OBVIOUS
<1>1. CASE MCNext
  BY <1>1, OneMoves, NextCitizen, NextOfficer, NextPage, CitizenStill, OfficerStill, PagesStill
     DEF ClientsInv
<1>2. CASE UNCHANGED clientVars
  BY <1>2, CitizenStill, OfficerStill, PagesStill DEF ClientsInv, clientVars
<1> QED BY <1>1, <1>2

LEMMA StepTakes == ClientsInv /\ [MCNext]_clientVars => [Allowed]_vars
<1> SUFFICES ASSUME ClientsInv, [MCNext]_clientVars PROVE Allowed \/ UNCHANGED vars
  OBVIOUS
<1>1. CASE MCNext
  BY <1>1, OneMoves, CitizenTakes DEF ClientsInv
<1>2. CASE UNCHANGED clientVars
  BY <1>2 DEF clientVars
<1> QED BY <1>1, <1>2

\* Nothing is filed twice unless the answer was lost: what the pages count is
\* what the property counts.
LEMMA PageParts == PageInv => P!FiledOnce /\ P!ShowsWhatItNames
<1> SUFFICES ASSUME PageInv PROVE P!FiledOnce /\ P!ShowsWhatItNames
  OBVIOUS
<1>1. \A S : P!Cardinality(S) = Cardinality(S)
  BY DEF P!Cardinality, Cardinality
<1>2. \A f : FiledWith(f) = {i \in P!Complaint : filed[i] = f}
  BY DEF FiledWith, P!Complaint
<1>3. P!FiledOnce
  BY <1>1, <1>2 DEF P!FiledOnce, PageInv, FiledInv
<1>4. P!ShowsWhatItNames
  BY DEF P!ShowsWhatItNames, PageInv, NamedRight, ListOf, TextOf, PhotoOf
<1> QED BY <1>3, <1>4

LEMMA ClientsParts == ClientsInv => FiledOnce /\ ShowsWhatItNames
BY PageParts, OfficerParts DEF ClientsInv, FiledOnce, ShowsWhatItNames

(***************************************************************************)
(* Theorems.                                                               *)
(***************************************************************************)
\* What a citizen files is one complaint, whatever he looks at while it is
\* filed, and as many more as there were filings whose answer was lost
\* (handleSubmitComplaint and the button it disables).
THEOREM ComplaintsAlwaysFiledOnce == MCSpec => []FiledOnce
BY InitClients, StepClients, ClientsParts, PTL DEF MCSpec

\* The officer's page shows the application of the task it acts on and the
\* document a preview names, and the pages of complaints show the rows of
\* their filter, the status and the photograph of the complaint shown and the
\* text of the form, unless clicks or answers overlapped.
THEOREM ClientsAlwaysShowWhatTheyName == MCSpec => []ShowsWhatItNames
BY InitClients, StepClients, ClientsParts, PTL DEF MCSpec

\* A save of the citizen's browser takes out another session's edit only if
\* this browser had fetched it, or if the version it sent was that of another
\* application (row_version, updateApplicationData).
THEOREM OnlyFetchedAlwaysOverwritten == MCSpec => OverwritesOnlyFetched
<1>1. MCSpec => [][Allowed]_vars
  BY InitClients, StepClients, StepTakes, PTL DEF MCSpec
<1> QED BY <1>1 DEF OverwritesOnlyFetched, Allowed

=============================================================================
