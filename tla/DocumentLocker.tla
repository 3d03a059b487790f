--------------------------- MODULE DocumentLocker ---------------------------
(***************************************************************************)
(* One citizen's document locker and the applications that use it          *)
(* (documents.ts, storage.ts, the document routes).  No operation here     *)
(* opens a transaction: an upload is a sequence of single statements and   *)
(* one file write, and several requests, of the same citizen in two tabs   *)
(* or of officers who review, run between them.                            *)
(*                                                                         *)
(* A file's content is a number, a new one for each upload; it also stands *)
(* for its checksum.                                                       *)
(***************************************************************************)
EXTENDS Naturals, Sequences, FiniteSets, FiniteSetsExt

CONSTANTS
  App,         \* applications of the citizen
  DocType,     \* document types
  Request,     \* requests that upload, attach or issue
  Officer,     \* officers that review documents
  NameOf,      \* the file name each request uploads
  UnlockedTypes, \* the document types a query unlocks
  MaxContents, \* bound on the files made
  MaxLinks,    \* bound on the rows of application_document
  None         \* no application

\* Uploads are stored under citizen/, the outputs of applications under outputs/.
ASSUME KeysAssumption ==
  /\ MaxContents \in Nat /\ MaxLinks \in Nat
  /\ \A t \in DocType, v \in 1 .. MaxContents, r \in Request : <<t, v, NameOf[r]>> \notin App

VARIABLES
  locker,  \* citizen_document, in insertion order; a row's index is its id
  blob,    \* the storage: a function from keys to contents
  link,    \* application_document, in insertion order
  stage,   \* the application's state_id, as far as the document routes look
  made,    \* how many contents there are
  req,     \* the requests under way
  desk     \* the link and the file in front of each officer

vars == <<locker, blob, link, stage, made, req, desk>>

Stage == {"DRAFT", "UNDER_REVIEW", "QUERY_PENDING"}
Content == 1 .. MaxContents
Partial == 0    \* a file that is being written
Key == (DocType \X (1 .. MaxContents) \X {NameOf[r] : r \in Request}) \cup App
DocRow == [type : DocType, version : 1 .. MaxContents, key : Key,
           checksum : Content, current : BOOLEAN]
LinkRow == [app : App, type : DocType, doc : Nat, current : BOOLEAN,
            verification : {"PENDING", "VERIFIED", "REJECTED"},
            inspected : Content \cup {Partial}]

Idle == [pc |-> "idle"]
Admission == [pc : {"admitted"}, app : App \cup {None}, type : DocType, version : {0},
              key : {None}, checksum : {Partial}]
Filing == [pc : {"opened", "stored", "unlisted"}, app : App \cup {None}, type : DocType,
           version : 1 .. MaxContents, key : Key, checksum : Content]
Attachment == [pc : {"attaching", "detached"}, app : App, type : DocType, doc : Nat]
Broken == [pc : {"failed"}, app : App \cup {None}, type : DocType]

Init ==
  /\ locker = << >> /\ link = << >> /\ blob = << >> /\ made = 0
  /\ stage = [a \in App |-> "DRAFT"]
  /\ req = [r \in Request |-> Idle]
  /\ desk = [o \in Officer |-> None]

Continue(r, q) == req' = [req EXCEPT ![r] = q]

(***************************************************************************)
(* Uploads.                                                                *)
(***************************************************************************)
\* The route admits documents for a draft, and for a query that unlocked the
\* type; the locker's own route admits them always.
Admits(a, t) ==
  a # None => \/ stage[a] = "DRAFT"
              \/ stage[a] = "QUERY_PENDING" /\ t \in UnlockedTypes

StartUpload(r, a, t) ==
  /\ req[r] = Idle /\ made < MaxContents /\ Admits(a, t)
  /\ Continue(r, [pc |-> "admitted", app |-> a, type |-> t, version |-> 0,
                  key |-> None, checksum |-> Partial])
  /\ UNCHANGED <<locker, blob, link, stage, made, desk>>

VersionsOf(t) == {locker[d].version : d \in {e \in DOMAIN locker : locker[e].type = t}}
LastVersion(t) == Max({0} \cup VersionsOf(t))

NextVersion(t) == LastVersion(t) + 1

\* Fault: the file name alone names the file.
KeyByName(r, t) == <<t, 1, NameOf[r]>>

\* citizen/<user>/<type>/v<version>/<file>.
StorageKey(r, t) == <<t, NextVersion(t), NameOf[r]>>

Put(k, content) == [x \in DOMAIN blob \cup {k} |-> IF x = k THEN content ELSE blob[x]]

\* The highest version is read and the file opened, which truncates it.
OpenFile(r) ==
  LET k == StorageKey(r, req[r].type)
  IN /\ req[r].pc = "admitted" /\ made < MaxContents
     /\ made' = made + 1
     /\ blob' = Put(k, Partial)
     /\ Continue(r, [req[r] EXCEPT !.pc = "opened", !.key = k,
          !.version = NextVersion(req[r].type), !.checksum = made + 1])
     /\ UNCHANGED <<locker, link, stage, desk>>

StoreFile(r) ==
  /\ req[r].pc = "opened"
  /\ blob' = Put(req[r].key, req[r].checksum)
  /\ Continue(r, [req[r] EXCEPT !.pc = "stored"])
  /\ UNCHANGED <<locker, link, stage, made, desk>>

\* Too large, empty or not of the declared type: the partial file is unlinked.
RejectFile(r) ==
  /\ req[r].pc = "opened"
  /\ blob' = [k \in DOMAIN blob \ {req[r].key} |-> blob[k]]
  /\ Continue(r, Idle)
  /\ UNCHANGED <<locker, link, stage, made, desk>>

\* The output of a decided application is in storage, where the application
\* names it; its row in the locker follows (issueCitizenDocument).
IssueDocument(r, a, t) ==
  /\ req[r] = Idle /\ made < MaxContents
  /\ stage[a] = "UNDER_REVIEW" /\ a \notin DOMAIN blob
  /\ made' = made + 1
  /\ blob' = Put(a, made + 1)
  /\ Continue(r, [pc |-> "stored", app |-> None, type |-> t,
       version |-> NextVersion(t), key |-> a, checksum |-> made + 1])
  /\ UNCHANGED <<locker, link, stage, desk>>

\* UPDATE citizen_document SET is_current = FALSE.
Unlisted(t) ==
  [d \in DOMAIN locker |->
     IF locker[d].type = t THEN [locker[d] EXCEPT !.current = FALSE] ELSE locker[d]]

UnlistOld(r) ==
  /\ req[r].pc = "stored"
  /\ locker' = Unlisted(req[r].type)
  /\ Continue(r, [req[r] EXCEPT !.pc = "unlisted"])
  /\ UNCHANGED <<blob, link, stage, made, desk>>

ListNew(r) ==
  LET q == req[r]
  IN /\ q.pc = "unlisted"
     /\ locker' = Append(locker, [type |-> q.type, version |-> q.version,
                     key |-> q.key, checksum |-> q.checksum, current |-> TRUE])
     /\ IF q.app = None
          THEN Continue(r, Idle)
          ELSE Continue(r, [pc |-> "attaching", app |-> q.app, type |-> q.type,
                            doc |-> Len(locker) + 1])
     /\ UNCHANGED <<blob, link, stage, made, desk>>

(***************************************************************************)
(* The junction with applications: reuseDocumentForApplication.            *)
(***************************************************************************)
Linked(a, d) == \E l \in DOMAIN link : link[l].app = a /\ link[l].doc = d

\* The citizen picks a document of the locker for a type, which need be
\* neither the document's own nor unlocked.  A document that was attached
\* before is reported as attached, and nothing changes.
StartAttach(r, a, d, t) ==
  /\ req[r] = Idle /\ stage[a] # "UNDER_REVIEW" /\ ~Linked(a, d)
  /\ Continue(r, [pc |-> "attaching", app |-> a, type |-> t, doc |-> d])
  /\ UNCHANGED <<locker, blob, link, stage, made, desk>>

\* Fault: the type is forgotten.
ReplacedAnyType(l, q) == link[l].app = q.app

Replaced(l, q) == link[l].app = q.app /\ link[l].type = q.type

DetachOld(r) ==
  /\ req[r].pc = "attaching"
  /\ link' = [l \in DOMAIN link |->
       IF Replaced(l, req[r]) THEN [link[l] EXCEPT !.current = FALSE] ELSE link[l]]
  /\ Continue(r, [req[r] EXCEPT !.pc = "detached"])
  /\ UNCHANGED <<locker, blob, stage, made, desk>>

NewLink(q) ==
  [app |-> q.app, type |-> q.type, doc |-> q.doc, current |-> TRUE,
   verification |-> "PENDING", inspected |-> Partial]

\* Fault: the verification is inherited from the row that is replaced.
VerifiedOnArrival(q) ==
  [NewLink(q) EXCEPT !.verification =
     IF \E l \in DOMAIN link : /\ link[l].app = q.app /\ link[l].type = q.type
                               /\ link[l].verification = "VERIFIED"
     THEN "VERIFIED" ELSE "PENDING"]

Fresh(q) == NewLink(q)

\* Whoever links the same document first wins: UNIQUE (arn, citizen_doc_id).
AttachNew(r) ==
  LET q == req[r]
  IN /\ q.pc = "detached" /\ Len(link) < MaxLinks
     /\ IF Linked(q.app, q.doc)
          THEN /\ Continue(r, [pc |-> "failed", app |-> q.app, type |-> q.type])
               /\ UNCHANGED link
          ELSE /\ link' = Append(link, Fresh(q))
               /\ Continue(r, Idle)
     /\ UNCHANGED <<locker, blob, stage, made, desk>>

\* A crash, or a statement that fails: nothing is undone.
Dies(r) ==
  /\ req[r].pc \notin {"idle", "failed"}
  /\ Continue(r, [pc |-> "failed", app |-> req[r].app, type |-> req[r].type])
  /\ UNCHANGED <<locker, blob, link, stage, made, desk>>

(***************************************************************************)
(* The application moves on, and officers review.                          *)
(***************************************************************************)
Submit(a) ==
  /\ stage[a] \in {"DRAFT", "QUERY_PENDING"}
  /\ stage' = [stage EXCEPT ![a] = "UNDER_REVIEW"]
  /\ UNCHANGED <<locker, blob, link, made, req, desk>>

RaiseQuery(a) ==
  /\ stage[a] = "UNDER_REVIEW"
  /\ stage' = [stage EXCEPT ![a] = "QUERY_PENDING"]
  /\ UNCHANGED <<locker, blob, link, made, req, desk>>

FileOf(d) == blob[locker[d].key]

\* The officer opens a current document of the application: one download.
OpenDocument(o, l) ==
  /\ stage[link[l].app] = "UNDER_REVIEW" /\ link[l].current
  /\ locker[link[l].doc].key \in DOMAIN blob
  /\ desk' = [desk EXCEPT ![o] = [link |-> l, file |-> FileOf(link[l].doc)]]
  /\ UNCHANGED <<locker, blob, link, stage, made, req>>

\* ... and answers later, whatever happened to the row meanwhile.
VerifyDocument(o, status) ==
  /\ desk[o] # None
  /\ link' = [link EXCEPT ![desk[o].link].verification = status,
                          ![desk[o].link].inspected = desk[o].file]
  /\ desk' = [desk EXCEPT ![o] = None]
  /\ UNCHANGED <<locker, blob, stage, made, req>>

Step(r) ==
  \/ OpenFile(r) \/ StoreFile(r) \/ RejectFile(r) \/ UnlistOld(r) \/ ListNew(r)
  \/ DetachOld(r) \/ AttachNew(r) \/ Dies(r)

Next ==
  \/ \E r \in Request, t \in DocType :
       \/ \E a \in App \cup {None} : StartUpload(r, a, t)
       \/ \E a \in App : \/ IssueDocument(r, a, t)
                          \/ \E d \in DOMAIN locker : StartAttach(r, a, d, t)
  \/ \E r \in Request : Step(r)
  \/ \E a \in App : Submit(a) \/ RaiseQuery(a)
  \/ \E o \in Officer : \/ \E l \in DOMAIN link : OpenDocument(o, l)
                        \/ \E s \in {"VERIFIED", "REJECTED"} : VerifyDocument(o, s)

Spec == Init /\ [][Next]_vars

(***************************************************************************)
(* Properties.                                                             *)
(***************************************************************************)
\* Rows, files and requests have the shape the code gives them, and every
\* link refers to a row of the locker.
TypeOK ==
  /\ locker \in Seq(DocRow) /\ link \in Seq(LinkRow)
  /\ DOMAIN blob \subseteq Key /\ \A k \in DOMAIN blob : blob[k] \in Content \cup {Partial}
  /\ stage \in [App -> Stage] /\ made \in 0 .. MaxContents
  /\ req \in [Request -> {Idle} \cup Admission \cup Filing \cup Attachment \cup Broken]
  /\ desk \in [Officer -> {None} \cup [link : Nat, file : Content \cup {Partial}]]
  /\ \A l \in DOMAIN link : link[l].doc \in DOMAIN locker

\* Whatever is uploaded, refused or breaks off beside it, a document of the
\* locker keeps the file it was listed with.
FilesMatchRows ==
  \A d \in DOMAIN locker :
    locker[d].key \in DOMAIN blob /\ FileOf(d) = locker[d].checksum

\* What an officer verified is what the application's document still is: a
\* verification never passes to a file that another upload brought.
VerifiedAsInspected ==
  \A l \in DOMAIN link :
    link[l].verification # "PENDING" => link[l].inspected = FileOf(link[l].doc)

\* A request loses an application's document only when it is in between or
\* has failed: who was answered with success left one in force.
DocumentInForce ==
  \A a \in App, t \in DocType :
    LET mine == {l \in DOMAIN link : link[l].app = a /\ link[l].type = t}
        lost == mine # {} /\ \A l \in mine : ~link[l].current
    IN lost => \E r \in Request : /\ req[r].pc \in {"detached", "failed"}
                                  /\ req[r].app = a /\ req[r].type = t
=============================================================================
