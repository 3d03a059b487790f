----------------------------- MODULE LockerPage -----------------------------
(***************************************************************************)
(* The citizen's document locker (DocumentLocker.tsx): the list of current *)
(* documents, a version history unfolded under one of them, a new version  *)
(* dropped, confirmed and uploaded, and a preview.  Every fetch is served  *)
(* and answered in steps of its own, in any order, or is lost.             *)
(*                                                                         *)
(* A document is a type and a version.  Search, filters and sorting choose *)
(* among the cards and are left out; so are validity dates, downloads,     *)
(* which keep nothing, and issued documents, which take no upload.         *)
(***************************************************************************)
EXTENDS Naturals, FiniteSets

CONSTANTS
  DocType,
  MaxVersions, \* bound on the versions of a type
  MaxCalls,    \* bound on the calls under way
  MaxLosses,   \* bound on lost calls
  MaxClicks,   \* bound on what the citizen starts
  None         \* absent

VARIABLES
  store,       \* server: versions stored of every type
  online,
  documents,   \* what the page lists: the current version of every type
  loading, failed,        \* loading; error
  expanded, versions, unfolding, \* expandedDocType, versions with their type, versionsLoading
  uploadingFor, pendingFile, uploading, \* pendingFile is the type it was dropped on
  preview,     \* previewDoc and the document its blob is of
  calls,       \* calls under way
  told,        \* history: versions the page was told were stored
  mixed,       \* history: what was asked again while it was under way
  losses, clicks

list == <<documents, loading, failed>>
history == <<expanded, versions, unfolding>>
upload == <<uploadingFor, pendingFile, uploading>>
vars == <<store, online, list, history, upload, preview, calls, told, mixed, losses, clicks>>

Fresh == [doc |-> None, blob |-> None]
Call(kind, at) == [kind |-> kind, at |-> at, answer |-> None]

Init ==
  /\ store = [t \in DocType |-> 1] /\ online = TRUE
  /\ documents = [t \in DocType |-> 0] /\ loading = TRUE /\ failed = FALSE
  /\ expanded = None /\ versions = None /\ unfolding = FALSE
  /\ uploadingFor = None /\ pendingFile = None /\ uploading = FALSE
  /\ preview = Fresh /\ calls = {Call("list", None)}
  /\ told = [t \in DocType |-> 0] /\ mixed = {} /\ losses = 0 /\ clicks = 0

Click == clicks < MaxClicks /\ clicks' = clicks + 1

\* Two equal calls count as one.  A call of a kind that has one under way is remembered as mixed.
Ask(kind, at) ==
  /\ Cardinality(calls) < MaxCalls /\ calls' = calls \cup {Call(kind, at)}
  /\ mixed' = IF \E c \in calls : c.kind = kind THEN mixed \cup {kind} ELSE mixed

\* The cards are there, and no preview covers them.
Usable(t) == ~loading /\ documents[t] > 0 /\ preview.doc = None

\* loadDocuments, on arrival and whenever the browser is back online.
GoOffline ==
  /\ online /\ Click /\ online' = FALSE /\ loading' = FALSE /\ failed' = TRUE
  /\ UNCHANGED <<store, documents, history, upload, preview, calls, told, mixed, losses>>

GoOnline ==
  /\ ~online /\ online' = TRUE /\ loading' = TRUE /\ failed' = FALSE
  /\ Ask("list", None)
  /\ UNCHANGED <<store, documents, history, upload, preview, told, losses, clicks>>

\* Fault: only the list hides what it is about to replace.
UnfoldAtOnce == UNCHANGED unfolding

\* setVersionsLoading(true): the rows of another type are hidden.
Unfold == unfolding' = TRUE

\* loadVersions; the same type again folds its history.
ClickHistory(t) ==
  /\ Usable(t) /\ documents[t] > 1 /\ Click
  /\ IF expanded = t
     THEN expanded' = None /\ UNCHANGED <<versions, unfolding, calls, mixed>>
     ELSE expanded' = t /\ Unfold /\ Ask("versions", t) /\ UNCHANGED versions
  /\ UNCHANGED <<store, online, list, upload, preview, told, losses>>

\* handlePreview, of a card, or of a row of its history, whose button is
\* there without a network too.
Shown == {<<t, documents[t]>> : t \in {t \in DocType : Usable(t) /\ online}} \cup
         (IF expanded = None \/ unfolding \/ versions = None \/ ~Usable(expanded) THEN {}
          ELSE {versions.of} \X (1 .. versions.upto))

ClickPreview(d) ==
  /\ d \in Shown /\ Click
  /\ preview' = [doc |-> d, blob |-> None] /\ Ask("preview", d)
  /\ UNCHANGED <<store, online, list, history, upload, told, losses>>

\* closePreview, which leaves the fetch under way.
ClosePreview ==
  /\ preview.doc # None /\ preview' = Fresh
  /\ UNCHANGED <<store, online, list, history, upload, calls, told, mixed, losses, clicks>>

\* The button of a card; a file that was dropped stays.
ClickUpload(t) ==
  /\ Usable(t) /\ online /\ ~uploading /\ Click
  /\ uploadingFor' = (IF uploadingFor = t THEN None ELSE t)
  /\ UNCHANGED <<store, online, list, history, pendingFile, uploading, preview, calls, told,
                 mixed, losses>>

Drop(t) ==
  /\ Usable(t) /\ uploadingFor = t /\ pendingFile = None /\ online /\ ~uploading
  /\ pendingFile' = t
  /\ UNCHANGED <<store, online, list, history, uploadingFor, uploading, preview, calls, told,
                 mixed, losses, clicks>>

Cancel ==
  /\ uploadingFor # None /\ Usable(uploadingFor) /\ pendingFile # None /\ ~uploading
  /\ uploadingFor' = None /\ pendingFile' = None
  /\ UNCHANGED <<store, online, list, history, uploading, preview, calls, told, mixed, losses,
                 clicks>>

\* handleUploadNewVersion
Confirm(t) ==
  /\ Usable(t) /\ uploadingFor = t /\ pendingFile # None /\ online /\ ~uploading
  /\ uploading' = TRUE /\ Ask("upload", t)
  /\ UNCHANGED <<store, online, list, history, uploadingFor, pendingFile, preview, told, losses,
                 clicks>>

(***************************************************************************)
(* The server, and what the page does with its answers; "lost" stands for  *)
(* every failure.                                                          *)
(***************************************************************************)
Answered(c) ==
  CASE c.kind = "list" -> store
    [] c.kind = "versions" -> [of |-> c.at, upto |-> store[c.at]]
    [] c.kind = "upload" -> store[c.at] + 1
    [] OTHER -> c.at

Serve(c) ==
  /\ c.answer = None
  /\ c.kind = "upload" => store[c.at] < MaxVersions
  /\ store' = IF c.kind = "upload" THEN [store EXCEPT ![c.at] = @ + 1] ELSE store
  /\ calls' = (calls \ {c}) \cup {[c EXCEPT !.answer = Answered(c)]}
  /\ UNCHANGED <<online, list, history, upload, preview, told, mixed, losses, clicks>>

\* What an upload's own loadDocuments ends with: setUploading(false).
AnswerList(c, lost) ==
  /\ c.kind = "list" /\ calls' = calls \ {c} /\ loading' = FALSE
  /\ IF lost THEN failed' = TRUE /\ UNCHANGED documents
     ELSE documents' = c.answer /\ UNCHANGED failed
  /\ uploading' = (uploading /\ c.at = None)
  /\ UNCHANGED <<history, uploadingFor, pendingFile, preview, told, mixed>>

AnswerVersions(c, lost) ==
  /\ c.kind = "versions" /\ calls' = calls \ {c} /\ unfolding' = FALSE
  /\ versions' = IF lost THEN None ELSE c.answer
  /\ UNCHANGED <<list, expanded, upload, preview, told, mixed>>

AnswerPreview(c, lost) ==
  /\ c.kind = "preview" /\ calls' = calls \ {c}
  /\ preview' = IF lost THEN preview ELSE [preview EXCEPT !.blob = c.answer]
  /\ UNCHANGED <<list, history, upload, told, mixed>>

\* The list is loaded again, and the upload ends with it.
AnswerUpload(c, lost) ==
  /\ c.kind = "upload"
  /\ IF lost
     THEN /\ calls' = calls \ {c} /\ failed' = TRUE /\ uploading' = FALSE
          /\ UNCHANGED <<documents, loading, uploadingFor, pendingFile, told, mixed>>
     ELSE /\ calls' = (calls \ {c}) \cup {Call("list", c.at)}
          /\ told' = [told EXCEPT ![c.at] = c.answer]
          /\ loading' = TRUE /\ failed' = FALSE /\ uploadingFor' = None /\ pendingFile' = None
          /\ mixed' = IF \E k \in calls : k.kind = "list" THEN mixed \cup {"list"} ELSE mixed
          /\ UNCHANGED <<documents, uploading>>
  /\ UNCHANGED <<history, preview>>

Handle(c, lost) ==
  /\ AnswerList(c, lost) \/ AnswerVersions(c, lost) \/ AnswerPreview(c, lost)
       \/ AnswerUpload(c, lost)
  /\ UNCHANGED <<store, online, clicks>>

Answer(c) == c.answer # None /\ Handle(c, FALSE) /\ UNCHANGED losses
Lose(c) == losses < MaxLosses /\ losses' = losses + 1 /\ Handle(c, TRUE)

Next ==
  \/ GoOffline \/ GoOnline \/ ClosePreview \/ Cancel
  \/ \E t \in DocType : ClickHistory(t) \/ ClickUpload(t) \/ Drop(t) \/ Confirm(t)
  \/ \E d \in DocType \X (1 .. MaxVersions) : ClickPreview(d)
  \/ \E c \in calls : Serve(c) \/ Answer(c) \/ Lose(c)

Spec == Init /\ [][Next]_vars

(***************************************************************************)
(* Properties.                                                             *)
(***************************************************************************)
TypeOK ==
  /\ store \in [DocType -> 1 .. MaxVersions] /\ documents \in [DocType -> 0 .. MaxVersions]
  /\ expanded \in DocType \cup {None} /\ uploadingFor \in DocType \cup {None}
  /\ pendingFile \in DocType \cup {None} /\ preview.doc \in (DocType \X Nat) \cup {None}
  /\ mixed \subseteq {"list", "versions", "preview", "upload"}

\* A history is of the document it unfolds under, a preview of the document
\* in its title (DocumentLocker.tsx:527, 612), and the list without an error
\* shows every upload the page was told of; unless the same was asked again
\* while it was under way, which nothing in the page orders.
ShowsWhatItNames ==
  /\ expanded # None /\ ~unfolding /\ versions # None /\ "versions" \notin mixed
       => versions.of = expanded
  /\ preview.doc # None /\ preview.blob # None /\ "preview" \notin mixed
       => preview.blob = preview.doc
  /\ ~loading /\ ~failed /\ "list" \notin mixed
       => \A t \in DocType : documents[t] >= told[t]

\* A file is uploaded as the type it was dropped on; fails when another card
\* is chosen in between (checked by hand, see the README).
UploadedAsDropped ==
  \A c \in calls : c.kind = "upload" => c.at = pendingFile
=============================================================================
