--------------------------- MODULE ComplaintPages ---------------------------
(***************************************************************************)
(* The two pages about complaints: the citizen's (ReportComplaint.tsx),    *)
(* where a complaint is dictated or typed, filed and given photographs,    *)
(* and the officer's (ComplaintManagement.tsx), where one is opened, its   *)
(* photographs are looked at and its status is changed.  Every fetch is    *)
(* served and answered in steps of its own, in any order, or is lost.      *)
(*                                                                         *)
(* A form is known by its number; its text by the number of the form it    *)
(* was written in.  Which status follows which, the cap on photographs and *)
(* their files are in Casework; field checks and search are left out.      *)
(***************************************************************************)
EXTENDS Naturals, Sequences, FiniteSets

CONSTANTS
  Filter,    \* what a list may be filtered by
  Earlier,   \* complaints filed before, in forms of number 0
  MaxFiled,  \* bound on the complaints
  MaxCalls,  \* bound on the calls under way
  MaxLosses, \* bound on lost calls
  MaxClicks, \* bound on what citizen and officer start
  None       \* absent

VARIABLES
  filed,     \* server: the form of every complaint
  filter, listed, loading, \* per page: the filter, the filter of the rows, loading
  subView, form, text, filing, selected, photographing, \* the citizen's page
  picked, opening, newStatus, acting, previewed, \* the officer's; 0 is the list
  calls,     \* calls under way
  retried,   \* history: how often each form's filing was lost
  mixed,     \* history: what was overtaken
  losses, clicks

Page == {"citizen", "officer"}
lists == <<filter, listed, loading>>
citizen == <<subView, form, text, filing, selected, photographing>>
officer == <<picked, opening, newStatus, acting, previewed>>
vars == <<filed, lists, citizen, officer, calls, retried, mixed, losses, clicks>>

Call(kind, at) == [kind |-> kind, at |-> at, answer |-> None]
Complaint == 1 .. Len(filed)

Init ==
  /\ filed = [i \in 1 .. Earlier |-> 0] /\ filter \in [Page -> Filter]
  /\ listed = [p \in Page |-> None] /\ loading = [p \in Page |-> TRUE]
  /\ subView = "list" /\ form = 1 /\ text = None /\ filing = FALSE
  /\ selected = 0 /\ photographing = FALSE
  /\ picked = 0 /\ opening = FALSE /\ newStatus = 0 /\ acting = FALSE /\ previewed = 0
  /\ calls = {Call(p, filter[p]) : p \in Page}
  /\ retried = [f \in 1 .. MaxFiled + 1 |-> 0] /\ mixed = {} /\ losses = 0 /\ clicks = 0

Click == clicks < MaxClicks /\ clicks' = clicks + 1
Pending(kind) == \E c \in calls : c.kind = kind

\* Two equal calls count as one.
Ask(kind, at) ==
  /\ Cardinality(calls) < MaxCalls /\ calls' = calls \cup {Call(kind, at)}
  /\ mixed' = IF Pending(kind) THEN mixed \cup {kind} ELSE mixed

(***************************************************************************)
(* Both pages: loadComplaints runs again when the filter changes.          *)
(***************************************************************************)
Visible(p) == IF p = "citizen" THEN subView = "list" ELSE picked = 0

SetFilter(p, f) ==
  /\ Visible(p) /\ f # filter[p] /\ Click /\ Ask(p, f)
  /\ filter' = [filter EXCEPT ![p] = f] /\ loading' = [loading EXCEPT ![p] = TRUE]
  /\ UNCHANGED <<filed, listed, citizen, officer, retried, losses>>

(***************************************************************************)
(* The citizen.                                                            *)
(***************************************************************************)
Show(v) ==
  /\ subView' = v
  /\ UNCHANGED <<filed, lists, form, text, filing, photographing, officer, retried, losses>>

ClickCard(i) ==
  /\ subView = "list" /\ ~loading["citizen"] /\ Click /\ Ask("detail", i)
  /\ UNCHANGED selected /\ Show(subView)

\* To the form, back from it, or back from a complaint.
ClickNew == subView = "list" /\ Show("create") /\ UNCHANGED <<selected, calls, mixed, clicks>>
ClickBack ==
  /\ subView # "list" /\ Show("list")
  /\ selected' = (IF subView = "detail" THEN 0 ELSE selected) /\ UNCHANGED <<calls, mixed, clicks>>

Type ==
  /\ subView = "create" /\ text' = form /\ text # form
  /\ UNCHANGED <<filed, lists, subView, form, filing, selected, photographing, officer, calls,
                 retried, mixed, losses, clicks>>

\* toggleVoiceInput ends: what was dictated is sent to parseWithAI.
Dictate ==
  /\ subView = "create" /\ Click /\ text' = form /\ Ask("parse", form)
  /\ UNCHANGED <<filed, lists, subView, form, filing, selected, photographing, officer, retried,
                 losses>>

\* Fault: the button is not disabled while the form is filed.
MayFileAgain == subView = "create" /\ text # None

\* The button of the form and handleSubmitComplaint's checks.
MayFile == subView = "create" /\ text # None /\ ~filing

ClickFile ==
  /\ MayFile /\ Click /\ filing' = TRUE /\ Ask("file", form)
  /\ UNCHANGED <<filed, lists, subView, form, text, selected, photographing, officer, retried,
                 losses>>

\* handleUploadEvidence
ClickPhotograph ==
  /\ subView = "detail" /\ ~photographing /\ Click
  /\ photographing' = TRUE /\ Ask("photo", selected)
  /\ UNCHANGED <<filed, lists, subView, form, text, filing, selected, officer, retried, losses>>

(***************************************************************************)
(* The officer.                                                            *)
(***************************************************************************)
\* setNewStatus("")
Cleared == newStatus' = 0

\* openDetail; the list is hidden until it is answered.
OpenDetail(i) ==
  /\ picked = 0 /\ ~loading["officer"] /\ ~opening /\ Click
  /\ opening' = TRUE /\ Cleared /\ Ask("open", i)
  /\ UNCHANGED <<filed, lists, citizen, picked, acting, previewed, retried, losses>>

ChooseStatus ==
  /\ picked # 0 /\ ~acting /\ newStatus' = picked
  /\ UNCHANGED <<filed, lists, citizen, picked, opening, acting, previewed, calls, retried,
                 mixed, losses, clicks>>

\* handleStatusUpdate
UpdateStatus ==
  /\ picked # 0 /\ newStatus # 0 /\ ~acting /\ Click
  /\ acting' = TRUE /\ Ask("status", picked)
  /\ UNCHANGED <<filed, lists, citizen, picked, opening, newStatus, previewed, retried, losses>>

\* handleEvidencePreview
ClickEvidence ==
  /\ picked # 0 /\ Click /\ previewed' = 0 /\ Ask("evidence", picked)
  /\ UNCHANGED <<filed, lists, citizen, picked, opening, newStatus, acting, retried, losses>>

\* backToList leaves the status chosen and a photograph under way.
BackToList ==
  /\ picked # 0 /\ picked' = 0 /\ previewed' = 0
  /\ mixed' = IF Pending("evidence") THEN mixed \cup {"evidence"} ELSE mixed
  /\ UNCHANGED <<filed, lists, citizen, opening, newStatus, acting, calls, retried, losses, clicks>>

(***************************************************************************)
(* The server, and what the pages do with its answers.                     *)
(***************************************************************************)
Serve(c) ==
  /\ c.answer = None
  /\ c.kind = "file" => Len(filed) < MaxFiled
  /\ filed' = IF c.kind = "file" THEN Append(filed, c.at) ELSE filed
  /\ calls' = (calls \ {c}) \cup
       {[c EXCEPT !.answer = IF c.kind = "file" THEN Len(filed') ELSE c.at]}
  /\ UNCHANGED <<lists, citizen, officer, retried, mixed, losses, clicks>>

AnswerList(c, lost) ==
  /\ c.kind \in Page /\ calls' = calls \ {c}
  /\ loading' = [loading EXCEPT ![c.kind] = FALSE]
  /\ listed' = IF lost THEN listed ELSE [listed EXCEPT ![c.kind] = c.answer]
  /\ mixed' = IF lost THEN mixed \cup {c.kind} ELSE mixed
  /\ UNCHANGED <<filter, citizen, officer, retried>>

\* Also what ends the upload of a photograph that waited for it.
AnswerDetail(c, lost) ==
  /\ c.kind \in {"detail", "reload"} /\ calls' = calls \ {c}
  /\ IF lost THEN UNCHANGED <<selected, subView>> ELSE selected' = c.answer /\ subView' = "detail"
  /\ photographing' = (photographing /\ c.kind = "detail")
  /\ UNCHANGED <<lists, form, text, filing, officer, retried, mixed>>

AnswerPhoto(c, lost) ==
  /\ c.kind = "photo"
  /\ IF lost THEN calls' = calls \ {c} /\ photographing' = FALSE
     ELSE calls' = (calls \ {c}) \cup {Call("reload", c.at)} /\ UNCHANGED photographing
  /\ UNCHANGED <<lists, subView, form, text, filing, selected, officer, retried, mixed>>

\* parseWithAI fills whatever form there is.
AnswerParse(c, lost) ==
  /\ c.kind = "parse" /\ calls' = calls \ {c}
  /\ text' = IF lost THEN text ELSE c.answer
  /\ UNCHANGED <<lists, subView, form, filing, selected, photographing, officer, retried, mixed>>

\* A form that was filed is emptied and its complaint shown; one that was not
\* stays, and may be filed again.
AnswerFile(c, lost) ==
  /\ c.kind = "file" /\ filing' = FALSE
  /\ IF lost
     THEN /\ calls' = calls \ {c} /\ retried' = [retried EXCEPT ![c.at] = @ + 1]
          /\ UNCHANGED <<loading, form, text, selected, subView, mixed>>
     ELSE /\ form' = form + 1 /\ text' = None /\ selected' = c.answer /\ subView' = "detail"
          /\ calls' = (calls \ {c}) \cup {Call("citizen", filter["citizen"])}
          /\ loading' = [loading EXCEPT !["citizen"] = TRUE]
          /\ mixed' = mixed \cup {k \in {"parse", "citizen"} : Pending(k)}
          /\ UNCHANGED retried
  /\ UNCHANGED <<filter, listed, photographing, officer>>

AnswerOpen(c, lost) ==
  /\ c.kind = "open" /\ calls' = calls \ {c} /\ opening' = FALSE
  /\ picked' = IF lost THEN picked ELSE c.answer
  /\ UNCHANGED <<lists, citizen, newStatus, acting, previewed, retried, mixed>>

\* The complaint the update was for is shown again where one is shown.
AnswerStatus(c, lost) ==
  /\ c.kind = "status" /\ acting' = FALSE
  /\ IF lost THEN calls' = calls \ {c} /\ UNCHANGED <<loading, picked, newStatus, mixed>>
     ELSE /\ picked' = (IF picked = 0 THEN 0 ELSE c.answer) /\ Cleared
          /\ calls' = (calls \ {c}) \cup {Call("officer", filter["officer"])}
          /\ loading' = [loading EXCEPT !["officer"] = TRUE]
          /\ mixed' = mixed \cup {k \in {"officer", "evidence"} : Pending(k)}
                            \cup (IF previewed # 0 THEN {"evidence"} ELSE {})
  /\ UNCHANGED <<filter, listed, citizen, opening, previewed, retried>>

AnswerEvidence(c, lost) ==
  /\ c.kind = "evidence" /\ calls' = calls \ {c}
  /\ previewed' = IF lost THEN previewed ELSE c.answer
  /\ UNCHANGED <<lists, citizen, picked, opening, newStatus, acting, retried, mixed>>

Handle(c, lost) ==
  /\ \/ AnswerList(c, lost) \/ AnswerDetail(c, lost) \/ AnswerPhoto(c, lost)
     \/ AnswerParse(c, lost) \/ AnswerFile(c, lost) \/ AnswerOpen(c, lost)
     \/ AnswerStatus(c, lost) \/ AnswerEvidence(c, lost)
  /\ UNCHANGED <<filed, clicks>>

Answer(c) == c.answer # None /\ Handle(c, FALSE) /\ UNCHANGED losses
Lose(c) == losses < MaxLosses /\ losses' = losses + 1 /\ Handle(c, TRUE)

Next ==
  \/ \E p \in Page, f \in Filter : SetFilter(p, f)
  \/ \E i \in Complaint : ClickCard(i) \/ OpenDetail(i)
  \/ ClickNew \/ ClickBack \/ Type \/ Dictate \/ ClickFile \/ ClickPhotograph
  \/ ChooseStatus \/ UpdateStatus \/ ClickEvidence \/ BackToList
  \/ \E c \in calls : Serve(c) \/ Answer(c) \/ Lose(c)

Spec == Init /\ [][Next]_vars

(***************************************************************************)
(* Properties.                                                             *)
(***************************************************************************)
TypeOK ==
  /\ filed \in Seq(0 .. MaxFiled + 1) /\ filter \in [Page -> Filter]
  /\ subView \in {"list", "create", "detail"} /\ text \in {None} \cup 1 .. form
  /\ selected \in 0 .. MaxFiled /\ picked \in 0 .. MaxFiled /\ newStatus \in 0 .. MaxFiled

\* What a citizen filed is one complaint (ReportComplaint.tsx:639 disables the
\* button while it is filed, whatever he looks at meanwhile), and as many more
\* as there were filings whose answer was lost.
FiledOnce ==
  \A f \in DOMAIN retried : Cardinality({i \in Complaint : filed[i] = f}) <= 1 + retried[f]

\* The status chosen is for the complaint shown (ComplaintManagement.tsx:178),
\* whichever was opened, updated or left before; the rows are those of the
\* filter, a form holds what was written in it and a photograph is of the
\* complaint it is shown under, unless the same was asked for again, or the
\* page was left for another, while it was under way; a list that could not be
\* loaded leaves its rows under an error.
ShowsWhatItNames ==
  /\ picked # 0 => newStatus \in {0, picked}
  /\ \A p \in Page : ~loading[p] /\ p \notin mixed => listed[p] \in {None, filter[p]}
  /\ "parse" \notin mixed => text \in {None, form}
  /\ picked # 0 /\ "evidence" \notin mixed => previewed \in {0, picked}
=============================================================================
