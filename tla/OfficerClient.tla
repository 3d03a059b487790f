--------------------------- MODULE OfficerClient ---------------------------
(***************************************************************************)
(* The officer's browser (officer/src/App.tsx, TaskDetail.tsx) and the     *)
(* tasks it works on: the inbox is listed, a task is opened (loaded, then  *)
(* claimed), a search result is looked at, a document is previewed, an     *)
(* action is taken, and the officer goes back, elsewhere or through the    *)
(* browser's history at any moment, while another officer works on the     *)
(* same tasks.  Every fetch is a call that is served and answered in steps *)
(* of its own, in any order, or is lost.                                   *)
(*                                                                         *)
(* The cached inbox is young enough to be shown.  Nothing starts while the *)
(* browser is offline, so offline is left out; so are forms, filters, the  *)
(* views without applications (one "search" stands for them) and MFA.      *)
(***************************************************************************)
EXTENDS Naturals, FiniteSets

CONSTANTS
  Arn,       \* applications
  Stages,    \* task stages of an application
  Doc,       \* documents of an application
  Me, Other, \* two officers of the same posting
  MaxCalls,  \* bound on the calls under way
  MaxFaults, \* bound on lost calls
  MaxClicks, \* bound on what the officer starts
  None       \* absent

VARIABLES
  task,        \* server: status and assignee_user_id of every task
  view,        \* inbox, search or task
  selected,    \* selectedTask; a search result is selected as number 0
  application, \* whose data the page has
  fromSearch,
  list, cache, \* tasks of the inbox, and their copy in localStorage
  preview,     \* previewDoc and the document its blob is of
  acting,      \* actionLoading
  visited,     \* the browser's history holds a task
  calls,       \* calls under way
  mixed,       \* history: a flow overlapped another, or history jumped
  overtaken,   \* history: a preview was opened before another was answered
  faults, clicks

page == <<view, selected, application, fromSearch, list, cache, preview, acting, visited>>
history == <<mixed, overtaken>>
vars == <<task, page, calls, history, faults, clicks>>

Task == Arn \X (1 .. Stages)
ArnOf(t) == t[1]
Found(a) == <<a, 0>>
Fresh == [doc |-> None, blob |-> None]

Init ==
  /\ task = [t \in Task |-> [status |-> IF t[2] = 1 THEN "PENDING" ELSE "NONE", holder |-> None]]
  /\ view = "inbox" /\ selected = None /\ application = None /\ fromSearch = FALSE
  /\ list = {} /\ cache = None /\ preview = Fresh /\ acting = FALSE /\ visited = FALSE
  /\ calls = {[kind |-> "inbox", at |-> None, live |-> FALSE, listed |-> {}, answer |-> None]}
  /\ mixed = FALSE /\ overtaken = FALSE
  /\ faults = 0 /\ clicks = 0

\* Two equal calls count as one.
Call(kind, at) == [kind |-> kind, at |-> at, live |-> kind \in {"act", "preview"},
                   listed |-> {}, answer |-> None]

Click == clicks < MaxClicks /\ clicks' = clicks + 1
Room == Cardinality(calls) < MaxCalls

\* A click that has not reached its page yet.
Flowing == \E c \in calls : c.kind \in {"open", "claim", "found", "jump"}

\* TaskDetail is mounted; what it keeps goes when it no longer is.
Mounted == view = "task" /\ selected # None /\ application # None

\* The page shows v with task s and application a, and next are the calls.
Show(v, s, a, next) ==
  /\ view' = v /\ selected' = s /\ application' = a
  /\ visited' = (visited \/ (v = "task" /\ s # None /\ s \in Task))
  /\ IF Mounted'
     THEN calls' = next /\ UNCHANGED <<preview, acting>>
     ELSE calls' = {[c EXCEPT !.live = FALSE] : c \in next} /\ preview' = Fresh /\ acting' = FALSE

(***************************************************************************)
(* What the officer does.                                                  *)
(***************************************************************************)
\* handleTaskClick; a second click before the page appears overlaps.
ClickTask(t) ==
  /\ view = "inbox" /\ t \in list /\ Click /\ Room
  /\ Show(view, t, application, calls \cup {Call("open", t)})
  /\ fromSearch' = FALSE /\ mixed' = (mixed \/ Flowing)
  /\ UNCHANGED <<task, list, cache, overtaken, faults>>

\* handleSearchSelect
ClickFound(a) ==
  /\ view = "search" /\ Click /\ Room
  /\ calls' = calls \cup {Call("found", a)}
  /\ fromSearch' = TRUE /\ mixed' = (mixed \/ Flowing)
  /\ UNCHANGED <<task, view, selected, application, list, cache, preview, acting, visited,
                 overtaken, faults>>

\* Fault: the page goes and the application stays.
LeaveTaskOnly(v) == Show(v, None, application, calls)

\* What navigate, handleBack and popstate to a view without task do.
Leave(v) == Show(v, None, None, calls)

GoTo(v) ==
  /\ Leave(v) /\ fromSearch' = FALSE
  /\ mixed' = (mixed /\ Flowing)
  /\ UNCHANGED <<task, list, cache, overtaken, faults, clicks>>

\* popstate to a task: its fetch has no route to answer it.
JumpToTask ==
  /\ visited /\ Click /\ Room
  /\ calls' = calls \cup {Call("jump", None)}
  /\ fromSearch' \in BOOLEAN /\ mixed' = (mixed \/ Flowing)
  /\ UNCHANGED <<task, view, selected, application, list, cache, preview, acting, visited,
                 overtaken, faults>>

\* The site is loaded again; a task in the address falls back to the inbox.
Reload ==
  /\ Click /\ list' = (IF cache = None THEN {} ELSE cache)
  /\ view' = "inbox" /\ selected' = None /\ application' = None
  /\ fromSearch' = FALSE /\ preview' = Fresh /\ acting' = FALSE
  /\ calls' = {Call("inbox", None)} /\ mixed' = FALSE /\ overtaken' = FALSE
  /\ UNCHANGED <<task, cache, visited, faults>>

\* The action panel.
Actionable == Mounted /\ ~fromSearch /\ selected \in Task

\* handleAction
ClickAct ==
  /\ Actionable /\ ~acting /\ preview.doc = None /\ Click /\ Room
  /\ acting' = TRUE /\ calls' = calls \cup {Call("act", selected)}
  /\ UNCHANGED <<task, view, selected, application, fromSearch, list, cache, preview, visited,
                 history, faults>>

Previewing(d) == [doc |-> d, blob |-> None]

\* handlePreview; an open preview covers the page.
ClickPreview(d) ==
  /\ Mounted /\ preview.doc = None /\ Click /\ Room
  /\ preview' = Previewing(d)
  /\ overtaken' = (\E c \in calls : c.kind = "preview" /\ c.live)
  /\ calls' = calls \cup {Call("preview", d)}
  /\ UNCHANGED <<task, view, selected, application, fromSearch, list, cache, acting, visited,
                 mixed, faults>>

\* closePreview, which leaves the fetch under way.
ClosePreview ==
  /\ preview.doc # None /\ preview' = Fresh
  /\ UNCHANGED <<task, view, selected, application, fromSearch, list, cache, acting, visited,
                 calls, history, faults, clicks>>

(***************************************************************************)
(* What the server does, for whoever asks.                                 *)
(***************************************************************************)
\* assignTask
Claim(who, t) ==
  IF task[t].status = "PENDING"
  THEN task' = [task EXCEPT ![t] = [status |-> "IN_PROGRESS", holder |-> who]]
  ELSE UNCHANGED task

MayAct(who, t) ==
  task[t].status \in {"PENDING", "IN_PROGRESS"} /\ task[t].holder \in {None, who}

\* takeActionOnTask: the next stage gets its task, or there is none.
Acted(who, t) ==
  \E next \in {s \in Task : s = <<t[1], t[2] + 1>>} \cup {None} :
    task' = [s \in Task |-> IF s = t THEN [status |-> "COMPLETED", holder |-> who]
                            ELSE IF s = next THEN [status |-> "PENDING", holder |-> None]
                            ELSE task[s]]

\* getInboxTasks, asked for status=PENDING.
Inbox == {t \in Task : task[t].status = "PENDING"}

Served(c, answer) == calls' = (calls \ {c}) \cup {[c EXCEPT !.answer = answer]}

Serve(c) ==
  /\ c.answer = None
  /\ \/ c.kind \in {"open", "found", "preview"} /\ Served(c, "ok") /\ UNCHANGED task
     \/ c.kind = "jump" /\ Served(c, "error") /\ UNCHANGED task
     \/ /\ c.kind = "inbox" /\ UNCHANGED task
        /\ calls' = (calls \ {c}) \cup {[c EXCEPT !.answer = "ok", !.listed = Inbox]}
     \/ c.kind = "claim" /\ Served(c, "ok") /\ Claim(Me, c.at)
     \/ c.kind = "act" /\ MayAct(Me, c.at) /\ Served(c, "ok") /\ Acted(Me, c.at)
     \/ c.kind = "act" /\ ~MayAct(Me, c.at) /\ Served(c, "error") /\ UNCHANGED task
  /\ UNCHANGED <<page, history, faults, clicks>>

OtherOfficer(t) ==
  /\ \/ Claim(Other, t) /\ task[t].status = "PENDING"
     \/ MayAct(Other, t) /\ Acted(Other, t)
  /\ Click /\ UNCHANGED <<page, calls, history, faults>>

(***************************************************************************)
(* What the page does with the answers; "error" also when a call is lost.  *)
(***************************************************************************)
\* The application the page has after loadApplication for a.
Loaded(a, outcome) == IF outcome = "ok" THEN a ELSE application

\* handleTaskClick goes on to the assignment whether the load worked or not.
AnswerOpen(c, outcome) ==
  /\ c.kind = "open"
  /\ Show(view, selected, Loaded(ArnOf(c.at), outcome), (calls \ {c}) \cup {Call("claim", c.at)})
  /\ UNCHANGED <<fromSearch, list, cache, history>>

\* ... and to the page, whether the assignment worked or not.
AnswerClaim(c) ==
  /\ c.kind = "claim"
  /\ Show("task", selected, application, calls \ {c})
  /\ UNCHANGED <<fromSearch, list, cache, history>>

AnswerFound(c, outcome) ==
  /\ c.kind = "found"
  /\ Show("task", Found(c.at), Loaded(c.at, outcome), calls \ {c})
  /\ UNCHANGED <<fromSearch, list, cache, history>>

\* The selection stays behind the inbox.
AnswerJump(c) ==
  /\ c.kind = "jump"
  /\ Show("inbox", selected, application, calls \ {c})
  /\ mixed' = (mixed \/ application # None)
  /\ UNCHANGED <<fromSearch, list, cache, overtaken>>

\* loadInbox
AnswerInbox(c, outcome) ==
  /\ c.kind = "inbox" /\ calls' = calls \ {c}
  /\ IF outcome = "error" THEN UNCHANGED <<list, cache>> ELSE list' = c.listed /\ cache' = c.listed
  /\ UNCHANGED <<view, selected, application, fromSearch, preview, acting, visited, history>>

\* handleActionComplete closes whatever is open; a refusal stays on the page.
AnswerAct(c, outcome) ==
  /\ c.kind = "act"
  /\ \/ /\ outcome = "ok"
        /\ Show("inbox", None, None, (calls \ {c}) \cup {Call("inbox", None)})
        /\ list' = (IF cache = None THEN list ELSE cache)
        /\ mixed' = (mixed /\ Flowing)
     \/ /\ outcome = "error" /\ calls' = calls \ {c}
        /\ acting' = (acting /\ ~c.live)
        /\ UNCHANGED <<view, selected, application, preview, visited, list, mixed>>
  /\ UNCHANGED <<fromSearch, cache, overtaken>>

AnswerPreview(c, outcome) ==
  /\ c.kind = "preview" /\ calls' = calls \ {c}
  /\ preview' = (IF c.live /\ outcome = "ok" THEN [preview EXCEPT !.blob = c.at] ELSE preview)
  /\ UNCHANGED <<view, selected, application, fromSearch, list, cache, acting, visited, history>>

Handle(c, outcome) ==
  /\ AnswerOpen(c, outcome) \/ AnswerClaim(c) \/ AnswerFound(c, outcome) \/ AnswerJump(c)
       \/ AnswerInbox(c, outcome) \/ AnswerAct(c, outcome) \/ AnswerPreview(c, outcome)
  /\ UNCHANGED <<task, clicks>>

Answer(c) == c.answer # None /\ Handle(c, c.answer) /\ UNCHANGED faults

Lose(c) == faults < MaxFaults /\ faults' = faults + 1 /\ Handle(c, "error")

Next ==
  \/ \E t \in Task : ClickTask(t) \/ OtherOfficer(t)
  \/ \E a \in Arn : ClickFound(a)
  \/ \E v \in {"inbox", "search"} : GoTo(v)
  \/ JumpToTask \/ Reload \/ ClickAct \/ ClosePreview
  \/ \E d \in Doc : ClickPreview(d)
  \/ \E c \in calls : Serve(c) \/ Answer(c) \/ Lose(c)

Spec == Init /\ [][Next]_vars

(***************************************************************************)
(* Properties.                                                             *)
(***************************************************************************)
TypeOK ==
  /\ task \in [Task -> [status : {"NONE", "PENDING", "IN_PROGRESS", "COMPLETED"},
                        holder : {Me, Other, None}]]
  /\ view \in {"inbox", "search", "task"}
  /\ selected \in Task \cup {Found(a) : a \in Arn} \cup {None}
  /\ application \in Arn \cup {None}
  /\ list \subseteq Task /\ (cache = None \/ cache \subseteq Task)
  /\ preview \in [doc : Doc \cup {None}, blob : Doc \cup {None}]

\* TaskDetail shows application.arn and acts on task.task_id
\* (TaskDetail.tsx:342, 312): they belong together, and a preview is of the
\* document it names, unless a click overlapped one that had not reached its
\* page or a preview that was not answered.
ShowsWhatItNames ==
  /\ Mounted /\ ~mixed => application = ArnOf(selected)
  /\ preview.blob \notin {None, preview.doc} => overtaken \/ preview.doc = None

\* "an inbox/worklist with the ability to open an application ... and take
\* actions" (BRD_registration_of_architect:232): an inbox that nothing has
\* changed since it was fetched lists every task this officer may act on.
InboxOffersHeldTasks ==
  view = "inbox" /\ calls = {} /\ cache = Inbox /\ list = cache
    => \A t \in Task : task[t].holder = Me /\ MayAct(Me, t) => t \in list
=============================================================================
