--------------------------- MODULE CitizenClient ----------------------------
(***************************************************************************)
(* The citizen's browser (citizen/src/App.tsx, cache.ts) around one form:  *)
(* drafts are created, saved under the row version the browser holds, re-  *)
(* loaded after a conflict, opened and submitted, while another session of *)
(* the same citizen edits the same drafts.  Every fetch is a call that is  *)
(* served and answered in steps of its own, in any order, or is lost.      *)
(*                                                                         *)
(* Form data is the set of edits it contains.  Saving is disabled while    *)
(* the browser is offline, so the queue of offline drafts stays empty and  *)
(* is left out; so are profile, catalogue and telemetry.                   *)
(***************************************************************************)
EXTENDS Naturals, Sequences, FiniteSets

CONSTANTS
  Edit,      \* edits made in this browser
  Other,     \* edits made in the other session
  MaxRows,   \* bound on the applications
  MaxCalls,  \* bound on the calls under way
  MaxFaults, \* bound on lost calls and disconnections
  MaxClicks, \* bound on the clicks that start something new
  None       \* absent

ASSUME ClientAssumption == Edit \cap Other = {} /\ None \notin Nat

VARIABLES
  rows,    \* server: applications with data, row_version and whether DRAFT
  online,  \* ~isOffline
  view,    \* create, track, or another one
  app,     \* currentApplication; from: whose detail its rowVersion is from
  form,    \* formData
  dirty,   \* formDirty
  conflict,\* draftConflictArn
  cache,   \* details in localStorage
  calls,   \* calls under way
  fetched, \* history: others' edits in any detail this browser fetched
  faults, clicks

page == <<online, view, app, form, dirty, conflict, cache>>
vars == <<rows, page, calls, fetched, faults, clicks>>

Id == 1 .. MaxRows
Data == SUBSET (Edit \cup Other)
Row == [data : Data, version : Nat, draft : BOOLEAN]
App == [id : Id, version : Nat, draft : BOOLEAN, from : Id] \cup {None}

Init ==
  /\ rows = << >> /\ online = TRUE /\ view = "other"
  /\ app = None /\ form = {} /\ dirty = FALSE /\ conflict = None
  /\ cache = [i \in Id |-> None] /\ calls = {}
  /\ fetched = {}
  /\ faults = 0 /\ clicks = 0

\* setCurrentApplication({ ...app, rowVersion: app.rowVersion })
Current(i, row) == [id |-> i, version |-> row.version, draft |-> row.draft, from |-> i]

Load(i) == [kind |-> "load", id |-> i, answer |-> None]

\* The effect on [isOffline, currentApplication?.arn] loads the detail when
\* the application becomes another one, or the browser comes back online.
Refresh(next) ==
  IF online /\ next # None /\ (app = None \/ app.id # next.id) THEN {Load(next.id)} ELSE {}

Call(call) ==
  /\ online /\ Cardinality(calls) < MaxCalls
  /\ calls' = calls \cup {call}
  /\ UNCHANGED <<rows, fetched, faults>>

Click == clicks < MaxClicks /\ clicks' = clicks + 1

RoomForRow ==
  Len(rows) + Cardinality({c \in calls : c.kind = "post" /\ c.answer = None}) < MaxRows

(***************************************************************************)
(* What the citizen does.                                                  *)
(***************************************************************************)
\* handleStartApplication: the form and the current application stay.
StartApplication ==
  /\ Click /\ online /\ view = "other" /\ view' = "create" /\ dirty' = FALSE
  /\ UNCHANGED <<rows, online, app, form, conflict, cache, calls, fetched, faults>>

\* onChange of the form, read-only while offline.
Type(e) ==
  /\ view = "create" /\ online /\ conflict = None /\ e \notin form
  /\ form' = form \cup {e} /\ dirty' = TRUE
  /\ UNCHANGED <<rows, online, view, app, conflict, cache, calls, fetched, faults, clicks>>

Post(then) == [kind |-> "post", data |-> form, then |-> then, dirty |-> dirty,
               id |-> None, answer |-> None]
Put == [kind |-> "put", id |-> app.id, data |-> form, version |-> app.version,
        from |-> app.from, answer |-> None]

Saving == \E c \in calls : c.kind \in {"put", "post"}

\* saveDraft: a draft is updated, anything else becomes a new application.
\* Saving an unchanged form, or twice at once, counts as a further click.
ClickSave ==
  /\ view = "create" /\ conflict = None
  /\ IF dirty /\ ~Saving THEN UNCHANGED clicks ELSE Click
  /\ IF app # None /\ app.draft THEN Call(Put) ELSE RoomForRow /\ Call(Post("stay"))
  /\ UNCHANGED page

\* createApplication
ClickCreate ==
  /\ view = "create" /\ conflict = None /\ Click
  /\ RoomForRow /\ Call(Post("track"))
  /\ UNCHANGED page

\* submitApplication
ClickSubmit ==
  /\ view = "track" /\ app # None /\ app.draft /\ Click
  /\ Call([kind |-> "submit", id |-> app.id, app |-> app, answer |-> None])
  /\ UNCHANGED page

\* reloadLatestDraftVersion: its two reads of the application are one here;
\* offline the first finds the cached version and the second fails.
ReloadOffline ==
  /\ conflict # None /\ view = "create" /\ ~online /\ conflict' = None
  /\ app' = IF app = None \/ cache[conflict] = None THEN app
            ELSE [app EXCEPT !.version = cache[conflict].version, !.from = conflict]
  /\ UNCHANGED <<rows, online, view, form, dirty, cache, calls, fetched, faults, clicks>>

ClickReload ==
  /\ conflict # None /\ view = "create" /\ ~\E c \in calls : c.kind = "reload"
  /\ Call([kind |-> "reload", id |-> conflict, answer |-> None])
  /\ UNCHANGED <<page, clicks>>

\* Keep Current Form
KeepForm ==
  /\ conflict # None /\ view = "create" /\ ~\E c \in calls : c.kind = "reload"
  /\ conflict' = None
  /\ UNCHANGED <<rows, online, view, app, form, dirty, cache, calls, fetched, faults, clicks>>

\* The application and its detail as they were last fetched.
ShowCached(i) ==
  /\ cache[i] # None
  /\ app' = Current(i, cache[i]) /\ view' = "track" /\ dirty' = FALSE
  /\ UNCHANGED <<rows, online, form, conflict, cache, fetched>>

\* openApplication
OpenApplication(i) ==
  /\ Click /\ view = "other"
  /\ \/ Call([kind |-> "open", id |-> i, answer |-> None]) /\ UNCHANGED page
     \/ ~online /\ ShowCached(i) /\ UNCHANGED <<calls, faults>>

\* navigateTo, navigateBack and popstate, confirmed when the form is dirty;
\* the side bar keeps the current application, the others forget it.
Leave ==
  /\ view # "other" /\ (view = "create" => conflict = None)
  /\ view' = "other" /\ dirty' = FALSE /\ app' \in {app, None}
  /\ UNCHANGED <<rows, online, form, conflict, cache, calls, fetched, faults, clicks>>

\* The site is opened again: the resume snapshot brings back what was there,
\* and the restored application is loaded.
Revisit ==
  /\ Click /\ dirty' = FALSE /\ conflict' = None
  /\ calls' = IF online /\ app # None THEN {Load(app.id)} ELSE {}
  /\ UNCHANGED <<rows, online, view, app, form, cache, fetched, faults>>

(***************************************************************************)
(* What the server does.                                                   *)
(***************************************************************************)
Answered(c, outcome, i, row) ==
  (calls \ {c}) \cup {[c EXCEPT !.id = i, !.answer = [outcome |-> outcome, row |-> row]]}

\* createApplication
ServePost(c) ==
  LET row == [data |-> c.data, version |-> 1, draft |-> TRUE]
  IN /\ c.kind = "post" /\ c.answer = None
     /\ rows' = Append(rows, row)
     /\ calls' = Answered(c, "ok", Len(rows) + 1, row)
     /\ UNCHANGED <<page, fetched, faults, clicks>>

\* Fault: the row version a client sends is not compared.
SaveStateOnly(c, row) ==
  IF ~row.draft THEN "error" ELSE "ok"

\* updateApplicationData
SaveOutcome(c, row) ==
  IF ~row.draft THEN "error" ELSE IF row.version # c.version THEN "conflict" ELSE "ok"

ServePut(c) ==
  LET row == rows[c.id]
      outcome == SaveOutcome(c, row)
      saved == IF outcome = "ok" THEN [row EXCEPT !.data = c.data, !.version = @ + 1] ELSE row
  IN /\ c.kind = "put" /\ c.answer = None
     /\ rows' = [rows EXCEPT ![c.id] = saved]
     /\ calls' = Answered(c, outcome, c.id, saved)
     /\ UNCHANGED <<page, fetched, faults, clicks>>

ServeRead(c) ==
  /\ c.kind \in {"load", "open", "reload"} /\ c.answer = None
  /\ calls' = Answered(c, "ok", c.id, rows[c.id])
  /\ UNCHANGED <<rows, page, fetched, faults, clicks>>

\* submitApplication
ServeSubmit(c) ==
  /\ c.kind = "submit" /\ c.answer = None
  /\ IF rows[c.id].draft
     THEN /\ rows' = [rows EXCEPT ![c.id].draft = FALSE, ![c.id].version = @ + 1]
          /\ calls' = Answered(c, "ok", c.id, rows'[c.id])
     ELSE UNCHANGED rows /\ calls' = Answered(c, "error", c.id, rows[c.id])
  /\ UNCHANGED <<page, fetched, faults, clicks>>

Serve(c) == ServePost(c) \/ ServePut(c) \/ ServeRead(c) \/ ServeSubmit(c)

(***************************************************************************)
(* What the browser does with the answers.                                 *)
(***************************************************************************)
Fetched(row) == fetched \cup (row.data \cap Other)

Done(c, next) == calls' = (calls \ {c}) \cup Refresh(next)

AnswerPut(c) ==
  /\ c.kind = "put"
  /\ \/ /\ c.answer.outcome = "conflict" /\ conflict' = c.id
        /\ calls' = calls \ {c} /\ UNCHANGED <<app, dirty>>
     \/ /\ c.answer.outcome = "error"
        /\ calls' = calls \ {c} /\ UNCHANGED <<app, dirty, conflict>>
     \/ /\ c.answer.outcome = "ok"
        /\ app' = Current(c.id, c.answer.row) /\ dirty' = FALSE
        /\ Done(c, app') /\ UNCHANGED conflict
  /\ UNCHANGED <<rows, online, view, form, cache, fetched, faults, clicks>>

\* createApplication goes on to the application, which a citizen with unsaved
\* changes must confirm; saveDraft stays.
AnswerPost(c) ==
  /\ c.kind = "post"
  /\ app' = Current(c.id, c.answer.row)
  /\ \/ c.then = "track" /\ view' = "track" /\ dirty' = FALSE
     \/ c.then = "track" /\ c.dirty /\ UNCHANGED <<view, dirty>>
     \/ c.then = "stay" /\ dirty' = FALSE /\ UNCHANGED view
  /\ Done(c, app')
  /\ UNCHANGED <<rows, online, form, conflict, cache, fetched, faults, clicks>>

\* loadApplicationDetail: whichever application is current takes the version.
AnswerLoad(c) ==
  /\ c.kind = "load" /\ calls' = calls \ {c}
  /\ app' = IF app = None THEN None ELSE [app EXCEPT !.version = c.answer.row.version, !.from = c.id]
  /\ cache' = [cache EXCEPT ![c.id] = c.answer.row]
  /\ fetched' = Fetched(c.answer.row)
  /\ UNCHANGED <<rows, online, view, form, dirty, conflict, faults, clicks>>

AnswerOpen(c) ==
  /\ c.kind = "open"
  /\ app' = Current(c.id, c.answer.row) /\ view' = "track" /\ dirty' = FALSE
  /\ Done(c, app')
  /\ cache' = [cache EXCEPT ![c.id] = c.answer.row]
  /\ fetched' = Fetched(c.answer.row)
  /\ UNCHANGED <<rows, online, form, conflict, faults, clicks>>

\* Fault: the reload brings the data and keeps the version held before.
ReloadedDataOnly(c) ==
  IF app # None /\ app.id = c.id THEN app ELSE Current(c.id, c.answer.row)

\* The application after reloadLatestDraftVersion, under its new version.
Reloaded(c) == Current(c.id, c.answer.row)

\* The form takes the server's data and stays marked as changed.
AnswerReload(c) ==
  /\ c.kind = "reload"
  /\ app' = Reloaded(c) /\ form' = c.answer.row.data /\ conflict' = None
  /\ Done(c, app')
  /\ cache' = [cache EXCEPT ![c.id] = c.answer.row]
  /\ fetched' = Fetched(c.answer.row)
  /\ UNCHANGED <<rows, online, view, dirty, faults, clicks>>

\* The submitted application comes back under its public number.
AnswerSubmit(c) ==
  /\ c.kind = "submit"
  /\ \/ /\ c.answer.outcome = "ok"
        /\ app' = [c.app EXCEPT !.draft = FALSE] /\ dirty' = FALSE
        /\ calls' = (calls \ {c}) \cup (IF online THEN {Load(c.id)} ELSE {})
     \/ c.answer.outcome = "error" /\ calls' = calls \ {c} /\ UNCHANGED <<app, dirty>>
  /\ UNCHANGED <<rows, online, view, form, conflict, cache, fetched, faults, clicks>>

Answer(c) ==
  /\ c.answer # None
  /\ AnswerPut(c) \/ AnswerPost(c) \/ AnswerLoad(c) \/ AnswerOpen(c)
       \/ AnswerReload(c) \/ AnswerSubmit(c)

\* A call or its answer is lost, or answered with an error status, in which
\* case openApplication falls back to the cached detail.
Lose(c) ==
  /\ faults < MaxFaults /\ faults' = faults + 1
  /\ calls' = calls \ {c}
  /\ \/ c.kind = "open" /\ ShowCached(c.id)
     \/ c.kind = "reload" /\ conflict' = None
          /\ UNCHANGED <<rows, online, view, app, form, dirty, cache, fetched>>
     \/ c.kind # "reload" /\ UNCHANGED <<rows, page, fetched>>
  /\ UNCHANGED clicks

GoOffline ==
  /\ online /\ faults < MaxFaults /\ faults' = faults + 1 /\ online' = FALSE
  /\ UNCHANGED <<rows, view, app, form, dirty, conflict, cache, calls, fetched, clicks>>

GoOnline ==
  /\ ~online /\ online' = TRUE
  /\ calls' = calls \cup (IF app = None THEN {} ELSE {Load(app.id)})
  /\ UNCHANGED <<rows, view, app, form, dirty, conflict, cache, fetched, faults, clicks>>

(***************************************************************************)
(* The other session, which always saves on top of what is there.          *)
(***************************************************************************)
OtherSave(i, o) ==
  /\ rows[i].draft
  /\ o \notin fetched /\ \A j \in DOMAIN rows : o \notin rows[j].data
  /\ rows' = [rows EXCEPT ![i].data = @ \cup {o}, ![i].version = @ + 1]
  /\ UNCHANGED <<page, calls, fetched, faults, clicks>>

OtherSubmit(i) ==
  /\ rows[i].draft /\ Click
  /\ rows' = [rows EXCEPT ![i].draft = FALSE, ![i].version = @ + 1]
  /\ UNCHANGED <<page, calls, fetched, faults>>

Next ==
  \/ StartApplication \/ ClickSave \/ ClickCreate \/ ClickSubmit \/ ClickReload
  \/ ReloadOffline \/ KeepForm \/ Leave \/ Revisit \/ GoOffline \/ GoOnline
  \/ \E e \in Edit : Type(e)
  \/ \E c \in calls : Serve(c) \/ Answer(c) \/ Lose(c)
  \/ \E i \in DOMAIN rows :
       OpenApplication(i) \/ OtherSubmit(i) \/ \E o \in Other : OtherSave(i, o)

Spec == Init /\ [][Next]_vars

\* Calls are served and answered, the connection comes back, and the citizen
\* goes on saving a changed form and takes the reload that is offered.
Fairness ==
  /\ \A k \in {"put", "post", "load", "open", "reload", "submit"} :
       /\ WF_vars(\E c \in calls : c.kind = k /\ Serve(c))
       /\ WF_vars(\E c \in calls : c.kind = k /\ Answer(c))
  /\ WF_vars(GoOnline) /\ WF_vars(dirty /\ ~Saving /\ ClickSave) /\ SF_vars(ClickReload)

FairSpec == Spec /\ Fairness

(***************************************************************************)
(* Properties.                                                             *)
(***************************************************************************)
TypeOK ==
  /\ rows \in Seq(Row) /\ Len(rows) <= MaxRows
  /\ view \in {"create", "track", "other"} /\ {online, dirty} \subseteq BOOLEAN
  /\ app \in App /\ form \in Data /\ conflict \in Id \cup {None}
  /\ cache \in [Id -> Row \cup {None}]
  /\ fetched \subseteq Other

\* Edits of the other session that a step takes out of application i.
Overwritten(i) == (rows[i].data \ rows'[i].data) \cap Other

\* "the update will fail with CONFLICT if the row has been modified since the
\* caller last read it" (applications.ts:337): a save takes out another
\* session's edit only if this browser had fetched it, though perhaps never
\* shown it, or if the version it sent was another application's.
OverwritesOnlyFetched ==
  [][\A i \in DOMAIN rows :
       Overwritten(i) \subseteq fetched
         \/ \E c \in calls \ calls' : c.kind = "put" /\ c.id = i /\ c.from # i]_vars

\* A citizen who goes on saving gets the form saved, whatever conflicts and
\* late answers come between, unless the draft was submitted elsewhere or
\* no application is left to save it to.
SavingConverges ==
  dirty ~> \/ ~dirty
           \/ app # None /\ app.draft /\ ~rows[app.id].draft
           \/ (app = None \/ ~app.draft) /\ ~RoomForRow
=============================================================================
