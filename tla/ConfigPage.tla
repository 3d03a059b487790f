------------------------------ MODULE ConfigPage ------------------------------
(***************************************************************************)
(* The officer's view of service configurations (ServiceConfigView.tsx)    *)
(* over the configuration routes of app.ts: the list of services, the      *)
(* versions of one, one version in detail, and two places in which two     *)
(* versions are compared.  All loads of the page share one flag; answers   *)
(* are stored without a look at what has been selected since.              *)
(***************************************************************************)
EXTENDS Naturals, FiniteSets

CONSTANTS
  Published, \* service -> version -> item -> content: the rows of service_version
  MaxCalls, MaxClicks, \* bounds on the requests under way and on the clicks
  None

VARIABLES
  page,    \* the React state
  calls,   \* requests under way, each with the pane its answer is for
  offline,
  crossed, \* history: panes for which something else was selected meanwhile
  clicks

vars == <<page, calls, offline, crossed, clicks>>

Service == DOMAIN Published
VersionsOf(s) == IF s \in Service THEN DOMAIN Published[s] ELSE {}

\* What a comparison answers, and what it says happened to the former.
Diff(a, b) ==
  [added   |-> {<<k, b[k]>> : k \in DOMAIN b \ DOMAIN a},
   removed |-> {<<k, a[k]>> : k \in DOMAIN a \ DOMAIN b},
   changed |-> {<<k, b[k]>> : k \in {x \in DOMAIN a \cap DOMAIN b : a[x] # b[x]}}]

Patched(a, d) ==
  LET gone == d.removed \cup {e \in {<<k, a[k]>> : k \in DOMAIN a} : \E c \in d.changed : c[1] = e[1]}
  IN ({<<k, a[k]>> : k \in DOMAIN a} \ gone) \cup d.added \cup d.changed

Call(pane, s, v, w) == [pane |-> pane, service |-> s, version |-> v, with |-> w]
Services == Call("page", None, None, None)

\* The page as it is mounted, with the services on their way.
Fresh == [view |-> "services", listed |-> FALSE, service |-> None, versions |-> None,
          detail |-> None, compareTab |-> FALSE, base |-> None, other |-> None, diff |-> None,
          comparing |-> FALSE, left |-> None, right |-> None, listDiff |-> None,
          loading |-> TRUE, listLoading |-> FALSE]

Init == page = Fresh /\ calls = {Services} /\ offline = FALSE /\ crossed = {} /\ clicks = 0

\* What a pane shows something about.
Named(p, pane) ==
  CASE pane = "page" -> <<>>
    [] pane = "diff" -> <<p.service, p.base, p.other>>
    [] pane = "list" -> <<p.service, p.left, p.right>>

Overtaken(p) == {c.pane : c \in {d \in calls : Named(p, d.pane) # Named(page, d.pane)}}

\* The state becomes p and C is requested, unless the browser is offline.
Become(p, C) ==
  /\ clicks < MaxClicks /\ clicks' = clicks + 1
  /\ page' = p
  /\ calls' = IF offline THEN calls ELSE calls \cup C
  /\ Cardinality(calls') <= MaxCalls
  /\ crossed' = crossed \cup Overtaken(p)

\* The effect of the comparison's tab, whatever is in view.
Comparison(p) ==
  IF p.compareTab /\ None \notin {p.service, p.base, p.other}
  THEN {Call("diff", p.service, p.base, p.other)} ELSE {}

(***************************************************************************)
(* Clicks.                                                                 *)
(***************************************************************************)
SelectService(s) ==
  /\ page.view = "services" /\ page.listed /\ ~page.loading
  /\ LET p == [page EXCEPT !.view = "versions", !.service = s, !.versions = None,
                           !.loading = ~offline]
     IN Become(p, {Call("page", s, None, None)} \cup Comparison(p))
  /\ UNCHANGED offline

SelectVersion(v) ==
  /\ page.view = "versions" /\ ~page.loading /\ v \in VersionsOf(page.versions)
  /\ Become([page EXCEPT !.view = "detail", !.compareTab = FALSE, !.base = v, !.other = None,
                         !.diff = None, !.loading = ~offline],
            {Call("page", page.service, v, None)})
  /\ UNCHANGED offline

BackToServices ==
  /\ page.view = "versions"
  /\ Become([page EXCEPT !.view = "services", !.service = None, !.versions = None,
                         !.detail = None, !.comparing = FALSE, !.listDiff = None], {})
  /\ UNCHANGED offline

\* There is no way back until there is a detail.
BackToVersions ==
  /\ page.view = "detail" /\ page.detail # None
  /\ Become([page EXCEPT !.view = "versions", !.detail = None], {})
  /\ UNCHANGED offline

OpenTab(compare) ==
  /\ page.view = "detail" /\ page.detail # None /\ page.compareTab # compare
  /\ LET p == [page EXCEPT !.compareTab = compare] IN Become(p, Comparison(p))
  /\ UNCHANGED offline

ChooseOther(v) ==
  /\ page.view = "detail" /\ page.detail # None /\ page.compareTab
  /\ v \in VersionsOf(page.versions) \ {page.detail[2], page.other}
  /\ LET p == [page EXCEPT !.other = v, !.diff = None] IN Become(p, Comparison(p))
  /\ UNCHANGED offline

\* The comparison above the list of versions.
ComparesList == page.view = "versions" /\ Cardinality(VersionsOf(page.versions)) >= 2

ToggleCompare ==
  /\ ComparesList
  /\ Become([page EXCEPT !.comparing = ~@, !.listDiff = None], {})
  /\ UNCHANGED offline

ChooseListed(side, v) ==
  /\ ComparesList /\ page.comparing /\ v \in VersionsOf(page.versions) /\ page[side] # v
  /\ Become([page EXCEPT ![side] = v, !.listDiff = None], {})
  /\ UNCHANGED offline

CompareListed ==
  /\ ComparesList /\ page.comparing /\ ~page.listLoading
  /\ None \notin {page.left, page.right} /\ page.left # page.right
  /\ Become([page EXCEPT !.listLoading = ~offline], {Call("list", page.service, page.left, page.right)})
  /\ UNCHANGED offline

\* The connection returns: the effects run again, beside what is under way.
GoOnline ==
  /\ offline /\ offline' = FALSE
  /\ page' = [page EXCEPT !.loading = TRUE]
  /\ calls' = calls \cup {Services} \cup Comparison(page)
  /\ Cardinality(calls') <= MaxCalls
  /\ crossed' = crossed \cup {c.pane : c \in {d \in calls : d.pane = "page"}}
  /\ UNCHANGED clicks

GoOffline == ~offline /\ offline' = TRUE /\ UNCHANGED <<page, calls, crossed, clicks>>

\* Another view is opened and this one again.
Leave ==
  /\ ~offline /\ page' = Fresh /\ calls' = {Services} /\ crossed' = {} /\ UNCHANGED <<offline, clicks>>

(***************************************************************************)
(* Answers.                                                                *)
(***************************************************************************)
Exists(c) ==
  /\ c.service # None => VersionsOf(c.service) # {}
  /\ {c.version, c.with} \subseteq VersionsOf(c.service) \cup {None}

Compared(c) == Diff(Published[c.service][c.version], Published[c.service][c.with])

Stored(c) ==
  CASE c.pane = "diff" -> [page EXCEPT !.diff = Compared(c)]
    [] c.pane = "list" -> [page EXCEPT !.listDiff = Compared(c), !.listLoading = FALSE]
    [] c.pane = "page" /\ c.service = None -> [page EXCEPT !.listed = TRUE, !.loading = FALSE]
    [] c.pane = "page" /\ c.service # None /\ c.version = None ->
         [page EXCEPT !.versions = c.service, !.loading = FALSE]
    [] OTHER -> [page EXCEPT !.detail = <<c.service, c.version>>, !.loading = FALSE]

Refused(c) ==
  CASE c.pane = "diff" -> [page EXCEPT !.diff = None]
    [] c.pane = "list" -> [page EXCEPT !.listDiff = None, !.listLoading = FALSE]
    [] OTHER -> [page EXCEPT !.loading = FALSE]

Answer(c) ==
  /\ c \in calls /\ Exists(c) /\ page' = Stored(c)
  /\ calls' = calls \ {c} /\ UNCHANGED <<offline, crossed, clicks>>

\* Not found, or lost on the way.
Fail(c) ==
  /\ c \in calls /\ page' = Refused(c)
  /\ calls' = calls \ {c} /\ UNCHANGED <<offline, crossed, clicks>>

Version == UNION {VersionsOf(s) : s \in Service}

Next ==
  \/ \E s \in Service : SelectService(s)
  \/ \E v \in Version : \/ SelectVersion(v) \/ ChooseOther(v)
                        \/ \E side \in {"left", "right"} : ChooseListed(side, v)
  \/ BackToServices \/ BackToVersions \/ \E b \in BOOLEAN : OpenTab(b)
  \/ ToggleCompare \/ CompareListed \/ GoOnline \/ GoOffline \/ Leave
  \/ \E c \in calls : Answer(c) \/ Fail(c)

Spec == Init /\ [][Next]_vars

(***************************************************************************)
(* Properties.                                                             *)
(***************************************************************************)
\* An open service, version or comparison is one that can be asked for.
TypeOK ==
  /\ page.view \in {"services", "versions", "detail"}
  /\ page.service \in {None} \cup Service /\ page.versions \in {None} \cup Service
  /\ (page.view = "services") = (page.service = None)

\* The list under a service's name is its own, and a version in detail the one
\* that was clicked, although no answer is compared with what is selected:
\* the flag that hides the lists keeps a second load from beginning, unless the
\* services are loaded anew when the connection returns.
LoadedAsSelected ==
  "page" \in crossed \/ page.view = "services"
  \/ /\ page.versions \in {None, page.service}
     /\ page.view = "detail" => page.detail \in {None, <<page.service, page.base>>}

Tells(d, s, v, w) ==
  /\ {v, w} \subseteq VersionsOf(s)
  /\ Patched(Published[s][v], d) = {<<k, Published[s][w][k]>> : k \in DOMAIN Published[s][w]}

\* The differences shown turn the one selected version into the other, unless
\* something else was selected while they were on their way.
ComparedAsSelected ==
  /\ \/ "diff" \in crossed \/ page.view # "detail" \/ ~page.compareTab \/ page.diff = None
     \/ Tells(page.diff, page.service, page.base, page.other)
  /\ \/ "list" \in crossed \/ page.view # "versions" \/ ~page.comparing \/ page.listDiff = None
     \/ Tells(page.listDiff, page.service, page.left, page.right)

ConfigAsSelected == LoadedAsSelected /\ ComparedAsSelected

\* Not so: a version that could not be loaded leaves a page without a button.
WayBack == page.view = "detail" /\ page.detail = None => page.loading
=============================================================================
