----------------------------- MODULE Dashboard -----------------------------
(***************************************************************************)
(* The first page of the citizen (Dashboard.tsx): every 30 seconds, and    *)
(* when the browser comes online, it asks the server for several parts by  *)
(* requests of their own, shows what arrives, and keeps a copy when all of *)
(* the parts kept were answered (cache.ts); offline, and when a load       *)
(* fails, it shows the copy and when it was made.  Loads are not kept      *)
(* apart and outlive the page.                                             *)
(*                                                                         *)
(* A part is how often it has changed on the server.  Those that are not   *)
(* kept (documents, complaints, nudges, processing times) and the fallback *)
(* counters (CacheTelemetry) are left out; a copy that is too old, or does *)
(* not pass its validation, is one that is gone.                           *)
(***************************************************************************)
EXTENDS Integers, SequencesExt

CONSTANTS
  Parts,      \* in the order they are shown in
  Load,       \* loads under way at once
  None,       \* nothing shown, or kept, or answered yet
  Refused,    \* an answer that is not ok
  MaxChanges, \* bound on the changes of a part
  MaxLoads,   \* bound on the loads
  MaxVisits   \* bound on the times the page is opened

Part == Range(Parts)

VARIABLES
  truth,    \* the parts, as the server has them
  shown,    \* stats, applications, pendingActions, notifications
  cachedAt, \* the load the page shows the time of, by the parts when it began
  cached,   \* dashboardCacheKey: the copy, and likewise when its load began
  error, isOffline,
  mounted,  \* whether the page is open
  load,     \* loads under way
  crossed,  \* history: loads of a page overlapped, or one and going offline
  loads, visits

page == <<shown, cachedAt, error>>
vars == <<truth, page, cached, isOffline, mounted, load, crossed, loads, visits>>

Nothing == [p \in Part |-> None]
Idle == [at |-> 0]

Init ==
  /\ truth = [p \in Part |-> 0]
  /\ shown = Nothing /\ cachedAt = None /\ cached = None /\ error = FALSE
  /\ isOffline \in BOOLEAN /\ mounted = FALSE
  /\ load = [l \in Load |-> Idle] /\ crossed = FALSE /\ loads = 0 /\ visits = 0

\* getUserApplicationStats, getUserApplications, getUserPendingActions, notifications
Change(p) ==
  /\ truth[p] < MaxChanges
  /\ truth' = [truth EXCEPT ![p] = @ + 1]
  /\ UNCHANGED <<page, cached, isOffline, mounted, load, crossed, loads, visits>>

(***************************************************************************)
(* loadDashboardData                                                       *)
(***************************************************************************)
Blank == shown' = Nothing /\ cachedAt' = None /\ error' = FALSE

\* applyCachedDashboard, or the message that there is nothing to show.
ServeCached ==
  IF cached = None THEN error' = TRUE /\ UNCHANGED <<shown, cachedAt>>
  ELSE shown' = cached.data /\ cachedAt' = cached.since /\ error' = FALSE

\* Some load of this page has not ended.
Underway == \E l \in Load : load[l] # Idle /\ ~load[l].old

\* All requests are sent at once.
Fetch(l) ==
  /\ load[l] = Idle /\ loads < MaxLoads /\ loads' = loads + 1
  /\ load' = [load EXCEPT ![l] = [at |-> 1, since |-> truth, got |-> Nothing, old |-> FALSE]]
  /\ crossed' = (crossed \/ Underway)

loadDashboardData(l) ==
  /\ mounted /\ ~isOffline /\ Fetch(l)
  /\ error' = FALSE /\ UNCHANGED <<shown, cachedAt>>
  /\ UNCHANGED <<truth, cached, isOffline, mounted, visits>>

\* What a route reads, or that it refuses.
Reads(p) == {truth[p], Refused}

Answer(l, p) ==
  /\ load[l] # Idle /\ load[l].got[p] = None
  /\ \E a \in Reads(p) : load' = [load EXCEPT ![l].got[p] = a]
  /\ UNCHANGED <<truth, page, cached, isOffline, mounted, crossed, loads, visits>>

Answered(l) == load[l] # Idle /\ None \notin Range(load[l].got)

\* When all are answered the parts are read and shown one by one.
Show(l) ==
  LET q == load[l]
      p == Parts[q.at]
  IN /\ Answered(l) /\ q.at <= Len(Parts)
     /\ shown' = IF q.old \/ q.got[p] = Refused THEN shown ELSE [shown EXCEPT ![p] = q.got[p]]
     /\ load' = [load EXCEPT ![l].at = @ + 1]
     /\ UNCHANGED <<truth, cachedAt, error, cached, isOffline, mounted, crossed, loads, visits>>

Whole(q) == Refused \notin Range(q.got)
Payload(q) == q.got

\* writeCached, whose failure is ignored; its time is shown all the same.
Write(copy) == cached' \in {cached, copy}

Finish(l) ==
  LET q == load[l]
  IN /\ Answered(l) /\ q.at > Len(Parts)
     /\ IF Whole(q)
        THEN /\ Write([data |-> Payload(q), since |-> q.since])
             /\ cachedAt' = IF q.old THEN cachedAt ELSE q.since
        ELSE UNCHANGED <<cached, cachedAt>>
     /\ load' = [load EXCEPT ![l] = Idle]
     /\ UNCHANGED <<truth, shown, error, isOffline, mounted, crossed, loads, visits>>

\* A request or the reading of an answer fails: the catch block.
Fail(l) ==
  /\ load[l] # Idle
  /\ IF load[l].old THEN UNCHANGED page ELSE ServeCached
  /\ load' = [load EXCEPT ![l] = Idle]
  /\ UNCHANGED <<truth, cached, isOffline, mounted, crossed, loads, visits>>

(***************************************************************************)
(* The effect that loads, and what comes and goes.                         *)
(***************************************************************************)
\* The component is new; it loads, or shows the copy.
Open(l) ==
  /\ ~mounted /\ mounted' = TRUE /\ visits < MaxVisits /\ visits' = visits + 1
  /\ IF isOffline THEN ServeCached /\ UNCHANGED <<load, crossed, loads>>
     ELSE Fetch(l) /\ UNCHANGED page
  /\ UNCHANGED <<truth, cached, isOffline>>

\* "online": the next load, "offline": the copy.
Online(l) ==
  /\ isOffline /\ isOffline' = FALSE
  /\ IF mounted THEN Fetch(l) /\ error' = FALSE /\ UNCHANGED <<shown, cachedAt>>
     ELSE UNCHANGED <<page, load, crossed, loads>>
  /\ UNCHANGED <<truth, cached, mounted, visits>>

Offline ==
  /\ ~isOffline /\ isOffline' = TRUE
  /\ IF mounted THEN ServeCached ELSE UNCHANGED page
  /\ crossed' = (crossed \/ Underway)
  /\ UNCHANGED <<truth, cached, mounted, load, loads, visits>>

\* Another page is opened, or the session ends and its copies are cleared.
Leave ==
  /\ mounted /\ mounted' = FALSE /\ Blank
  /\ load' = [l \in Load |-> IF load[l] = Idle THEN Idle ELSE [load[l] EXCEPT !.old = TRUE]]
  /\ cached' \in {cached, None}
  /\ UNCHANGED <<truth, isOffline, crossed, loads, visits>>

\* DASHBOARD_CACHE_TTL_MS
Expire ==
  /\ cached # None /\ cached' = None
  /\ UNCHANGED <<truth, page, isOffline, mounted, load, crossed, loads, visits>>

Next ==
  \/ \E p \in Part : Change(p)
  \/ \E l \in Load :
       \/ loadDashboardData(l) \/ Show(l) \/ Finish(l) \/ Fail(l) \/ Open(l) \/ Online(l)
       \/ \E p \in Part : Answer(l, p)
  \/ Offline \/ Leave \/ Expire

Spec == Init /\ [][Next]_vars

(***************************************************************************)
(* Properties.                                                             *)
(***************************************************************************)
Version == [Part -> Nat]
Visit == [at : 1 .. Len(Parts) + 1, since : Version, got : [Part -> Nat \cup {None, Refused}],
          old : BOOLEAN]

TypeOK ==
  /\ truth \in Version /\ shown \in [Part -> Nat \cup {None}]
  /\ cachedAt \in Version \cup {None}
  /\ cached = None \/ cached \in [data : [Part -> Nat], since : Version]
  /\ {error, isOffline, mounted, crossed} \subseteq BOOLEAN
  /\ \A l \in Load : load[l] = Idle \/ load[l] \in Visit
  /\ {loads, visits} \subseteq Nat

\* A copy has every part, none of them older than the load that made it, even
\* when a load of a page that was left makes it; and the page shows no part that
\* is older than the load whose time it shows, unless it loaded, or showed the
\* copy, while a load was under way.
CopiesAreWhole ==
  /\ cached # None => \A p \in Part : cached.data[p] # None /\ cached.since[p] <= cached.data[p]
  /\ cachedAt # None /\ ~crossed =>
       \A p \in Part : shown[p] # None /\ cachedAt[p] <= shown[p]
=============================================================================
