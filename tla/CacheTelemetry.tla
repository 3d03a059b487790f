--------------------------- MODULE CacheTelemetry ---------------------------
(***************************************************************************)
(* How often the citizen pages fell back to cached data (cacheTelemetry.ts *)
(* and its callers in App.tsx): counters in the browser's storage, of      *)
(* which flushes report what was added since the last one, to audit events *)
(* of the server (telemetry.routes.ts) that an officer's report adds up    *)
(* (admin-reports.routes.ts).  Flushes start every minute, when the        *)
(* browser comes online, when the page is hidden and before a logout;      *)
(* nothing keeps them apart, in one tab or in several.  The keys of the    *)
(* counters begin like those of the cached pages, so the end of a session  *)
(* clears them too (cache.ts), while flushes may still be under way.       *)
(*                                                                         *)
(* Who is signed in, the time buckets of the report and stored values that *)
(* do not parse are left out.                                              *)
(***************************************************************************)
EXTENDS Integers, FiniteSetsExt

CONSTANTS
  Source,      \* pages that serve cached data
  All,         \* the counter itself, beside its sources
  Flush,       \* flushes under way at once
  MaxAttempts, \* of a flush; one when the page is hidden
  MaxDelta,    \* 1000000
  MaxSources,  \* MAX_SOURCE_ENTRIES
  MaxMarks,    \* bound on the fallbacks
  MaxFlushes,  \* bound on the flushes
  MaxEnds      \* bound on the sessions that end

Reason == {"cache_fallback_offline", "cache_fallback_error"}
COUNTERS == Reason \cup {"stale_data_served"}
counters == COUNTERS \X {All}
bySource == COUNTERS \X Source
Key == counters \cup bySource

VARIABLES
  telemetry, \* TELEMETRY_KEY
  lastSent,  \* LAST_SENT_KEY
  reported,  \* the audit events, added up
  flush,     \* flushes under way
  counted,   \* history: everything ever counted
  repeated,  \* history: something may have been reported twice
  dropped,   \* history: what was not sent when a session ended
  outlived,  \* history: a flush was marked as sent after its session
  marks, flushes, ends

limits == <<marks, flushes, ends>>
history == <<counted, dropped, repeated, outlived>>
vars == <<telemetry, lastSent, reported, flush, history, limits>>

Empty == [k \in Key |-> 0]
Idle == [pc |-> "idle"]

Init ==
  /\ telemetry = Empty /\ lastSent = Empty /\ reported = Empty /\ counted = Empty /\ dropped = Empty
  /\ flush = [f \in Flush |-> Idle]
  /\ repeated = FALSE /\ outlived = FALSE /\ marks = 0 /\ flushes = 0 /\ ends = 0

(***************************************************************************)
(* Counting.                                                               *)
(***************************************************************************)
\* incrementCacheTelemetry, for a counter and one of its sources
Increment(c, s, t) == [t EXCEPT ![<<c, All>>] = @ + 1, ![<<c, s>>] = @ + 1]

markStaleData(reason, s) ==
  LET Mark(t) == Increment(reason, s, Increment("stale_data_served", s, t))
  IN /\ marks < MaxMarks /\ marks' = marks + 1
     /\ telemetry' = Mark(telemetry) /\ counted' = Mark(counted)
     /\ UNCHANGED <<lastSent, reported, flush, dropped, repeated, outlived, flushes, ends>>

Pending(k) == Max({0, telemetry[k] - lastSent[k]})

\* clearCitizenCachedState: TELEMETRY_KEY and LAST_SENT_KEY begin with
\* "puda_citizen_cache_", one of CITIZEN_CACHE_PREFIXES.
EndSession ==
  /\ ends < MaxEnds /\ ends' = ends + 1
  /\ telemetry' = Empty /\ lastSent' = Empty
  /\ dropped' = [k \in Key |-> dropped[k] + Pending(k)]
  /\ flush' = [f \in Flush |-> IF flush[f] = Idle THEN Idle ELSE [flush[f] EXCEPT !.old = TRUE]]
  /\ UNCHANGED <<reported, counted, repeated, outlived, marks, flushes>>

(***************************************************************************)
(* flushCacheTelemetryWithRetry                                            *)
(***************************************************************************)
\* subtractCounters, subtractBySource: no more sources than the server takes.
Delta(kept) ==
  [k \in Key |-> IF k \in counters \cup kept THEN Pending(k) ELSE 0]
Grown == {k \in bySource : telemetry[k] > lastSent[k]}
Kept == IF Cardinality(Grown) <= MaxSources THEN {Grown} ELSE kSubset(MaxSources, Grown)

hasDelta(d) == \E k \in Key : d[k] > 0

\* What is stored is read, and sent.
Send(f, left) ==
  \E kept \in Kept :
    LET d == Delta(kept)
    IN flush' = [flush EXCEPT ![f] = IF hasDelta(d)
                   THEN [pc |-> "sent", current |-> telemetry, delta |-> d, left |-> left,
                         old |-> FALSE]
                   ELSE Idle]

flushCacheTelemetryNow(f, attempts) ==
  /\ flush[f] = Idle /\ flushes < MaxFlushes /\ flushes' = flushes + 1
  /\ Send(f, attempts)
  /\ repeated' = (repeated \/ \E g \in Flush \ {f} : flush[g] # Idle)
  /\ UNCHANGED <<telemetry, lastSent, reported, counted, dropped, outlived, marks, ends>>

\* The next attempt, after a delay: it reads the stored values again.
Retry(f) ==
  /\ flush[f].pc = "wait"
  /\ Send(f, flush[f].left - 1)
  /\ UNCHANGED <<telemetry, lastSent, reported, history, limits>>

\* shouldRetry: the network failed, or the server with 5xx.
Failed(f) == IF flush[f].left > 1 THEN [flush[f] EXCEPT !.pc = "wait"] ELSE Idle

Accepts(d) == \A k \in Key : d[k] <= MaxDelta

\* GET /admin/telemetry/cache: the sums over all events.
Added(d) == [k \in Key |-> reported[k] + d[k]]

\* POST /client-telemetry/cache
Record(f) ==
  /\ flush[f].pc = "sent" /\ Accepts(flush[f].delta)
  /\ reported' = Added(flush[f].delta)
  /\ flush' = [flush EXCEPT ![f].pc = "recorded"]
  /\ UNCHANGED <<telemetry, lastSent, history, limits>>

\* 400, 401 or 429: given up.
Refuse(f) ==
  /\ flush[f].pc = "sent"
  /\ flush' = [flush EXCEPT ![f] = Idle]
  /\ UNCHANGED <<telemetry, lastSent, reported, history, limits>>

\* Nothing arrives, or its answer does not.
Lose(f) ==
  /\ flush[f].pc \in {"sent", "recorded"}
  /\ flush' = [flush EXCEPT ![f] = Failed(f)]
  /\ repeated' = (repeated \/ flush[f].pc = "recorded")
  /\ UNCHANGED <<telemetry, lastSent, reported, counted, dropped, outlived, limits>>

\* Fault: the snapshot is what is stored now, not what was sent.
FinishRereads(f) ==
  /\ flush[f].pc = "recorded"
  /\ \/ lastSent' = telemetry /\ UNCHANGED repeated
     \/ UNCHANGED lastSent /\ repeated' = TRUE
  /\ flush' = [flush EXCEPT ![f] = Idle]
  /\ outlived' = (outlived \/ flush[f].old)
  /\ UNCHANGED <<telemetry, reported, counted, dropped, limits>>

\* writeLastSentSnapshot, whose failure is ignored.
Finish(f) ==
  /\ flush[f].pc = "recorded"
  /\ \/ lastSent' = flush[f].current /\ UNCHANGED repeated
     \/ UNCHANGED lastSent /\ repeated' = TRUE
  /\ flush' = [flush EXCEPT ![f] = Idle]
  /\ outlived' = (outlived \/ flush[f].old)
  /\ UNCHANGED <<telemetry, reported, counted, dropped, limits>>

\* The page is closed, or offline when it should try again.
Close(f) ==
  /\ flush[f].pc # "idle"
  /\ flush' = [flush EXCEPT ![f] = Idle]
  /\ repeated' = (repeated \/ flush[f].pc = "recorded")
  /\ UNCHANGED <<telemetry, lastSent, reported, counted, dropped, outlived, limits>>

Next ==
  \/ \E r \in Reason, s \in Source : markStaleData(r, s)
  \/ EndSession
  \/ \E f \in Flush :
       \/ \E n \in {1, MaxAttempts} : flushCacheTelemetryNow(f, n)
       \/ Retry(f) \/ Record(f) \/ Refuse(f) \/ Lose(f) \/ Finish(f) \/ Close(f)

Spec == Init /\ [][Next]_vars

(***************************************************************************)
(* Properties.                                                             *)
(***************************************************************************)
Snapshot == [Key -> Nat]
Flight == [pc : {"sent", "recorded", "wait"}, current : Snapshot, delta : Snapshot, left : Nat,
           old : BOOLEAN]

TypeOK ==
  /\ {telemetry, lastSent, reported, counted, dropped} \subseteq Snapshot
  /\ \A f \in Flush : flush[f] = Idle \/ flush[f] \in Flight
  /\ {repeated, outlived} \subseteq BOOLEAN /\ {marks, flushes, ends} \subseteq Nat

\* What was reported of the sources of a counter, all together.
OfSources(k) == MapThenSumSet(LAMBDA s : reported[<<k[1], s>>], Source)

\* However flushes overlap, fail, repeat and give up, every fallback is in the
\* report or in the next flush, but for those a session left unsent, as long as
\* no flush is marked as sent after its session; the report has no more of the
\* sources of a counter than of the counter; and it has no more than was counted
\* unless flushes overlapped, or an answer or the mark was lost.
ReportsAddUp ==
  /\ \A k \in counters :
       ~outlived => /\ counted[k] <= reported[k] + Pending(k) + dropped[k]
                    /\ OfSources(k) <= reported[k]
  /\ \A k \in Key : ~repeated => reported[k] <= counted[k]
=============================================================================
