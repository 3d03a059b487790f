---------------------------- MODULE FeatureFlags ----------------------------
(***************************************************************************)
(* One feature flag: its row, the distributed cache (Redis) and the cache  *)
(* of each instance (feature-flags.ts), and the update by an administrator *)
(* (admin-service.routes.ts).  A definition of the flag is its number in   *)
(* the order of the updates: what it says of a caller is computed from it  *)
(* and the time of the call, and nothing else is cached.                   *)
(*                                                                         *)
(* Commands to Redis are not awaited: they wait in the instance's pipe in  *)
(* the order sent, and may be lost.  Queries take up to Delay, commands    *)
(* reach Redis within Delay.                                               *)
(***************************************************************************)
EXTENDS Naturals, Sequences

CONSTANTS
  Instance,   \* processes of the API
  Caller,     \* evaluations under way at once
  Ttl,        \* FEATURE_FLAG_CACHE_TTL_MS
  Delay,      \* what a query or a command takes at most
  Horizon,    \* bound on the clock
  MaxUpdates, \* bound on the updates
  None        \* absent

VARIABLES
  clock,
  versions, \* when each of the definitions the row has had was written
  local,    \* featureFlagCache of each instance: a version, until when
  redis,    \* the entry of Redis: a version, until when
  pipe,     \* commands each instance has sent to Redis
  call,     \* evaluations under way
  lag       \* history: for how long the definition that decided last had been replaced

vars == <<clock, versions, local, redis, pipe, call, lag>>

Idle == [pc |-> "idle"]
Current == Len(versions)
\* When the row stopped saying so; now, if it still does.
Replaced(v) == IF v = Current THEN clock ELSE versions[v + 1]

Fresh(e) == e # None /\ e.until > clock

Init ==
  /\ clock = 0
  /\ versions = <<0>>
  /\ local = [i \in Instance |-> None] /\ redis = None
  /\ pipe = [i \in Instance |-> <<>>]
  /\ call = [c \in Caller |-> Idle] /\ lag = 0

\* Nothing sent or asked is older than Delay; Redis drops what expires.
Tick ==
  /\ clock < Horizon
  /\ \A c \in Caller : call[c] # Idle => clock < call[c].start + Delay
  /\ \A i \in Instance : \A n \in DOMAIN pipe[i] : clock < pipe[i][n].sent + Delay
  /\ clock' = clock + 1
  /\ redis' = IF redis # None /\ redis.until > clock' THEN redis ELSE None
  /\ UNCHANGED <<versions, local, pipe, call, lag>>

Send(i, cmd) == pipe' = [pipe EXCEPT ![i] = Append(@, cmd)]

\* The upsert, then invalidateFeatureFlagCache on the instance it reached.
Update(i) ==
  /\ Current <= MaxUpdates
  /\ versions' = Append(versions, clock)
  /\ local' = [local EXCEPT ![i] = None]
  /\ Send(i, [op |-> "del", version |-> 0, sent |-> clock])
  /\ UNCHANGED <<clock, redis, call, lag>>

\* Redis executes a command, or it is lost.
Execute(i) ==
  /\ pipe[i] # <<>> /\ pipe' = [pipe EXCEPT ![i] = Tail(@)]
  /\ LET cmd == Head(pipe[i])
     IN \/ UNCHANGED redis
        \/ redis' = IF cmd.op = "del" THEN None
                    ELSE [version |-> cmd.version, until |-> clock + Ttl]
  /\ UNCHANGED <<clock, versions, local, call, lag>>

\* isFeatureEnabled
Decide(c, v) ==
  /\ call' = [call EXCEPT ![c] = Idle]
  /\ lag' = clock - Replaced(v)

\* getFeatureFlag: the instance's own copy, or on to Redis.
Evaluate(c, i) ==
  /\ call[c] = Idle
  /\ \/ /\ Fresh(local[i]) /\ Decide(c, local[i].version)
     \/ /\ ~Fresh(local[i])
        /\ call' = [call EXCEPT ![c] = [pc |-> "redis", at |-> i, start |-> clock, version |-> 0]]
        /\ UNCHANGED lag
  /\ UNCHANGED <<clock, versions, local, redis, pipe>>

\* The copy's life counts from the call.
Keep(q, v) == local' = [local EXCEPT ![q.at] = [version |-> v, until |-> q.start + Ttl]]

\* A hit fills the instance's cache and leaves Redis alone.
Hit(q) == UNCHANGED pipe

AskRedis(c) ==
  LET q == call[c]
  IN /\ q.pc = "redis" /\ pipe[q.at] = <<>>
     /\ \/ /\ redis # None /\ Keep(q, redis.version) /\ Hit(q)
           /\ Decide(c, redis.version)
        \/ /\ call' = [call EXCEPT ![c].pc = "query"]  \* a miss or an error
           /\ UNCHANGED <<local, pipe, lag>>
     /\ UNCHANGED <<clock, versions, redis>>

ReadRow(c) ==
  /\ call[c].pc = "query"
  /\ call' = [call EXCEPT ![c].pc = "store", ![c].version = Current]
  /\ UNCHANGED <<clock, versions, local, redis, pipe, lag>>

Store(c) ==
  LET q == call[c]
  IN /\ q.pc = "store" /\ Keep(q, q.version)
     /\ Send(q.at, [op |-> "set", version |-> q.version, sent |-> clock])
     /\ Decide(c, q.version)
     /\ UNCHANGED <<clock, versions, redis>>

Next ==
  \/ Tick
  \/ \E i \in Instance : Execute(i) \/ Update(i)
  \/ \E c \in Caller :
       \/ \E i \in Instance : Evaluate(c, i)
       \/ AskRedis(c) \/ ReadRow(c) \/ Store(c)

Spec == Init /\ [][Next]_vars

(***************************************************************************)
(* Properties.                                                             *)
(***************************************************************************)
\* A definition that was replaced decides for less than the lives of two
\* cache entries and two delays: one instance copies from Redis what another
\* has written there late, though the update deleted it.
StalenessBounded == lag < 2 * (Ttl + Delay)

\* The architecture review gives it one life: "stale flags for up to 15s".
StaleForOneLife == lag <= Ttl
=============================================================================
