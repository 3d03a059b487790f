---------------------------- MODULE MCOperations ----------------------------
(* The workflow engine with one request at a time, on the pack that relies *)
(* on its safety net, and what surrounds it: the seed script on a database *)
(* in use (SeedScript) and the counters of cached data (CacheTelemetry).   *)
(* They share no state, so a behaviour is one of one of them, as "beside"  *)
(* says.                                                                   *)
EXTENDS SeedScript, TLC

Packs == INSTANCE ServicePacks

CONSTANTS
  Application, Officer, Request, Responder, Stage, StageRole, RolesOf, Transition,
  MaxQueries, StaleTasks, BlankQueries, MayFail, None,               \* WorkflowEngine
  Source, All, Flush, MaxAttempts, MaxDelta, MaxSources, MaxMarks, MaxFlushes, MaxEnds,
                                                                     \* CacheTelemetry
  clerk, senior, citizen, upn

VARIABLES
  beside,
  db, req, resp,
  telemetry, lastSent, reported, flush, counted, dropped, repeated, outlived, marks, flushes, ends

\* For the instance checked: the pack with its two officers; a query and a task
\* of one citizen, who has one property.
DpcStage == DOMAIN Packs!DpcRole
DpcRole == Packs!DpcRole
DpcTransition == Packs!DpcCertificatePrivateProperty
Roles == (clerk :> {"CLERK"}) @@ (senior :> {StageRole[s] : s \in Stage})
Upns == <<upn>>
CitizenUpns == citizen :> Upns
TwoApplications == <<[citizen |-> citizen, kind |-> "query", index |-> 1],
                     [citizen |-> citizen, kind |-> "task", index |-> 2]>>
Lockers == <<citizen>>

\* The pack issues no certificate on download.
E == INSTANCE WorkflowEngine WITH App <- Application, Downloader <- {}, down <- <<>>
T == INSTANCE CacheTelemetry

engineVars == <<db, req, resp>>
counterVars == <<telemetry, lastSent, reported, flush, counted, dropped, repeated, outlived,
                 marks, flushes, ends>>
MCVars == <<vars, engineVars, counterVars, beside>>

MCInit ==
  /\ Init /\ E!Init /\ T!Init
  /\ beside \in {"engine", "seed", "telemetry"}

Seeding(A) == beside = "seed" /\ A /\ UNCHANGED <<engineVars, counterVars, beside>>
Engine(A) == beside = "engine" /\ A /\ UNCHANGED <<vars, counterVars, beside>>
Telemetry(A) == beside = "telemetry" /\ A /\ UNCHANGED <<vars, engineVars, beside>>

MCNext ==
  \/ Engine(E!Next)
  \/ Seeding(Start) \/ Seeding(Kill) \/ Seeding(Script)
  \/ \E a \in App, t \in Tables : Seeding(Work(a, t))
  \/ \E u \in Range(Register) : Seeding(WorkBeside(u)) \/ \E p \in Person : Seeding(Look(p, u))
  \/ \E p \in Person : Seeding(File(p))
  \/ \E c \in complaint : Seeding(AddEvidence(c))
  \/ \E reason \in T!Reason, s \in Source : Telemetry(T!markStaleData(reason, s))
  \/ Telemetry(T!EndSession)
  \/ \E f \in Flush :
       \/ \E n \in {1, MaxAttempts} : Telemetry(T!flushCacheTelemetryNow(f, n))
       \/ Telemetry(T!Retry(f)) \/ Telemetry(T!Record(f)) \/ Telemetry(T!Refuse(f))
       \/ Telemetry(T!Lose(f)) \/ Telemetry(T!Finish(f)) \/ Telemetry(T!Close(f))

MCSpec == MCInit /\ [][MCNext]_MCVars

\* The properties of the engine, stated there.
OneSideToMove == E!OneSideToMove
RecordsAgree == E!RecordsAgree

\* How often copies are shown is reported, and not twice; stated in
\* CacheTelemetry.
ReportsAddUp == T!ReportsAddUp

\* Two flushes differ in nothing.
Symmetry == Permutations(Flush)
=============================================================================
