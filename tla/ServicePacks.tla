---------------------------- MODULE ServicePacks ----------------------------
(***************************************************************************)
(* The workflow of a service pack (src/service-packs/<key>/workflow.json): *)
(* the task states in the order an application visits them, the system     *)
(* role that owns each one, and the transitions.  A transitionId such as   *)
(* SR_ASSISTANT_FORWARD is represented by its suffix (FORWARD) together    *)
(* with `from`, the pair takeActionOnTask resolves it by.  An absent       *)
(* allowedActorTypes admits every actor type; an absent                    *)
(* allowedSystemRoleIds is the empty set of roles.                         *)
(***************************************************************************)
EXTENDS Naturals, Sequences

ActorType == {"CITIZEN", "OFFICER", "SYSTEM"}
TaskAction == {"FORWARD", "QUERY", "APPROVE", "REJECT"}

\* A transition a person takes by hand / one the API fires itself.
Manual(name, from, to, actorTypes, roles, actions) ==
  [name |-> name, from |-> from, to |-> to, trigger |-> "manual",
   actorTypes |-> actorTypes, roles |-> roles, actions |-> actions]
System(name, from, to, actions) ==
  [name |-> name, from |-> from, to |-> to, trigger |-> "system",
   actorTypes |-> ActorType, roles |-> {}, actions |-> actions]

\* What the officer holding the i-th stage may do: ask the citizen, reject,
\* and hand the file on or, at the last stage, approve it.
StageTransitions(stages, roleOf, i) ==
  LET ByOfficer(name, to, actions) ==
        Manual(name, stages[i], to, ActorType, {roleOf[stages[i]]}, actions)
  IN {ByOfficer("QUERY", "QUERY_PENDING", {"RAISE_QUERY"}),
      ByOfficer("REJECT", "REJECTED", {"RECORD_DECISION"}),
      IF i < Len(stages)
        THEN ByOfficer("FORWARD", stages[i + 1], {"ASSIGN_NEXT_TASK"})
        ELSE ByOfficer("APPROVE", "APPROVED", {"RECORD_DECISION"})}

\* A whole pack.  clerkActions are the actions of ASSIGN_CLERK, which four
\* packs leave out although the state it enters requires a task.
Pack(stages, roleOf, clerkActions) ==
  {Manual("SUBMIT", "DRAFT", "SUBMITTED", {"CITIZEN"}, {}, {}),
   System("ASSIGN_CLERK", "SUBMITTED", stages[1], clerkActions),
   Manual("QUERY_RESPOND", "QUERY_PENDING", "RESUBMITTED", {"CITIZEN"}, {}, {}),
   System("RESUBMIT_ROUTE", "RESUBMITTED", stages[1], {"ASSIGN_NEXT_TASK"}),
   System("CLOSE_APPROVED", "APPROVED", "CLOSED", {}),
   System("CLOSE_REJECTED", "REJECTED", "CLOSED", {})}
  \cup UNION {StageTransitions(stages, roleOf, i) : i \in DOMAIN stages}

\* The role of each stage, from two parallel sequences.
RoleMap(stages, roles) ==
  [s \in {stages[i] : i \in DOMAIN stages} |->
     roles[CHOOSE i \in DOMAIN stages : stages[i] = s]]

NdcStages == <<"PENDING_AT_CLERK", "PENDING_AT_SR_ASSISTANT_ACCOUNTS",
               "PENDING_AT_ACCOUNT_OFFICER">>
NdcRole == RoleMap(NdcStages, <<"CLERK", "SENIOR_ASSISTANT", "ACCOUNT_OFFICER">>)
NoDueCertificate == Pack(NdcStages, NdcRole, {"ASSIGN_NEXT_TASK"})

ArchitectStages == <<"PENDING_AT_CLERK", "PENDING_AT_DRAFTSMAN">>
ArchitectRole == RoleMap(ArchitectStages, <<"CLERK", "DRAFTSMAN">>)
RegistrationOfArchitect ==
  Pack(ArchitectStages, ArchitectRole, {"ASSIGN_NEXT_TASK"})

DpcStages == <<"PENDING_AT_CLERK", "PENDING_AT_JUNIOR_ENGINEER">>
DpcRole == RoleMap(DpcStages, <<"CLERK", "JUNIOR_ENGINEER">>)
DpcCertificatePrivateProperty == Pack(DpcStages, DpcRole, {})
=============================================================================
