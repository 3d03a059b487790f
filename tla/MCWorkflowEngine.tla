-------------------------- MODULE MCWorkflowEngine --------------------------
(* The workflow engine on two packs: the two-stage registration of an      *)
(* architect for the races, and the three-stage no-due certificate.        *)
EXTENDS WorkflowEngine, TLC

Packs == INSTANCE ServicePacks

CONSTANTS clerk, senior

ArchitectStage == DOMAIN Packs!ArchitectRole
ArchitectRole == Packs!ArchitectRole
ArchitectTransition == Packs!RegistrationOfArchitect

NdcStage == DOMAIN Packs!NdcRole
NdcRole == Packs!NdcRole
NdcTransition == Packs!NoDueCertificate

\* One officer posted as clerk, one with every role of the pack.
Roles == (clerk :> {"CLERK"}) @@ (senior :> {StageRole[s] : s \in Stage})

Symmetry == Permutations(Request) \cup Permutations(Responder)
              \cup Permutations(Downloader)
=============================================================================
