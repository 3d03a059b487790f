SPECIFICATION FairSpec
CONSTANTS
  clerk = clerk
  senior = senior
  App = {a1}
  Officer = {clerk, senior}
  Request = {r1, r2}
  Responder = {c1}
  Downloader = {}
  Stage <- ArchitectStage
  StageRole <- ArchitectRole
  RolesOf <- Roles
  Transition <- ArchitectTransition
  MaxQueries = 1
  StaleTasks = FALSE
  BlankQueries = FALSE
  MayFail = FALSE
  None = None
CHECK_DEADLOCK FALSE
INVARIANTS NoDeadEnd DecisionMatchesDisposal
PROPERTIES ClaimsAreFinal DecidedEventuallyClosed
