SPECIFICATION Spec
CONSTANTS
  clerk = clerk
  senior = senior
  App = {a1}
  Officer = {clerk, senior}
  Request = {r1}
  Responder = {c1}
  Downloader = {w1}
  Stage <- NdcStage
  StageRole <- NdcRole
  RolesOf <- Roles
  Transition <- NdcTransition
  MaxQueries = 1
  StaleTasks = TRUE
  BlankQueries = TRUE
  MayFail = TRUE
  None = None
SYMMETRY Symmetry
CHECK_DEADLOCK FALSE
INVARIANTS OutputsAccountedFor
PROPERTIES ImplementsLifecycle
