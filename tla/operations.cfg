SPECIFICATION MCSpec
CONSTANTS
  clerk = clerk
  senior = senior
  Application = {a1}
  Officer = {clerk, senior}
  Request = {r1}
  Responder = {c1}
  Stage <- DpcStage
  StageRole <- DpcRole
  RolesOf <- Roles
  Transition <- DpcTransition
  MaxQueries = 2
  StaleTasks = FALSE
  BlankQueries = FALSE
  MayFail = TRUE
  None = None
  citizen = citizen
  upn = upn
  Citizen = {citizen}
  Outsider = outsider
  Register <- Upns
  UpnsOf <- CitizenUpns
  Plan <- TwoApplications
  LockerOf <- Lockers
  Seeded = 1
  Restart = 2
  MaxRuns = 2
  MaxUses = 2
  Source = {s1}
  All = All
  Flush = {f1, f2}
  MaxAttempts = 2
  MaxDelta = 1
  MaxSources = 1
  MaxMarks = 2
  MaxFlushes = 3
  MaxEnds = 1
SYMMETRY Symmetry
CHECK_DEADLOCK FALSE
INVARIANTS OneSideToMove RecordsAgree SeedingIsRepeatable ReportsAddUp
