SPECIFICATION MCSpec
CONSTANTS
  Token = {a1, a2}
  Instance = {i1}
  Request = {b1, b2}
  Node = {a1, a2}
  Evaluator = {e1}
  Life = 2
  CacheTtl = 2
  CodeTtl = 2
  MaxAttempts = 1
  MaxTime = 3
  MaxChanges = 1
  Delay = 1
  MaxUpdates = 1
  Word = {w1, w2}
  CodeLife = 1
  LockTime = 2
  ResetLife = 2
  MaxWrong = 2
  MaxSecrets = 2
  MaxTries = 4
  CitizenTab = {a1, a2}
  OfficerTab = {t3}
  Citizen = {b1, b2}
  Officer = {of}
  MaxSessions = 2
  MaxChecks = 1
  MaxLosses = 1
  Number = {n1, n2}
  MaxClicks = 9
  MaxAsked = 2
  MaxPicks = 7
  Parts <- TwoParts
  Loader = {b1, b2}
  NotOk = NotOk
  MaxLoads = 2
  MaxVisits = 2
  None = None
SYMMETRY Symmetry
INVARIANTS EndedStaysEnded CachesLagBounded SecretsHold PagesActAsShown
CHECK_DEADLOCK FALSE
