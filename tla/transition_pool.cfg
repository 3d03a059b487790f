SPECIFICATION FairSpec
CONSTANTS
  App = {a1, a2}
  Request = {r1, r2, r3}
  PoolMax = 2
  MaxMoves = 2
  MaxWork = 4
  None = None
INVARIANTS AllOrNothing
PROPERTIES EveryRequestEnds
CHECK_DEADLOCK FALSE
