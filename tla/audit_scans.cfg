SPECIFICATION FairSpec
CONSTANTS
  App = {a1, a2}
  Writer = {w1}
  Scanner = {s1, s2}
  EventsAfter = {1}
  MaxTasks = 3
  MaxFailures = 1
  None = None
INVARIANTS ChainIsLinear OneBreachPerTask
PROPERTIES ImplementsLog OverdueIsNoticed
CHECK_DEADLOCK FALSE
