SPECIFICATION MCSpec
CONSTANTS
  Edit = {e1}
  Other = {o1}
  MaxRows = 2
  MaxCalls = 2
  MaxFaults = 1
  MaxClicks = 3
  None = None
  Arn = {a1, a2}
  Stages = 2
  Doc = {d1, d2}
  Me = me
  Colleague = other
  MaxTasks = 2
  MaxLosses = 1
  MaxOpened = 3
  Filter = {all, new}
  Earlier = 2
  MaxFiled = 4
CHECK_DEADLOCK FALSE
INVARIANTS ShowsWhatItNames FiledOnce
PROPERTIES OverwritesOnlyFetched SavingConverges
