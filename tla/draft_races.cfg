SPECIFICATION MCSpec
CONSTANTS
  s1 = s1
  s2 = s2
  f1 = f1
  f2 = f2
  None = None
  App = {a1}
  Session = {s1, s2}
  Field = {f1, f2}
  Value = {0, 1}
  Submittable <- MCSubmittable
  MaxVersion = 7
  MaxQueries = 2
  Upn = {u1, u2}
  Listed = {u1}
  Arn = {b1, b2}
INVARIANTS LockedFieldsKept FormsKeepWhatWasTyped PaymentsAsShown
PROPERTIES NothingOverwritten
SYMMETRY MCSymmetry
CHECK_DEADLOCK FALSE
