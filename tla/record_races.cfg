SPECIFICATION MCSpec
CONSTANTS
  r1 = r1
  r2 = r2
  plan = plan
  deed = deed
  App = {a1}
  DocType = {t1, t2}
  Request = {r1, r2}
  Officer = {o1}
  NameOf <- Names
  UnlockedTypes = {t1}
  MaxContents = 2
  MaxLinks = 3
  None = None
  Card = {c1, c2}
  Pan = {p1}
  MaxProfile = 3
  Arn = {a1, a2}
  Upn = {u1, u2}
  MaxProperty = 4
  MaxFetches = 2
  MaxLosses = 1
SYMMETRY Symmetry
INVARIANTS FilesMatchRows VerifiedAsInspected DocumentInForce VerifiedAsConfirmed SubmittedIsLinked SavesWhatWasTyped DocumentsShownAsNamed
CHECK_DEADLOCK FALSE
