SPECIFICATION MCSpec
CONSTANTS
  Handler = {h1, h2}
  Order = {o1, o2}
  Attempt = {g1, g2}
  Totals = {0, 2}
  Amounts = {1, 2}
  MaxDemands = 1
  MaxPayments = 3
  SharedOrders = TRUE
  Declines = TRUE
  Withdrawals = TRUE
  d1 = d1
  d2 = d2
  Due = {d1, d2}
  DueDay <- DueDays
  Base <- Prices
  Rate <- Rates
  Seeded = {1, 3}
  SeededOn = {0, 2}
  MaxDay = 3
  MaxPostings = 5
  Officer = {f1, f2}
  Photo = {p1, p2, p3}
  MaxEvidence = 2
  MaxCases = 5
  None = None
SYMMETRY Symmetry
INVARIANTS DemandBooksBalance CreditsAreBacked PostedIsSettled EvidenceKept
PROPERTIES OutcomesAreFinal
CHECK_DEADLOCK FALSE
