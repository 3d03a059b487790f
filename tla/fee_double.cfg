SPECIFICATION Spec
CONSTANTS
  Handler = {h1, h2}
  Order = {o1}
  Attempt = {g1}
  Totals = {2}
  Amounts = {1}
  MaxDemands = 1
  MaxPayments = 2
  SharedOrders = TRUE
  Declines = FALSE
  Withdrawals = FALSE
  None = None
SYMMETRY Symmetry
CHECK_DEADLOCK FALSE
INVARIANTS OneSettlementPerCapture
