SPECIFICATION Spec
CONSTANTS
  Users = {u1, u2}
  PeriodIds = {p1, p2, p3}
  ReservationIds = {r1}
  CallKeys = {}
  Amounts = {1}
  Allowances = {1}
  Adjustments <- MCAdjustments
  Limits = {1}
  Budgets = {2}
  Scopes = {other, recreate}
  Accounts = {"user", "admin"}
  TopUpMultiple = 2
  AllowanceBound = 1
  AdjustmentBound = 1
  HoldBound = 2
SYMMETRY IdSymmetry
CHECK_DEADLOCK FALSE
INVARIANTS LedgerExplainsBalances
PROPERTIES HoldsAreFunded
