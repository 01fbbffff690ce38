SPECIFICATION RunSpec
CONSTANTS
  Users = {u1}
  PeriodIds = {p1, p2}
  ReservationIds = {r1, r2}
  CallKeys = {k1, k2}
  Amounts <- MCAmounts
  Allowances = {3, 4}
  Adjustments <- MCAdjustments
  Limits = {2}
  Budgets = {4}
  Scopes = {other}
  Accounts = {"user"}
  TopUpMultiple = 2
  AllowanceBound = 4
  AdjustmentBound = 1
  HoldBound = 0
  Ceiling = 2
  InitialHold = 2
  Budget = 4
  Costs = {3}
  Incurred = {}
  MaxParallel = 1
  LiveHoldsLapse = TRUE
  DatabaseErrs = FALSE
  HandBound = 1
SYMMETRY IdSymmetry
CHECK_DEADLOCK FALSE
INVARIANTS SpendBounded

