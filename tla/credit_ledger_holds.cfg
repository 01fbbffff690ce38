SPECIFICATION Spec
CONSTANTS
  Users = {u1}
  PeriodIds = {p1, p2, p3}
  ReservationIds = {r1, r2}
  CallKeys = {k1}
  Amounts = {1, 2}
  Allowances = {2}
  Adjustments = {}
  Limits = {1}
  Budgets = {2}
  Scopes = {other}
  Accounts = {"user", "inactive"}
  TopUpMultiple = 2
  AllowanceBound = 2
  AdjustmentBound = 0
  HoldBound = 2
SYMMETRY IdSymmetry
CHECK_DEADLOCK FALSE
INVARIANTS HoldsAreBacked ChargedOnce
PROPERTIES ImplementsPurse
