SPECIFICATION FairRunSpec
CONSTANTS
  Users = {u1}
  PeriodIds = {p1}
  ReservationIds = {r1}
  CallKeys = {k1, k2}
  Amounts <- MCAmounts
  Allowances = {2}
  Adjustments = {}
  Limits = {2}
  Budgets = {2}
  Scopes = {other}
  Accounts = {"user", "admin"}
  TopUpMultiple = 2
  AllowanceBound = 2
  AdjustmentBound = 0
  HoldBound = 0
  Ceiling = 2
  InitialHold = 2
  Budget = 2
  Costs = {3}
  Incurred = {1}
  MaxParallel = 2
  LiveHoldsLapse = TRUE
  DatabaseErrs = TRUE
  HandBound = 0
CHECK_DEADLOCK FALSE
INVARIANTS SpendBounded
PROPERTIES HoldsComeBack SentCallsAreRecorded UnknownOutcomeKeepsHold
