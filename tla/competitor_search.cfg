SPECIFICATION Spec
CONSTANTS
  p1 = p1
  p2 = p2
  p3 = p3
  Pages = {p1, p2, p3}
  Settings <- MCSettings
  Target = 2
  RelaxAt = 1
  Floor = 2
  WideCap = 2
  PlannedQueries = 1
  RingQueries = 1
  WideQueries = 1
  ReviewAhead = 1
  ResponsePages = 3
CHECK_DEADLOCK FALSE
INVARIANTS BoundsKept LocalsFirst RejectedForGood NothingLeftUntried
PROPERTIES SearchEnds
