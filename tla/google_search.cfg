SPECIFICATION Spec
CONSTANTS
  a1 = a1
  a2 = a2
  a3 = a3
  s1 = s1
  s2 = s2
  Advertisers = {a1, a2, a3}
  Sites = {s1, s2}
  Settings <- MCSettings
  Workers = {w1, w2}
  Target = 2
  StepChecks = 2
  WebChecks = 2
  SponsoredChecks = 1
  NameQueries = 1
CHECK_DEADLOCK FALSE
INVARIANTS ListSound LocalsFirst SitesPaidOnce NothingLeftUntried
PROPERTIES SearchEnds
