SPECIFICATION Spec
CONSTANTS
  Servers = {s1, s2}
  TableCount = 2
  Keep = 1
  Day = 2
  MaxMinute = 2
  MaxSuffix = 2
  MaxVersion = 2
  Limits <- MCLimits
SYMMETRY MCSymmetry
CHECK_DEADLOCK FALSE
INVARIANTS FoldersSound RestoredIsWhole ScheduleGoesOn
PROPERTIES NewestKept WritersKeepTheirParts
