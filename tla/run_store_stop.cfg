SPECIFICATION Spec
CONSTANTS
  Found = {c1}
  Jobs2 = {"review"}
  MaxTombstones = 1
  Pages = 1
  MaxStops = 1
  MaxRestarts = 0
  MaxFaults = 0
  MaxQueue = 3
CHECK_DEADLOCK FALSE
PROPERTIES StopHolds
