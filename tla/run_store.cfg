SPECIFICATION FairSpec
CONSTANTS
  Found = {c1}
  Jobs2 = {"review", "offers"}
  MaxTombstones = 1
  Pages = 1
  MaxStops = 1
  MaxRestarts = 1
  MaxFaults = 1
  MaxQueue = 3
CHECK_DEADLOCK FALSE
INVARIANTS DeletedRunStaysGone RunningHasWorker StageHasWorker
PROPERTIES StoppedRunStaysOut ReviewsEnd
