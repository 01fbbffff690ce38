SPECIFICATION FairSpec
CONSTANTS
  Archivers = {a1, a2}
  Windows = {"days", "zero"}
  MaxVersion = 3
  MaxImports = 1
  MaxFaults = 1
  MaxCrashes = 1
CHECK_DEADLOCK FALSE
INVARIANTS ArchivedReadable NothingLeftBehind
PROPERTIES UpdatesCurrent OldPagesMove
