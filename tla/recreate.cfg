SPECIFICATION FairSpec
CONSTANTS
  JobCount = 2
  Limit = 1
  Scenarios <- MCScenarios
CHECK_DEADLOCK FALSE
INVARIANTS FinishedJobsHaveTheirPage
PROPERTIES OneTaskAtATime JobsEnd StoppedTasksEnd
