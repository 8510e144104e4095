\* The monitor loop ends a pause in the middle of a synchronization.
CONSTANTS
  TotalSamples = 3
  Required = 1
  Trigger = 1
  MaxRequired = 2
  MaxConcurrent = 1
  PendingSize = 4
  Partial = FALSE
  TestFreq = 0
  ValBeforeTrain = FALSE
  MaxFailures = 0
SPECIFICATION Safe
INVARIANTS NoNewTasksWhileSyncing
CHECK_DEADLOCK FALSE
