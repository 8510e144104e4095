\* Stale samples allowed, tasks run to their end on a pause; one
\* rollout may raise an exception.
CONSTANTS
  TotalSamples = 4
  Required = 1
  Trigger = 1
  MaxRequired = 2
  MaxConcurrent = 2
  PendingSize = 2
  Partial = FALSE
  TestFreq = 1
  ValBeforeTrain = TRUE
  MaxFailures = 1
SPECIFICATION Safe
INVARIANTS PauseQuiesces NoLostWakeup StalenessCounts StreamComplete ValidationInOrder
CHECK_DEADLOCK FALSE
