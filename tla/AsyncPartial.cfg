\* Partial rollout: a pause interrupts the tasks; one rollout may raise an
\* exception.
CONSTANTS
  TotalSamples = 3
  Required = 1
  Trigger = 1
  MaxRequired = 2
  MaxConcurrent = 2
  PendingSize = 1
  Partial = TRUE
  TestFreq = 0
  ValBeforeTrain = FALSE
  MaxFailures = 1
SPECIFICATION Safe
INVARIANTS SampleInOnePlace SilentWhileLoading StreamComplete
CHECK_DEADLOCK FALSE
