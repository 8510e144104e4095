\* staleness_threshold = 0, two training steps to a synchronization; one
\* rollout may raise an exception.
CONSTANTS
  TotalSamples = 6
  Required = 1
  Trigger = 2
  MaxRequired = 2
  MaxConcurrent = 2
  PendingSize = 7
  Partial = FALSE
  TestFreq = 1
  ValBeforeTrain = TRUE
  MaxFailures = 1
SPECIFICATION Spec
INVARIANTS OnPolicy
PROPERTIES Terminates ImplementsFlow
CHECK_DEADLOCK FALSE
