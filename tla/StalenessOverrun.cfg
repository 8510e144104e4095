\* staleness_threshold = 1: the sample that the processor holds while a pause
\* lasts is not counted when the new version begins.
CONSTANTS
  TotalSamples = 4
  Required = 1
  Trigger = 1
  MaxRequired = 2
  MaxConcurrent = 2
  PendingSize = 1
  Partial = FALSE
  TestFreq = 0
  ValBeforeTrain = FALSE
  MaxFailures = 0
SPECIFICATION Safe
INVARIANTS StalenessThreshold
CHECK_DEADLOCK FALSE
