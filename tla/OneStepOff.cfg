\* Five steps over two epochs of two batches, three launches of the job.
CONSTANTS
  TotalSteps = 5
  BatchesPerEpoch = 2
  TotalEpochs = 2
  MaxLaunches = 3
  Configs <- MCConfigs
SPECIFICATION Spec
INVARIANTS OneStepLag SkipsOnlyOnResume
PROPERTIES JobEnds
CHECK_DEADLOCK FALSE
