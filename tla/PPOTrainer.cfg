\* Two ranks of a group, two steps, from scratch or resumed from step 5.
CONSTANTS
  Ranks = {0, 1}
  Configs <- MCConfigs
  TotalSteps = 2
  CriticWarmup = 1
  Resumed = {5}
SPECIFICATION Spec
INVARIANTS RolloutIsCurrent SampleAlike TrainsOnPolicy
