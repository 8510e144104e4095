\* Both drivers, rotation off or down to two checkpoints, three launches.
CONSTANTS
  Ranks = {0, 1}
  TotalSteps = 3
  SaveFreq = 2
  Drivers = {"ppo", "sft"}
  Keeps = {0, 2}
  MaxLaunches = 3
SPECIFICATION Spec
INVARIANTS TrackedComplete RotationBounds StuckOnlyWhenTorn
PROPERTIES ImplementsSnapshot
CHECK_DEADLOCK FALSE
