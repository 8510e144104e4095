\* One sample of two responses and two servers, two synchronizations.
CONSTANTS
  Samples = {s1}
  Copies = 2
  Servers = {v1, v2}
  ResponseLength = 2
  MaxResponse = 3
  MaxVersion = 2
SPECIFICATION Spec
INVARIANTS TokensAligned VersionSpan EndsOnce
PROPERTIES SyncEnds
CHECK_DEADLOCK FALSE
