\* Two conversations with up to two tool calls a turn, one search at a time.
CONSTANTS
  Conversations = {c1, c2}
  Servers = {v1, v2}
  ResponseLength = 3
  MaxPiece = 2
  MaxCalls = 2
  MaxParallelCalls = 2
  MaxResponse = 4
  RateLimit = 1
  Configs <- MCConfigs
SPECIFICATION Spec
INVARIANTS OutputAligned Balanced RateLimited
PROPERTIES AllTerminate
CHECK_DEADLOCK FALSE
