SPECIFICATION FileSpec
CONSTANTS
  r1 = r1
  r2 = r2
  MaxSize = 3
  ChunkSize = 2
  MaxRanges = 2
  Scenarios <- TheScenarios
INVARIANTS AsRequested NothingElse EndsOnce
CHECK_DEADLOCK FALSE
