SPECIFICATION FairSpec
CONSTANTS
  Ordered = TRUE
  MaxEvents = 2
  MaxPings = 3
INVARIANTS StreamShape EndsCleanly
PROPERTY DisconnectEnds
