SPECIFICATION FairSpec
CONSTANTS
  l1 = l1
  l2 = l2
  b1 = b1
  b2 = b2
  None = None
  MaxBroadcasts = 2
  Listeners = {l1, l2}
  Broadcasters = {b1, b2}
INVARIANTS SameOrder ReturnedReachedAll NoneLeaked
PROPERTY BroadcastEnds
