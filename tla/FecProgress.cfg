\* Liveness under the polling thread, no further traffic assumed.
SPECIFICATION MCFairSpec
CONSTANTS
  RingMod = 8
  EvictDist = 1
  DoneMax = 4
  EmitHold = 1
  RxHold = 2
  DoneHold = 2
  Shards = {}
  K = 2
  N = 3
  SduCounts = {1, 2}
  StartIds = {6}
  MaxBlocks = 3
  MaxRestarts = 0
  MaxDelay = 1
  MaxReorder = 1
INVARIANT
  HoldNeedsBlock
PROPERTIES
  HeadHoldEnds
  BlocksSettle
CHECK_DEADLOCK FALSE
