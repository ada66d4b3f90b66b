\* A decoded block behind two holes is not released.
SPECIFICATION MCFairSpec
CONSTANTS
  RingMod = 8
  EvictDist = 2
  DoneMax = 4
  EmitHold = 1
  RxHold = 2
  DoneHold = 2
  Shards = {}
  K = 2
  N = 3
  SduCounts = {2}
  StartIds = {6}
  MaxBlocks = 3
  MaxRestarts = 0
  MaxDelay = 1
  MaxReorder = 2
PROPERTIES
  ReadyReleased
CHECK_DEADLOCK FALSE
