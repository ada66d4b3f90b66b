\* A restarted sender: ids ahead, behind and equal to the old ones.
SPECIFICATION MCSpec
CONSTANTS
  RingMod = 8
  EvictDist = 1
  DoneMax = 4
  EmitHold = 1
  RxHold = 2
  DoneHold = 2
  Shards = {}
  K = 2
  N = 3
  SduCounts = {2}
  StartIds = {0, 3, 6}
  MaxBlocks = 3
  MaxRestarts = 1
  MaxDelay = 0
  MaxReorder = 1
PROPERTIES
  ResumesAfterSilence
  SilenceStartsAfresh
CHECK_DEADLOCK FALSE
