\* One sender that is never restarted, with eviction within reach.
SPECIFICATION MCSpec
CONSTANTS
  RingMod = 8
  EvictDist = 1
  DoneMax = 4
  EmitHold = 1
  RxHold = 2
  DoneHold = 2
  Shards = {}
  K = 2
  N = 3
  SduCounts = {2}
  StartIds = {6}
  MaxBlocks = 4
  MaxRestarts = 0
  MaxDelay = 1
  MaxReorder = 1
INVARIANTS
  LinkTypeOK
  QueueShape
PROPERTIES
  NoDuplicate
  LossIsFinal
  CompleteBlocksInOrder
CHECK_DEADLOCK FALSE
