\* Liveness: a short stream through one open() and close().
SPECIFICATION MCFairSpec
CONSTANTS
  RingMod = 4
  Configs <- Settings
  Sizes = {1}
  Timeout = TRUE
  PacketCap = 2
  ByteLimit = 3
  SeqRange = 1
  FirstIds = {3}
  Deadlines = {"never"}
  MaxInputs = 2
  MaxOpens = 1
  MaxConfigures = 1
PROPERTIES
  PartialBlockLeaves
  CloseReturns
CHECK_DEADLOCK FALSE
