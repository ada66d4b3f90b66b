\* Blocks overtake each other between fec_mu and the queue.
SPECIFICATION MCSpec
CONSTANTS
  RingMod = 4
  Configs <- Settings
  Sizes = {1}
  Timeout = TRUE
  PacketCap = 2
  ByteLimit = 3
  SeqRange = 1
  FirstIds = {3}
  Deadlines = {"never"}
  MaxInputs = 2
  MaxOpens = 1
  MaxConfigures = 1
PROPERTIES
  BlocksLeaveInOrder
CHECK_DEADLOCK FALSE
