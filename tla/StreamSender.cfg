\* Producer, send thread and control thread, all properties but liveness.
SPECIFICATION MCSpec
CONSTANTS
  RingMod = 4
  Configs <- Settings
  Sizes = {1, 2}
  Timeout = TRUE
  PacketCap = 2
  ByteLimit = 3
  SeqRange = 2
  FirstIds = {3}
  Deadlines = {"later"}
  MaxInputs = 3
  MaxOpens = 1
  MaxConfigures = 1
INVARIANTS
  TypeOK
  QueueBound
  QueueBytesExact
  EncodedOnceInOrder
  GateStops
PROPERTIES
  SequenceHasNoHoles
  KeepsBlockStream
CHECK_DEADLOCK FALSE
