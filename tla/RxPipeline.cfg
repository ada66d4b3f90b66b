\* Two access units with losses, a second packer, and a stop at any moment.
SPECIFICATION Spec
CONSTANTS
  SeqRange = 16
  Seqs = {6, 14}
  Clock = 6
  Fps = 3
  MaxUnits = 2
  MaxPackers = 2
  MaxLost = 1
  PendingCap = 4
  QueueDepth = 2
  DepayDepth = 1
  AuDepth = 1
  PresentDepth = 1
  MaxReady = 1
  RingSize = 2
  PullPasses = 4
  MppIn = 1
  MppOut = 1
INVARIANTS
  RxTypeOK
  InLine
  NoMixing
  WholeUnitsComeOut
  OwnCapture
  NothingLeft
PROPERTIES
  HoldingEnds
  Stops
CHECK_DEADLOCK FALSE
