\* Two sources of different sizes, a camera that comes and goes, a bad JPEG.
SPECIFICATION Spec
CONSTANTS
  EncSlots = 3
  MppFrames = 2
  CameraSize = camera_size
  NoiseSize = noise_size
  CameraFps = camera_fps
  NoiseFps = noise_fps
  MaxCamera = 3
  MaxNoise = 1
  MaxFlips = 1
  MaxBad = 1
  PipeDepth = 1
  Workers = 2
  MaxInflight = 2
INVARIANTS
  TxTypeOK
  TxInLine
  SlotsKept
  OwnStamp
PROPERTIES
  NewSizeIsIdr
  JpegsMove
  TxStops
CHECK_DEADLOCK FALSE
