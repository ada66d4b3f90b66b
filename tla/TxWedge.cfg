\* The camera is unplugged once, or missing, and every JPEG is good.
SPECIFICATION Spec
CONSTANTS
  EncSlots = 2
  MppFrames = 1
  CameraSize = camera_size
  NoiseSize = noise_size
  CameraFps = camera_fps
  NoiseFps = noise_fps
  MaxCamera = 2
  MaxNoise = 1
  MaxFlips = 1
  MaxBad = 0
  PipeDepth = 1
  Workers = 2
  MaxInflight = 2
PROPERTIES
  FallbackFlows
CHECK_DEADLOCK FALSE
