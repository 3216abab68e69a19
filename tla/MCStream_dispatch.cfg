CONSTANTS
  Byte <- MCByte
  Header <- MCHeader
  EnvSize <- MCSize
  Frames <- MCFrames
  Noise = {0}
  MaxSent = 3 MaxLost = 0 MaxInjected = 0
SPECIFICATION Spec
INVARIANTS EveryEnvelopeDispatched
CHECK_DEADLOCK FALSE
