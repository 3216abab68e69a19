CONSTANTS
  Byte <- MCByte
  Header <- MCHeader
  EnvSize <- MCSize
  Frames <- MCFrames
  Noise = {0}
  MaxSent = 3 MaxLost = 1 MaxInjected = 1
SPECIFICATION Spec
INVARIANTS TypeOK NeverInvalid HeaderFound InOrder Resync
CHECK_DEADLOCK FALSE
