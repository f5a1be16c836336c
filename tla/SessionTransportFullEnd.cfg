SPECIFICATION Spec
CHECK_DEADLOCK FALSE
CONSTANTS
  MaxChunks = 5
  MaxFrame = 4
  InputSize <- MCInputSize
  HighWater <- MCHighWater
  LowWater <- MCLowWater
  OutputSize <- MCOutputSize
INVARIANT NoAudioDropped
