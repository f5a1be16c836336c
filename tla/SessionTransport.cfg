SPECIFICATION FairSpec
CHECK_DEADLOCK FALSE
CONSTANTS
  MaxChunks = 5
  MaxFrame = 4
  InputSize <- MCInputSize
  HighWater <- MCHighWater
  LowWater <- MCLowWater
  OutputSize <- MCOutputSize
INVARIANTS OnlyDisplacedIsDropped NoGapWhileRunning
PROPERTIES PausedClientResumes EndReturns
