CONSTANTS
  StartDelay = 3000
  MinDelay = 1000
  MaxDelay = 100000
  HighCap = 50000
  MildCap = 30000
  Rates <- Thresholds
SPECIFICATION ReactiveFairSpec
INVARIANTS
  PacingTypeOK
PROPERTIES
  SlowsBelowCaps
  Converges
