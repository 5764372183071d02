CONSTANTS
  FrameUnits = 3
  FrameLens = {3}
  InCap = 2
  OutCap = 4
  ReadMax = 2
  MaxOut = 2
  MaxTail = 2
  MayFail = FALSE
  Terminal = TRUE
  MaxRestarts = 2
SPECIFICATION FairSpec
CHECK_DEADLOCK FALSE
PROPERTIES
  ExitsInOrder
