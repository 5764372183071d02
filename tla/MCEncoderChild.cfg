CONSTANTS
  FrameUnits = 3
  FrameLens = {2, 3, 4}
  InCap = 2
  OutCap = 4
  ReadMax = 2
  MaxOut = 3
  MaxTail = 2
  MayFail = TRUE
  Terminal = TRUE
  MaxRestarts = 2
SPECIFICATION FairSpec
CHECK_DEADLOCK FALSE
INVARIANTS
  FramesAligned
  HandlesAgree
  WedgedOnlyWhenBehind
PROPERTIES
  StopsWhenTold
