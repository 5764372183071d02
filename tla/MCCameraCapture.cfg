CONSTANTS
  BufCount = 3
  MaxFrames = 4
  Lengths <- EmptyFrames
  OpenMayFail = TRUE
  DeviceMayGo = TRUE
SPECIFICATION FairSpec
CHECK_DEADLOCK FALSE
INVARIANTS
  ExclusiveBuffers
  FrameIntact
  MappedWhileUsed
  NoBufferLost
PROPERTIES
  ImplementsQueue
  FramesFlow
  StopTerminates
