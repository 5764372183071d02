CONSTANTS
  MaxUnits = 6
  Want = 4
  StdioUnits = 2
  PollTimeout = 1
  SendTime = 1
  FeedbackEvery = 2
  StallLimit = 10
  DrainTime = 3
  ReportEvery = 2
  RecvTimeout = 2
  IdleLimit = 5
  EncoderMayHang = TRUE
  ShortPackets = 1
  PathCap = 1
SPECIFICATION FairSpec
CHECK_DEADLOCK FALSE
INVARIANTS
  TailBounded
  ReportLagsOnlySilence
  QuitsOnTime
PROPERTIES
  BothEnd
