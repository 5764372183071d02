CONSTANTS
  SeqMod = 7
  MaxHoles = 3
  Window = 2
  MaxSend = 7
  MaxRestarts = 1
  ReportSpacing = 3
SPECIFICATION Spec
CHECK_DEADLOCK FALSE
INVARIANTS
  HolesExact
  RecentLossKept
  HeadFollowsStream
PROPERTIES
  ReportsTruth
  ImplementsLedger
