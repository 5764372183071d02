CONSTANTS
  MaxReports = 4
  MaxBreaks = 2
SPECIFICATION FairSpec
CHECK_DEADLOCK FALSE
INVARIANTS
  FeedbackTypeOK
  ActsInOrder
  HandedOnesArrive
PROPERTIES
  EventuallySeen
