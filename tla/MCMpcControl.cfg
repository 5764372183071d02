CONSTANTS
  Reports <- SomeReports
  Rounding = 10
  MaxUpdates = 8
SPECIFICATION Spec
CHECK_DEADLOCK FALSE
INVARIANTS
  MpcTypeOK
  FewRestarts
PROPERTIES
  BitrateOnlyFalls
  EncoderNotThrottled
