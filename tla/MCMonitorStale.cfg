CONSTANTS
  StaleAfter = 3
  MaxStats = 2
  MaxFetches = 2
  MaxStops = 0
SPECIFICATION FairSpec
PROPERTIES
  SilenceShown
