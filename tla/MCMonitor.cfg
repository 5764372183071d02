CONSTANTS
  StaleAfter = 3
  MaxStats = 3
  MaxFetches = 2
  MaxStops = 1
SPECIFICATION FairSpec
INVARIANTS
  SnapshotWhole
PROPERTIES
  PageFollows
