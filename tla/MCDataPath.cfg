CONSTANTS
  MaxPkts = 4
  MaxConns = 2
  TcpCap = 3
  MAX_BUFFERED_PKTS = 2
  UdpCap = 2
  ErrlistReports = TRUE
SPECIFICATION FairSpec
CHECK_DEADLOCK FALSE
INVARIANTS
  DataTypeOK
  AtMostOnce
  GenuineUnlessTorn
  SteadyTunnelLosesNothing
PROPERTIES
  ImplementsRelay
  DrainsOncePaused
  ComesBack
