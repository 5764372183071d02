CONSTANTS
  MaxPkts = 3
  MaxConns = 2
  TcpCap = 3
  MAX_BUFFERED_PKTS = 2
  UdpCap = 2
  ErrlistReports = TRUE
SPECIFICATION Spec
CHECK_DEADLOCK FALSE
INVARIANTS
  GenuineOnly
