SPECIFICATION PtpTraffic
CONSTANTS
  Pkts = {p1, p2}
  Keys = {k1, k2}
  RX_PENDING_MAX = 2
  TIMEOUT = 1
  HwDepth = 1
  FifoDepth = 1
  Faults <- NoFault
  None = None
PROPERTIES
  PoolRecovers
  PendingReleased
