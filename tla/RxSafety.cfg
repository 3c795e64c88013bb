SPECIFICATION Spec
CONSTANTS
  Pkts = {p1, p2}
  Keys = {k1, k2}
  RX_PENDING_MAX = 1
  TIMEOUT = 1
  HwDepth = 1
  FifoDepth = 2
  Faults <- AnyFault
  None = None
SYMMETRY Symmetric
INVARIANTS
  TypeOK
  RefsBalanced
  StampCorrect
  NoMissedMatch
