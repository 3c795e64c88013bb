SPECIFICATION Transmitter
CONSTANTS
  ptp = ptp
  stack = stack
  Senders <- TwoSenders
  Sends <- Roles
  SeqMod = 3
  ATTEMPTS = 2
  WireDepth = 1
  CapDepth = 1
  RxDepth = 2
  SemMax = 2
  MaxFaults = 1
  None = None
INVARIANTS
  TypeOK
  Undisturbed
  StampOwn
PROPERTIES
  Realigns
  SendsReturn
  FramesServed
