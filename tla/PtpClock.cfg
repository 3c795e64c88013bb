SPECIFICATION Spec
CONSTANTS
  ptp = ptp
  shell = shell
  Threads <- TwoThreads
  Calls <- Users
  NSEC = 2
  WRAP = 4
  Times <- SetTimes
  Increments <- Steps
  Trims <- Rates
  RATE_MASK = 1
  Latency = 2
INVARIANTS
  TypeOK
  ReadConsistent
  PulsesSustained
PROPERTIES
  LoadExact
