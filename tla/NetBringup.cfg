SPECIFICATION Spec
CONSTANTS
  mdns = mdns
  ptp = ptp
  MaxEvents = 3
  MaxRefs = 4
  MaxFaults = 2
INVARIANTS
  RejoinReports
PROPERTIES
  StaysReachable
  BoundAgain
CHECK_DEADLOCK FALSE
