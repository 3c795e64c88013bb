SPECIFICATION Spec
CONSTANTS
  main = main
  refresh = refresh
  mdns = mdns
  ptp = ptp
  pdelay = pdelay
  Apps <- TwoApps
  Groups <- AllGroups
  hash_bit <- Bits
  None = None
INVARIANTS
  TypeOK
  FilterMatches
  CarrierWhenUp
SYMMETRY Alike
