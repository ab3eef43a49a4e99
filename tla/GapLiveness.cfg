CONSTANTS
  NumSlots = 2
  N = 3
  F = 1
  Transfers = 1
  Arrivals <- Scattered
  View = 0
  MaxNoOps = 2
  MaxRounds = 1
  RingSize = 3
SPECIFICATION FairSpec
PROPERTIES
  GapsClose
CHECK_DEADLOCK FALSE
