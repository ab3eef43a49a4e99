CONSTANTS
  NumSlots = 1
  N = 3
  F = 1
  Transfers = 1
  Arrivals <- NextLeaderLoses
  MaxNoOps = 0
  MaxRounds = 1
  RingSize = 3
  MergeFails = TRUE
  Timeouts <- SuspectTwice
  Hears <- WithoutFirstAfter
SPECIFICATION Spec
PROPERTIES
  StableKept
CHECK_DEADLOCK FALSE
