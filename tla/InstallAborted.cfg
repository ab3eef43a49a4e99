CONSTANTS
  NumSlots = 1
  N = 3
  F = 1
  Transfers = 1
  Arrivals <- ThirdLeaderLoses
  MaxNoOps = 0
  MaxRounds = 0
  RingSize = 3
  MergeFails = FALSE
  Timeouts <- SuspectThrice
  Hears <- LateThird
SPECIFICATION Spec
INVARIANTS
  Durability
CHECK_DEADLOCK FALSE
