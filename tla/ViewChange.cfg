CONSTANTS
  NumSlots = 2
  N = 3
  F = 1
  Transfers = 1
  Arrivals <- LeaderLoses
  MaxNoOps = 0
  MaxRounds = 0
  RingSize = 3
  MergeFails = FALSE
  Timeouts <- AnySuspects
  Hears <- Everyone
SPECIFICATION Spec
INVARIANTS
  OlderViewsLeft
  Linearizability
  Durability
CHECK_DEADLOCK FALSE
