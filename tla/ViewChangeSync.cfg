CONSTANTS
  NumSlots = 2
  N = 3
  F = 1
  Transfers = 1
  Arrivals <- Split
  MaxNoOps = 1
  MaxRounds = 1
  RingSize = 3
  MergeFails = TRUE
  Timeouts <- NextSuspects
  Hears <- WithoutFirst
SPECIFICATION Spec
INVARIANTS
  TypeOK
  ExecutedPrefixFilled
  StartViewsAgree
CHECK_DEADLOCK FALSE
