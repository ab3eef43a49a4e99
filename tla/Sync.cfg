CONSTANTS
  NumSlots = 5
  N = 3
  F = 1
  Transfers = 1
  Arrivals <- FollowerAhead
  View = 0
  MaxNoOps = 1
  MaxRounds = 2
  RingSize = 3
SPECIFICATION SyncSpec
INVARIANTS
  TypeOK
  ExecutedPrefixFilled
  NoOpsFromLeader
  VoteAgreement
  SyncSafety
PROPERTIES
  LeaderAppendOnly
CHECK_DEADLOCK FALSE
