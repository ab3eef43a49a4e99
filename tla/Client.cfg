CONSTANTS
  N = 3
  F = 1
  Width = 2
  MaxTime = 6
  MaxView = 2
  Intervals <- OneThenPause
  Plans <- ThreePlans
SPECIFICATION Spec
INVARIANTS
  HintCertified
  ResumedByGrant
  BusesOnLine
  CommitBacked
  CountedOnce
  StillWatched
CHECK_DEADLOCK FALSE
