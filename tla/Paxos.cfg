SPECIFICATION Spec
CONSTANTS
  N = 3
  F = 1
  Leader = 0
  MaxInstances = 2
  Plans <- ThreePlans
  MaxInFlight = 4
INVARIANTS
  ExecutedAgree
  AnsweredStored
PROPERTIES
  BallotsRise
CHECK_DEADLOCK FALSE
