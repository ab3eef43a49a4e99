CONSTANTS
  N = 3
  F = 1
  Clients = {1, 2}
  ExpectedClients = 2
  MaxWindows = 2
  Plans <- ThreePlans
  MaxView = 3
SPECIFICATION Spec
INVARIANTS
  SlotsAgree
  ChosenKept
  GrantsBacked
PROPERTIES
  ImplementsHistory
CHECK_DEADLOCK FALSE
