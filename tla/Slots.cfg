CONSTANTS
  Clients = {1, 2}
  Window = 4
  MaxWindows = 2
  Intervals = {0, 2, 3}
  MaxInstalls = 3
SPECIFICATION Spec
INVARIANTS
  SlotIsRank
  OwnerSendsThere
  CursorInStep
CHECK_DEADLOCK FALSE
