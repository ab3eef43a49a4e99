CONSTANTS
  Buses <- RetransmittedBuses
  RetainSlots = 1
  RetainUnits = 3
  MaxRewinds = 2
SPECIFICATION RingSpec
INVARIANTS
  StoreIsReplay
  ExecutedOnce
  PrefixExact
  ResidentExact
  ServesExecuted
CHECK_DEADLOCK FALSE
