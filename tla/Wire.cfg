SPECIFICATION Spec
CONSTANTS
  MaxBitmapBytes = 2
  maxSlotListLen = 2
  MaxStateEntries = 2
  MaxScheduleLen = 2
  MaxScheduleHistoryLen = 2
  Readers <- AllReaders
  Plans <- AllPlans
  WriteCount <- LinkWriteCount
  ByteCount <- LinkByteCount
  NextMessage <- LinkNextMessage
  MaxConns = 2
  MaxBreaks = 1
CHECK_DEADLOCK FALSE
INVARIANTS DeliveredWhole NothingStuck GivesUpRightly OneToken
PROPERTIES RetiredRightly
