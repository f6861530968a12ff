SPECIFICATION FairTraceSpec
CONSTANTS
  Sync0 = 1
  Sync1 = 2
  Ids = {3, 4, 5, 6, 7, 8}
  MaxArgs = 2
  Events <- MCEvents
  Reports <- MCReports
  Flukes <- MCFlukes
  FifoSize = 1
  MaxRecords = 2
  MaxUpsets = 2
  MaxLost = 1
INVARIANTS
  LockInv
  DecodesTheLog
  FaultIsDecoded
PROPERTIES
  NeverStalls
CHECK_DEADLOCK FALSE
