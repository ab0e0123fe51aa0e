SPECIFICATION FairSpec
CONSTANTS
  Records <- SomeRecords
  Requests <- SomeRequests
  Kernels <- AllKernels
  FragCap = 3
  MaxLog = 3
  MaxCalls = 2
CHECK_DEADLOCK FALSE
INVARIANTS
  EveryRecordOnce StillLogCounted NothingLeftOver
PROPERTIES MessagesWhole CallEnds
