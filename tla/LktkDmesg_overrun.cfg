SPECIFICATION FairSpec
CONSTANTS
  Records <- TwoRecords
  Requests <- OneRequest
  Kernels <- NewKernel
  FragCap = 8
  MaxLog = 3
  MaxCalls = 1
CHECK_DEADLOCK FALSE
PROPERTY ReadsToEnd
