SPECIFICATION Spec
CONSTANTS
  Records <- TwoRecords
  Requests <- OneRequest
  Kernels <- NewKernel
  FragCap = 3
  MaxLog = 4
  MaxCalls = 1
CHECK_DEADLOCK FALSE
INVARIANT FragmentsTruncated
