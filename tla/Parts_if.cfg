SPECIFICATION IfSpec
CHECK_DEADLOCK FALSE
CONSTANTS
  CommandLines <- MCCommandLines
  CharIsSigned = TRUE
  MaxLines = 3
  MaxSignals = 3
  MaxResults = 2
  Scripts = 1
  Workers = 2
  FdLimit = 5
  Modes = {"line", "full"}
  Coroutines = {"a", "b"}
  MaxCalls = 5
  MaxCCalls = 4
  CCallsExtra = 2
  BasicStack = 3
  MaxStack = 7
  ErrorStack = 10
  ExtraStack = 1
INVARIANT GotosReachLabels
