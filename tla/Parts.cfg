\* Of the threads: two coroutines, four nested C calls, stacks of up to seven frames.
SPECIFICATION Spec
CHECK_DEADLOCK FALSE
CONSTANTS
  CommandLines <- MCCommandLines
  CharIsSigned = TRUE
  MaxLines = 3
  MaxSignals = 3
  MaxResults = 2
  Scripts = 1
  Workers = 2
  FdLimit = 5
  Modes = {"line", "full"}
  Coroutines = {"a", "b"}
  MaxCalls = 5
  MaxCCalls = 4
  CCallsExtra = 2
  BasicStack = 3
  MaxStack = 7
  ErrorStack = 10
  ExtraStack = 1
INVARIANTS
  LastOptionWins ScriptsInOrder NoLineLost NoStopWithoutSignal OutputWritten VerdictTrue AnswersRight
  TableIsMap ErrorsReachInnermost CallsBalanced LibraryRight
  MeansTheSame CodeWellFormed UpvaluesLive MetamethodsMeant ValuesRight
PROPERTIES
  SecondSignalKills TraversalComplete
