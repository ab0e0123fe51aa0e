SPECIFICATION MCSpec
CONSTANTS
  Objs = {1, 2, 3, 4, 5, 6}
  Kind <- MCKind
  Heaps <- ManyHeaps
  ModeChanges <- MCModeChanges
  SweepMax = 1
  Fresh = {4}
  MaxFrames = 2
INVARIANT AllWhiteAgain
CHECK_DEADLOCK FALSE
