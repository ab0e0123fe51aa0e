SPECIFICATION MCSpec
CONSTANTS
  Objs = {1, 2, 3, 4, 5, 6}
  Kind <- MCKind
  Heaps <- MCHeaps
  ModeChanges <- MCModeChanges
  SweepMax = 2
  Fresh = {4}
  MaxFrames = 2
INVARIANTS
  NothingDangling MarksHold
PROPERTIES
  OnlyLost GarbageFreed
CHECK_DEADLOCK FALSE
