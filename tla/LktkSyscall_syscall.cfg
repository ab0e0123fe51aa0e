SPECIFICATION Spec
CONSTANTS
  t1 = t1  t2 = t2
  b1 = b1  b2 = b2  b3 = b3
  Table = {t1, t2}
  Blob = {b1, b2, b3}
  None = None
  Wide = "wide"
  Content <- Contents
  Numbers <- SomeNumbers
  IntMax = 3
  MaxArgs = 3
  MaxCalls = 2
SYMMETRY Symmetry
CHECK_DEADLOCK FALSE
INVARIANTS
  PointersAnchored PointersDistinct ResultsReachTables
  PaddedCallsReturn
