SPECIFICATION Spec
CONSTANTS
  p1 = p1  p2 = p2  p3 = p3  p4 = p4
  p5 = p5
  MaxWorkers = 2
  Proc = {p1, p2}
  Root = p1
  NoProc = NoProc
  Kits <- LiveKits
  MaxScripts = 2
  AssertCalls <- Calls
  ArgValues <- AnyArg
  MaxFailures = 1
  MaxForks = 1
INVARIANT AllScriptsTried
