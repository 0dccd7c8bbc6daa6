SPECIFICATION ParSpec
CONSTANTS
  k1 = k1
  k2 = k2
  k3 = k3
  Keys = {k1, k2, k3}
  Inputs <- MCInputs
  W = 2
  NumBlocks = 3
  HashRange = 5
  XorMask = {}
  ByteBits = 1
  ResultWidth = 1
  R = 1
  SeedCount = 2
  WindowSizes = {2}
  Arrival = Arrival
  G = 1
  UsizeMax = 7
  ThreadCounts = {0, 2, 3}
INVARIANTS
  StdMarginPreventsSpills
PROPERTIES
  StdParTerminates
  FirstSolvableSeed
CHECK_DEADLOCK FALSE
