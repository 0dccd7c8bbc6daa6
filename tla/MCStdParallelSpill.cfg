SPECIFICATION ParSpec
CONSTANTS
  k1 = k1
  k2 = k2
  k3 = k3
  Keys = {k1, k2, k3}
  Inputs <- MCInputs
  W = 4
  NumBlocks = 2
  HashRange = 5
  XorMask = {0}
  ByteBits = 1
  ResultWidth = 1
  R = 1
  SeedCount = 1
  WindowSizes = {2}
  Arrival = Arrival
  G = 1
  UsizeMax = 15
  ThreadCounts = {2}
INVARIANTS
  StdParTypeOK
  StdWorkersInBand
  StdParEquationsPreserved
PROPERTIES
  FirstSolvableSeed
CHECK_DEADLOCK FALSE
