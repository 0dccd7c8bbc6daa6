SPECIFICATION Spec
CONSTANTS
  k1 = k1
  k2 = k2
  k3 = k3
  Keys = {k1, k2, k3}
  Inputs <- MCInputs
  W = 4
  NumBlocks = 2
  HashRange = 4
  XorMask = {0}
  ByteBits = 1
  ResultWidth = 2
  R = 1
  SeedCount = 2
  WindowSizes = {2}
  Arrival = Arrival
INVARIANTS
  StdNoFalseNegatives
PROPERTIES
  StdTerminates
  FirstSolvableSeed
CHECK_DEADLOCK FALSE
