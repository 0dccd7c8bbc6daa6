SPECIFICATION ParSpec
CONSTANTS
  k1 = k1
  k2 = k2
  k3 = k3
  Keys = {k1, k2, k3}
  Inputs <- MCInputs
  W = 3
  NumBlocks = 2
  HashRange = 4
  R = 1
  EmptyRow <- MCEmptyRow
  WindowSizes = {1, 2, 8}
  G = 1
  UsizeMax = 15
  ThreadCounts = {2}
INVARIANTS
  ParTypeOK
  WorkersInBand
  ParEquationsPreserved
PROPERTIES
  ParTerminates
  BitIdentical
CHECK_DEADLOCK FALSE
