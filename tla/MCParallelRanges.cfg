SPECIFICATION ParSpec
CONSTANTS
  k1 = k1
  k2 = k2
  k3 = k3
  Keys = {k1, k2, k3}
  Inputs <- MCInputs
  W = 2
  NumBlocks = 3
  HashRange = 5
  R = 1
  EmptyRow <- MCEmptyRow
  WindowSizes = {1, 2, 4}
  G = 1
  UsizeMax = 7
  ThreadCounts = {0, 2, 9}
INVARIANTS
  KeysAreBucketed
  MarginPreventsSpills
CHECK_DEADLOCK FALSE
