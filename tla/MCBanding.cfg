SPECIFICATION Spec
CONSTANTS
  k1 = k1
  k2 = k2
  k3 = k3
  Keys = {k1, k2, k3}
  Inputs <- MCInputs
  W = 3
  NumBlocks = 2
  HashRange = 5
  R = 2
  EmptyRow <- MCEmptyRow
  WindowSizes = {2}
INVARIANTS
  TypeOK
  RowsInBand
  EquationsPreserved
  NoFalseNegatives
PROPERTIES
  Terminates
  BitIdentical
CHECK_DEADLOCK FALSE
