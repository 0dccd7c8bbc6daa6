SPECIFICATION Spec
CONSTANTS
  k1 = k1
  k2 = k2
  k3 = k3
  Keys = {k1, k2, k3}
  Inputs <- MCInputs
  NumStarts = 5
  WindowSizes = {1, 2, 4, 8}
INVARIANTS
  PleatTypeOK
  CursorsStayInRuns
  PleatsStably
CHECK_DEADLOCK FALSE
