SPECIFICATION Spec
CONSTANTS
  W = 14
  NumBlocks = 2
  HashRange = 15
  XorMask = {0}
  ByteBits = 7
  ResultWidth = 7
  R = 7
  Stride = 2
  LineBytes = 8
  U64 = 64
  UsizeMax = 60
  HeaderLen = 7
  ChecksumLen = 1
  LineLen <- MCLineLen
  ElemLen <- MCElemLen
  Solutions <- MCSolutions
  Probes <- MCProbes
  Batches <- MCBatches
  Vectors <- MCVectors
INVARIANTS
  HintsCoverEveryRead
CHECK_DEADLOCK FALSE
