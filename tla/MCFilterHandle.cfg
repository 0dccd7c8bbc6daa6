SPECIFICATION Spec
CONSTANTS
  W = 6
  NumBlocks = 3
  HashRange = 14
  XorMask = {0}
  ByteBits = 1
  ResultWidth = 3
  R = 3
  Stride = 2
  LineBytes = 4
  U64 = 64
  UsizeMax = 40
  HeaderLen = 7
  ChecksumLen = 1
  LineLen <- MCLineLen
  ElemLen <- MCElemLen
  Solutions <- MCSolutions
  Probes <- MCProbes
  Batches <- MCBatches
  Vectors <- MCVectors
INVARIANTS
  HandleTypeOK
  AnswersAreOriginal
  BatchAnswersInOrder
  WholeFilterAnswers
  HintsPrecedeReads
  BrokenIsNotPersisted
CHECK_DEADLOCK FALSE
