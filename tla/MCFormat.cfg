SPECIFICATION Spec
CONSTANTS
  Base = 8
  WordLen = 2
  WordBits = 6
  U64 = 64
  UsizeMax = 31
  HeaderLen = 10
  ChecksumLen = 2
  FnvOffset = 21
  FnvPrime = 11
  RawSeed <- MCRawSeed
  Families <- MCFamilies
  Built <- MCBuilt
  Foreign <- MCForeign
INVARIANTS
  RoundTrip
  DamageIsDetected
  AcceptedIsSound
CHECK_DEADLOCK FALSE
