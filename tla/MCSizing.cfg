SPECIFICATION SizeSpec
CONSTANTS
  U64 = 1000000000
  UsizeMax = 1000000
  HeaderLen = 32
  ChecksumLen = 8
  MantissaBits = 8
  MaxKeys = 700
  TableTypes <- MCTypes
INVARIANTS
  TableFits
CHECK_DEADLOCK FALSE
