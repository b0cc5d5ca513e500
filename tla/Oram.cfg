CONSTANTS
  Ids = {a, b, c}
  Values = {v, w}
  Depth = 2
  Z = 1
  ByteStrings <- EmptyAndZero
  BLOCK_VALUE_LEN = 2
  MAX_NONCE = 6
SPECIFICATION SealedSpec
INVARIANTS OnItsPath OneCopy NeverPanics ReadsAsWritten
PROPERTY IsMap
SYMMETRY Symmetric
CHECK_DEADLOCK FALSE
