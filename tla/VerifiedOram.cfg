CONSTANTS
  Ids = {a, b}
  Values = {v}
  Depth = 2
  Z = 1
  Losses = TRUE
  WrongHashes = {"check"}
  Retries = FALSE
SPECIFICATION VerifiedSpec
INVARIANT HonestServerAccepted
PROPERTY NeverWrong
SYMMETRY Symmetric
CHECK_DEADLOCK FALSE
