CONSTANTS
  Ids = {a, b}
  Values = {v, w}
  Depth = 1
  Z = 1
  Losses = FALSE
  WrongHashes = {"check"}
  Retries = TRUE
SPECIFICATION VerifiedSpec
PROPERTY NeverWrong
SYMMETRY Symmetric
CHECK_DEADLOCK FALSE
