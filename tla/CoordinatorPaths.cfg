CONSTANTS
  Q = 5
  NumParticipants = 3
  Threshold = 2
  Draws <- TwoDraws
  Inconsistent = {3}
  Garbled <- FirstToSecond
  Unfounded <- Lies
  NoShare = NoShare
SPECIFICATION CoordinatorSpec
INVARIANTS PathsAgree
CHECK_DEADLOCK FALSE
