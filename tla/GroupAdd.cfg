CONSTANTS
  Capacity = 4
  Members = {f, a, b, c}
  Founder = f
  LeaversStay = FALSE
  MaxTraffic = 4
SYMMETRY Symmetric
SPECIFICATION Spec
INVARIANT InvitedCanJoin
CHECK_DEADLOCK FALSE
