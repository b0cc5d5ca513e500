CONSTANTS
  Capacity = 4
  Members = {f, a, b, c}
  Founder = f
  LeaversStay = FALSE
  MaxTraffic = 5
SYMMETRY Symmetric
SPECIFICATION Spec
INVARIANTS Agreement PathsHeld RemovedLearnNothing RecordsRead
CHECK_DEADLOCK FALSE
