CONSTANTS
  Request = {r1, r2, r3}
  Downstream = 2
  MaxStarts = 3
SPECIFICATION CameraSpec
INVARIANTS RequestsAccounted
PROPERTIES RequestsReturn StopCompletes
CHECK_DEADLOCK FALSE
