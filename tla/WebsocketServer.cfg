CONSTANTS
  Key = {k1, k2}
  MaxSessions = 3
SPECIFICATION Spec
INVARIANTS MapsExact
PROPERTIES StopClosesAll
CHECK_DEADLOCK FALSE
