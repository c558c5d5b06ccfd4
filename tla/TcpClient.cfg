SPECIFICATION Spec
CONSTANTS
  MaxQueue = 2
  MaxTimeouts = 1
  MaxStarts = 3
INVARIANTS NeverAbandoned OneConnection Sending FaultOnlyRaced
PROPERTIES StopCompletes
CHECK_DEADLOCK FALSE
