SPECIFICATION Spec
CONSTANTS
  UseFixedPort = TRUE
  MaxMessages = 2
  MaxFailures = 1
  MaxStarts = 2
INVARIANTS
  OneChain
  MessagesInOrder
  OneWrite
PROPERTIES
  StopCompletes
CHECK_DEADLOCK FALSE
