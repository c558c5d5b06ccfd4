SPECIFICATION Spec
CONSTANTS
  BufferCount = 2
  MaxFrames = 4
INVARIANTS PoolBalanced OneSend FramesInOrder FaultOnlyClosed
PROPERTIES StuckIsClosed CloseReleases
CHECK_DEADLOCK FALSE
