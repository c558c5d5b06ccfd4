SPECIFICATION Spec
CONSTANTS
  HeaderSize = 2
  MaxSize = 2
  Sizes = {0, 1, 4, 5}
  BufferCount = 1
  PipeSize = 3
  MaxFrames = 3
  MaxBreaks = 1
INVARIANTS InStep PoolBalanced
PROPERTIES Implements FramesArrive
CHECK_DEADLOCK FALSE
