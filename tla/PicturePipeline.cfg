SPECIFICATION Spec
CONSTANTS
  Buffers = 3
  MaxFrames = 4
  MaxErrors = 3
  MaxCloses = 1
INVARIANTS Accounted TornOnlyWhenExhausted
PROPERTY PoolRefills
