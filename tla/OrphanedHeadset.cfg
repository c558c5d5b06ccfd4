CONSTANTS
  ReaderAddr = {1, 2}
  WriterAddr = {3, 4}
  MaxSessions = 4
  Strategies = {"none"}
SPECIFICATION Spec
INVARIANT RemovedWriterHasConnection
CONSTRAINT ServerRunning
