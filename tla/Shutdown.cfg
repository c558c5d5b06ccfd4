CONSTANTS
  ReaderAddr = {1, 2}
  WriterAddr = {3, 4}
  MaxSessions = 3
  Strategies = {"none", "timer", "select"}
SPECIFICATION Spec
PROPERTIES ShutdownCompletes
