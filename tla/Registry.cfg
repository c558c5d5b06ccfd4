CONSTANTS
  ReaderAddr = {1, 2}
  WriterAddr = {3, 4}
  MaxSessions = 4
  Strategies = {"select"}
SPECIFICATION Spec
INVARIANTS OneFeedPerHeadset FeedsCurrentSession EveryHeadsetRouted
PROPERTIES RoutesFrames UnregisteredByItself
CONSTRAINT ServerRunning
