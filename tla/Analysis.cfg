SPECIFICATION AnSpec
CONSTANTS
  Frames <- MCFrames
  Limit = 2
  MaxCnt = 4
  MaxFiles = 2
INVARIANTS
  AnTypeOK
  FlowPerConnection
  FlowsCounted
  ServicesCounted
CHECK_DEADLOCK FALSE
