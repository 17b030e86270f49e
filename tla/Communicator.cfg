SPECIFICATION CommFairSpec
CONSTANTS
  Sizes <- AnySizes
  EndPositions <- AnyEnds
  MaxPkts = 3
  MaxOps = 2
CHECK_DEADLOCK FALSE
INVARIANTS
  CommTypeOK
  HandOff
  DeletedOnlyQuits
PROPERTIES
  SessionImplemented
  ProcessReturns
