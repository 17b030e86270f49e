SPECIFICATION FMSpec
CONSTANTS
  TCP = TRUE
  MSS = 3
  Payloads <- Commands
  MaxPkts = 4
INVARIANTS
  FMTypeOK
  StreamGapless
PROPERTIES
  AckNeverAhead
CHECK_DEADLOCK FALSE
