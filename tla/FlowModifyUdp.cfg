SPECIFICATION FMSpec
CONSTANTS
  TCP = FALSE
  MSS = 3
  Payloads <- Messages
  MaxPkts = 1
INVARIANTS
  SplicedExactly
CHECK_DEADLOCK FALSE
