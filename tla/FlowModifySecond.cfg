SPECIFICATION FMSpec
CONSTANTS
  TCP = TRUE
  MSS = 3
  Payloads <- Commands
  MaxPkts = 2
INVARIANTS
  ReplacesData
CHECK_DEADLOCK FALSE
