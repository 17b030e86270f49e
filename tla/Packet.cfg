SPECIFICATION PktSpec
CONSTANTS
  B = 4
  V4Head = 1
  V6Head = 2
  TCP = 2
  UDP = 3
  Prefix = 14
  Arrivals <- MCArrivals
  Bindings <- MCBindings
  Numbers <- MCNumbers
  Payloads <- MCPayloads
INVARIANTS
  PktTypeOK
  ReceiverVerifies
  LengthsAgree
CHECK_DEADLOCK FALSE
