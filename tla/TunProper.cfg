SPECIFICATION TunSpec
CONSTANTS
  Prefix <- MCPrefix
  PoolAddr <- MCPoolAddr
  MinPort = 1
  MaxPort = 3
  T = 2
  QMAX = 1
  MaxPkts = 4
  Clients <- ProperClients
  Strays <- ProperStrays
  Keys <- ProperKeys
  Dest4 <- ProperDest4
CHECK_DEADLOCK FALSE
INVARIANTS
  FlowAffinity
  KeyedByClientAndServer
PROPERTIES
  InOrder
  ServiceImplemented
