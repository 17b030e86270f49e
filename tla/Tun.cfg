SPECIFICATION TunFairSpec
CONSTANTS
  Prefix <- MCPrefix
  PoolAddr <- MCPoolAddr
  MinPort = 1
  MaxPort = 1
  T = 2
  QMAX = 1
  MaxPkts = 3
  Clients <- AnyClients
  Strays <- AnyStrays
  Keys <- AnyKeys
  Dest4 <- AnyDest4
CHECK_DEADLOCK FALSE
INVARIANTS
  TunTypeOK
  QueueBound
  Conserved
  SentByBinding
PROPERTIES
  CrashCauses
  StateManagerImplemented
  EveryPacketHandled
