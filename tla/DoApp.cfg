SPECIFICATION AppSpec
CONSTANTS
  Prefix <- MCPrefix
  PoolAddr <- MCPoolAddr
  MinPort = 1
  MaxPort = 3
  Dest4 = {}
  T = 2
  Keys <- MCKeys
  Protocols <- MCProtocols
  Conns <- MCConns
  Contents <- MCContents
  MaxPkts = 3
INVARIANTS
  AppTypeOK
  AnnouncedReachable
  OthersUnharmed
  CommandsParsed
PROPERTIES
  ProtocolStable
  PacketsFinish
CHECK_DEADLOCK FALSE
