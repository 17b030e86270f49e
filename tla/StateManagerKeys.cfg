SPECIFICATION SMSpec
CONSTANTS
  Prefix <- MCPrefix
  PoolAddr <- MCPoolAddr
  MinPort = 1
  MaxPort = 2
  Dest4 <- MCDest4
  T = 2
  Keys <- MCKeys
INVARIANT
  KeyedByClientAndServer
