SPECIFICATION GrSpec
CONSTANTS
  Ip6Sizes <- MCIp6Sizes
  PortSizes <- MCPortSizes
  Ip4Size = 5
  Port4Size = 2
  Lengths <- MCLengths
  Tags <- MCTags
  MaxMedia = 1
  MaxLines = 7
INVARIANTS
  OpsFit
  ContentLengthRight
  LinksFound
CHECK_DEADLOCK FALSE
