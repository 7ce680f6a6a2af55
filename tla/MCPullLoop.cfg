SPECIFICATION FairSpec
CONSTANTS
  WordBits = 3
  PacketSize = 48
  TagSize = 4
  MinItems = 32
  MaxItems <- MCMaxItems
  FilterSize <- MCFilterSize
  Peers = {p, q}
  Entrypoint = e
  Own = me
  CallerSizes = {6, 29}
  Attempts = 2
  Windows = 2
  Sleep = 2
  PullEvery <- MCPullEvery
  PruneEvery <- MCPruneEvery
  RoundBits = 2
INVARIANTS
  TypeOK
  FitsPacket
  RotationCovers
PROPERTIES
  PeersCovered
CHECK_DEADLOCK FALSE
