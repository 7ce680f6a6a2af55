SPECIFICATION Spec
CONSTANTS
  A = A
  B = B
  Me = Me
  NULL = NULL
  Keys <- MCKeys
  Values <- MCValues
  Self = Me
  Entrypoint = "e"
  PruneAge = 900
  Clocks <- MCClocks
  Attempts = 2
  Waits = 2
  ChannelCap = 1
  MaxValues = 2
  MaxChain = 2
PROPERTIES
  PrunedWhenOld
