SPECIFICATION Spec
CONSTANTS
  NULL = NULL
  NUM_DATA_SHREDS = 3
  NUM_CODE_SHREDS = 2
  ErasureSets <- MCErasureSets
  Dims <- MCDims
  ShortData <- MCShortData
  TrueParent <- MCTrueParent
  PayloadLen = 2
  HeaderLens = {0, 1}
  ProofSizes = {0, 6, 15}
  PacketLens = {0, 4, 5, 64, 69, 86, 87, 91, 92, 93, 132, 140, 1207, 1228, 1231, 1232, 1300}
  SizeFields = {0, 87, 88, 89, 100, 1171, 1203, 1228, 65535}
  Lengths = {0, 1, 127, 128, 129, 255, 16383, 16384, 65535}
  MaxEntries = 3
  MaxTransactions = 1
  Transactions <- MCTransactions
  MaxStream = 2
  MaxPerEntry = 2
  Ports = {0, 8001, 60000}
  MaxSockets = 3
  ValueSizes = {68, 121}
  MaxValues = 4
INVARIANTS
  FieldTables
  DecodeAsAssumed
  ReceivedAsSent
  InBounds
  WholeEntries
  DecodeHonest
  SocketsAgree
  ReceivedAsSigned
