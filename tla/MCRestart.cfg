SPECIFICATION Spec
CONSTANTS
  Capacity = 2
  NUM_DATA_SHREDS = 1
  NUM_CODE_SHREDS = 1
  ErasureSets <- MCErasureSets
  StoreSlots <- MCStoreSlots
  Dims <- MCDims
  ShortData <- MCShortData
  TrueParent <- MCTrueParent
  TxCount <- MCTxCount
  GarbledTxs <- MCGarbledTxs
  Opaque <- MCOpaque
  Wide = FALSE
  Tall = FALSE
  Clients = {c1}
  Indexes = {0, 1}
  Methods = {"getBlock"}
  MaxBlocks = 2
  MaxCrashes = 1
  MaxFailures = 0
  NULL = NULL
PROPERTY RestartLosesNothing
