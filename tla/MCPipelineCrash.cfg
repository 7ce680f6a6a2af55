SPECIFICATION Spec
CONSTANTS
  Capacity = 2
  NUM_DATA_SHREDS = 1
  NUM_CODE_SHREDS = 1
  ErasureSets <- MCErasureSets
  StoreSlots <- MCStoreSlots
  Dims <- MCDims
  ShortData <- MCShortData
  TrueParent <- MCTrueParent
  TxCount <- MCTxCount
  GarbledTxs <- MCGarbledTxs
  Opaque <- MCOpaque
  Wide = FALSE
  Tall = TRUE
  Clients = {c1}
  Indexes = {0}
  Methods = {"getSlot", "getProof"}
  MaxBlocks = 2
  MaxCrashes = 1
  MaxFailures = 0
  NULL = NULL
INVARIANTS
  AnnouncedServed
PROPERTIES
  BlockMapSpec
