SPECIFICATION FairSpec
CONSTANTS
  Capacity = 2
  NUM_DATA_SHREDS = 1
  NUM_CODE_SHREDS = 1
  ErasureSets <- MCErasureSets
  StoreSlots <- MCStoreSlots
  Dims <- MCDims
  ShortData <- MCShortData
  TrueParent <- MCTrueParent
  TxCount <- MCTxCount
  GarbledTxs <- MCGarbledTxs
  Opaque <- MCOpaque
  Wide = TRUE
  Tall = FALSE
  Clients = {c1}
  Indexes = {0, 1}
  Methods = {"getSlot", "getBlock", "getProof", "getTransactionByIndex", "stats"}
  MaxBlocks = 2
  MaxCrashes = 0
  MaxFailures = 1
  NULL = NULL
INVARIANTS
  TypeOK
  HotColdAgree
  ServedWhole
  AnnouncedServed
  SnapshotSettled
PROPERTIES
  NobodyWaits
