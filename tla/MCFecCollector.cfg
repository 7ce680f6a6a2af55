SPECIFICATION FairSpec
CONSTANTS
  NUM_DATA_SHREDS = 3
  NUM_CODE_SHREDS = 1
  ErasureSets <- MCErasureSets
  Dims <- MCDims
  ShortData <- MCShortData
  TrueParent <- MCTrueParent
  Short = {1, 2}
  NULL = NULL
INVARIANTS
  TypeOK
  RecoveredWhenEnough
  WholeIffAllData
PROPERTIES
  EventuallyRecovered
