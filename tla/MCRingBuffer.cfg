SPECIFICATION Spec
CONSTANTS
  Capacity = 3
  Slots <- MCSlots
  Bodies = {a, b}
  NULL = NULL
INVARIANTS
  TypeOK
  WindowInv
  GetReturnsLastPut
  LostOnlyToStalePut
PROPERTIES
  CacheSpec
