CONSTANTS
  PoolSize = 3
  MaxActive = 2
  Cancelable = TRUE
  MaxId = 4
SPECIFICATION Spec
INVARIANTS SlotOwnership NoLostWakeup SearchSucceeds
PROPERTIES ToldOnce
