CONSTANTS
  PoolSize = 2
  MaxJobs = 3
  MaxStack = 3
SPECIFICATION Spec
INVARIANTS
  SlotOwnership
  OneStream
  LeavingClosesMicrophone
  FlagTellsMicrophone
  RecognitionSettles
