CONSTANTS
  PoolSize = 1
  MaxJobs = 3
  MaxStack = 3
SPECIFICATION Spec
INVARIANT ButtonComesUp
