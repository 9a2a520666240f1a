CONSTANTS
  MaxConcurrent = 1
  MaxTasks = 3
SPECIFICATION FairSpec
INVARIANT PoolAccounted
INVARIANT NeverExhausted
INVARIANT WorkConserving
PROPERTY ImplementsTransferQueue
PROPERTY CancelEnds
PROPERTY EveryTaskEnds
CHECK_DEADLOCK FALSE
