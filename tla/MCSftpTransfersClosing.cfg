CONSTANTS
  MaxConcurrent = 2
  MaxTasks = 3
SPECIFICATION Spec
INVARIANT ClosingCancelsAll
CHECK_DEADLOCK FALSE
