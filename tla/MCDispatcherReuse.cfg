CONSTANTS
  MaxThreads = 2
  Route <- Pair
  MaxBatch = 2
  MaxRead = 2
  MaxSent = 2
  MaxCreated = 3
SPECIFICATION Spec
INVARIANT SleepsOnlyWhenEmpty
CHECK_DEADLOCK FALSE
