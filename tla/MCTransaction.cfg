CONSTANTS
  MaxActions = 2
  MaxRuns = 2
  MaxUndos = 1
SPECIFICATION FairTransactionSpec
INVARIANT UndoesOnlyWhatWasDone
CHECK_DEADLOCK FALSE
