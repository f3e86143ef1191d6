CONSTANTS
  Value = {1, 2}
  Junk = Junk
  MaxWrites = 5
SPECIFICATION FairSpec
INVARIANTS Fifo AsleepIsDrained
PROPERTIES FailedReadIsEmpty FlushedIsRead ImplementsPipe
