CONSTANTS
  MaxThreads = 2
  Route <- Pair
  MaxBatch = 2
  MaxRead = 2
  MaxSent = 3
  MaxCreated = 3
SPECIFICATION FairSpec
INVARIANTS NoLostSignal WakeupsMatch
PROPERTIES MessagesArrive
CHECK_DEADLOCK FALSE
