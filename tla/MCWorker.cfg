CONSTANTS
  c1 = c1
  c2 = c2
  c3 = c3
  w1 = w1
  w2 = w2
  Client = {c1, c2, c3}
  WorkerThread = {w1, w2}
  TableSize = 2
  Scenario <- Scenarios
SPECIFICATION FairSpec
INVARIANTS SlotsConserved SignalsMatch LoneClientIsServed
PROPERTIES WaitReturns
CHECK_DEADLOCK FALSE
