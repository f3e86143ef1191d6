CONSTANTS
  Thread = {t1, t2, t3, t4}
  Value = {1}
  MaxPushes = 4
  Ref = {a, b, c}
  MaxEdges = 3
  Sizes = {1, 2, 3, 5}
  MaxMessages = 5
  MaxActions = 2
  MaxRuns = 3
  MaxUndos = 2
SPECIFICATION ServicesSpec
INVARIANTS NoLostWakeup GraphIsAsked OrdersAreRight RunsAreRounds DoneIsPrefix
PROPERTIES SleepersAreServed RoundsRun AnswerIsTrue CallsReturn
CHECK_DEADLOCK FALSE
