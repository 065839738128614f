SPECIFICATION LiveSpec
CONSTANTS
  a1 = a1
  a2 = a2
  b = b
  t1 = t1
  t2 = t2
  Jobs = {a1, a2}
  Workers = {w1}
  Turns = {t1}
  KindOf <- MCKindOf
  TurnOf <- MCTurnOf
  NoJob = NoJob
  NoTurn = NoTurn
  Stop = Stop
  AutoFixRetries = 1
  MaxRetries = 1
  MaxRestarts = 1
INVARIANT InterruptRequested
PROPERTY ChatEnds
CHECK_DEADLOCK FALSE
