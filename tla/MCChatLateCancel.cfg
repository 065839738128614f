SPECIFICATION Spec
CONSTANTS
  a1 = a1
  a2 = a2
  b = b
  t1 = t1
  t2 = t2
  Jobs = {a1, a2, b}
  Workers = {w1, w2}
  Turns = {t1, t2}
  KindOf <- MCKindOf
  TurnOf <- MCTurnOf
  NoJob = NoJob
  NoTurn = NoTurn
  Stop = Stop
  AutoFixRetries = 0
  MaxRetries = 1
  MaxRestarts = 0
SYMMETRY Symmetry
INVARIANT OneConversation
CHECK_DEADLOCK FALSE
