SPECIFICATION FairSpec
CONSTANTS
  Producers = {p1, p2}
  p1 = p1
  p2 = p2
  Crashable = {p1}
  Values = {v1, v2}
  v1 = v1
  v2 = v2
  NoEntry = NoEntry
  QueueSize = 3
  CounterMod = 64
  MaxSpin = 1
  PopGivesUp = TRUE
  MaxPush = 4
INVARIANTS TypeOK NoOverwrite InOrder NoMissedWakeup
PROPERTIES EventuallyPopped ImplementsFifo
CHECK_DEADLOCK FALSE
