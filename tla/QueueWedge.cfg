SPECIFICATION FairSpec
CONSTANTS
  Producers = {p1, p2}
  p1 = p1
  p2 = p2
  Crashable = {p1}
  Values = {v1, v2}
  v1 = v1
  v2 = v2
  NoEntry = NoEntry
  QueueSize = 3
  CounterMod = 64
  MaxSpin = 1
  PopGivesUp = FALSE
  MaxPush = 3
PROPERTIES SurvivorsServed
CHECK_DEADLOCK FALSE
