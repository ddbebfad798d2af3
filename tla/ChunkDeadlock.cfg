SPECIFICATION FairSpec
CONSTANTS
  Appenders = {a1}
  Dialers = {d1}
  Expanders = {}
  Nobody = Nobody
  MaxChunks = 2
  MayDie = FALSE
  a1 = a1
  d1 = d1
PROPERTIES CallsReturn
CHECK_DEADLOCK FALSE
