SPECIFICATION Spec
CONSTANTS
  Appenders = {a1, a2}
  Dialers = {d1, d2}
  Expanders = {e1}
  Nobody = Nobody
  MaxChunks = 3
  MayDie = TRUE
  a1 = a1
  a2 = a2
  d1 = d1
  d2 = d2
  e1 = e1
INVARIANTS TypeOK ChunkPositions NothingMissed
CHECK_DEADLOCK FALSE
