SPECIFICATION FairSpec
CONSTANTS
  Users = {u1, u2}
  u1 = u1
  u2 = u2
  NoUser = NoUser
  WordBits = 2
  WordsPerChunk = 1
  MaxChunks = 2
  Counts = {1, 3}
  MaxCalls = 2
INVARIANTS TypeOK NoSharedBlock BitmapExact ExactGrant
PROPERTIES CallsReturn
CHECK_DEADLOCK FALSE
