SPECIFICATION FairSpec
CONSTANTS
  RustNodes = {}
  AllocFails = TRUE
  Retries = TRUE
  Panics = FALSE
  MaxHops = 2
  MaxExpand = 2
  QueueCap = 1
  Conns = {c1}
  Nodes = {n1, n2}
  Slots = {s1}
  Blocks = {b1, b2, b3, b4}
  Chans = {d1}
  NoSlot = NoSlot
  NoBlock = NoBlock
  NoConn = NoConn
  NoChan = NoChan
  NoNode = NoNode
  NoHop = NoHop
  User = User
  c1 = c1
  n1 = n1
  n2 = n2
  s1 = s1
  b1 = b1
  b2 = b2
  b3 = b3
  b4 = b4
  d1 = d1
 
PROPERTIES NextReturns
CHECK_DEADLOCK FALSE
