SPECIFICATION Spec
CONSTANTS
  RustNodes = {n2}
  AllocFails = FALSE
  Retries = TRUE
  Panics = TRUE
  MaxHops = 2
  MaxExpand = 1
  QueueCap = 1
  Conns = {c1, c2}
  Nodes = {n1, n2}
  Slots = {s1, s2}
  Blocks = {b1, b2, b3}
  Chans = {d1, d2}
  NoSlot = NoSlot
  NoBlock = NoBlock
  NoConn = NoConn
  NoChan = NoChan
  NoNode = NoNode
  NoHop = NoHop
  User = User
  c1 = c1
  c2 = c2
  n1 = n1
  n2 = n2
  s1 = s1
  s2 = s2
  b1 = b1
  b2 = b2
  b3 = b3
  d1 = d1
  d2 = d2
SYMMETRY Symmetry
INVARIANTS HandedBack TaskOwns BlocksExact MetadataHandedBack SlotsExact 
PROPERTIES ImplementsOwnership
CHECK_DEADLOCK FALSE
