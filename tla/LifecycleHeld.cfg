CONSTANTS
    Names = {na, nb}
    Sessions = {s1, s2}
    Conns = {c1, c2}
    Blocks = {b1, b2}
    None = None
    MaxNodes = 3
    MaxTotalSlots = 2
    MaxHops = 2
    Windows = {"held"}
SPECIFICATION Spec
INVARIANTS StripesKept
CHECK_DEADLOCK FALSE
