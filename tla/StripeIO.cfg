CONSTANTS
    BlockSize = 2
    HeaderCap = 7
    Chunks = 2
    BlocksPerChunk = 3
    Byte = {0, 1, 2}
    Zero = 0
    Payloads <- MCPayloads
    Offsets = {0, 3}
    Limit = 6
    MaxLen = 5
    MaxOps = 5
SPECIFICATION Spec
INVARIANTS ReadsFile ViewsFile BlocksKept
CHECK_DEADLOCK FALSE
