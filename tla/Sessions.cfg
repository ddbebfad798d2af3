CONSTANTS
    Hubs = {h1, h2}
    None = None
    Kinds = {"go", "rust"}
    GoWindows = {}
    RustWindows = {"overlap", "slowloop"}
    MaxCmds = 2
    MaxChunks = 2
SPECIFICATION FairSpec
INVARIANTS  OneConsumer SessionChunks   
PROPERTIES Served
CHECK_DEADLOCK FALSE
