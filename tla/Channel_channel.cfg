SPECIFICATION FairSpec
CONSTANTS
    u = u
    b = b
    Chans = {u, b}
    Procs = {p, q}
    NoProc = NoProc
    Cap <- Capacities
    Menu <- FullMenu
    MaxOps = 3
INVARIANT TypeOK
INVARIANT NoPanic
INVARIANT FlagCoversClose
PROPERTY ImplementsChannelSpec
PROPERTY CloseUnblocks
CHECK_DEADLOCK FALSE
