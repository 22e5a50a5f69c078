SPECIFICATION UnitsSpec
CONSTANTS
    StateUnits = {}
    Jobs <- MCNumberJobs
    Routers <- MCRouters
    Messages <- MCMessages
    Limits <- MCLimits
    Pipeline = 2
    Items <- MCItems
    Codings <- MCCodings
    MaxCalls = 4
    FileSizes = {1, 3, 4}
    PartSizes = {0, 1, 2, 3, 4, 5}
    ChunkSizes = {0, 1, 9}
    DefaultChunk = 2
    MaxChunk = 3
    PoolSize = 3
    Modes = {"signal", "shutdown", "runner"}
    ServerFaults = {"open", "close", "thread"}
INVARIANT OverflowNoticed
CHECK_DEADLOCK FALSE
