SPECIFICATION UnitsSpec
CONSTANTS
    StateUnits = {"input", "builder", "sendfile", "server"}
    Jobs <- MCJobs
    Routers <- MCRouters
    Messages <- MCMessages
    Limits <- MCLimits
    Pipeline = 2
    Items <- MCItems
    Codings <- MCCodings
    MaxCalls = 4
    FileSizes = {1, 3, 4}
    PartSizes = {0, 1, 2, 3, 4, 5}
    ChunkSizes = {0, 1, 9}
    DefaultChunk = 2
    MaxChunk = 3
    PoolSize = 3
    Modes = {"signal", "shutdown", "runner"}
    ServerFaults = {"open", "close", "thread"}
INVARIANT FramesExact
INVARIANT FieldsExact
INVARIANT CodecsExact
INVARIANT RoutesExact
INVARIANT PartsExact
INVARIANT RequestsExact
INVARIANT ResponseFramed
INVARIANT FileSentExact
INVARIANT ReturnIsFinal
INVARIANT ClosedOnReturn
PROPERTY AskedEnds
CHECK_DEADLOCK FALSE
