\* Two requests, some of which make the handler raise an exception.
CONSTANTS
    Requests = {r1, r2}
    Messages <- RaisingMessages
    DztModes = {"secure"}
    RawUpstreamMode = "local"
    HasPat = FALSE
    Dids <- Agents
    LocalDids <- AgentsWithFiles
    Keys <- AllKeys
    NoKey = NoKey
    NoMethod = NoMethod
    NoDocument = NoDocument
    InitialDocuments <- Documents1
    Rotations <- NoRotation
    Tools <- ToolNames
    Catalogues <- ServerCatalogue
    LocalToolSpecs <- DemoSpecs
    NoSpecs = NoSpecs
    CacheTtl = 30
    MaxRequestsPerWindow = 3
    WindowSeconds = 2
    RateCleanupInterval = 2
    Jtis = {"j1"}
    NoJti = "none"
    NoTool = "none"
    TicksPerSecond = 2
    CleanupInterval = 2
    DefaultTtl = 10
    Epoch = 2
    MaxClock = 3
SPECIFICATION Spec
SYMMETRY RequestNames
INVARIANTS
    EveryAnswerIsLogged
CHECK_DEADLOCK FALSE
