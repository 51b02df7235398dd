\* Three requests with one token of agent1, a forgery of it, or its token on
\* another body; two ticks to the second, a cleanup every 2 ticks, clock from 2
\* to 13: the token dies at tick 10 and its row at tick 12.
CONSTANTS
    Requests = {r1, r2, r3}
    Messages <- ReplayMessages
    DztModes = {"secure"}
    RawUpstreamMode = "local"
    HasPat = FALSE
    Dids <- Agents
    LocalDids <- AgentsWithFiles
    Keys <- AllKeys
    NoKey = NoKey
    NoMethod = NoMethod
    NoDocument = NoDocument
    InitialDocuments <- Documents1
    Rotations <- NoRotation
    Tools <- ToolNames
    Catalogues <- ServerCatalogue
    LocalToolSpecs <- DemoSpecs
    NoSpecs = NoSpecs
    CacheTtl = 30
    MaxRequestsPerWindow = 3
    WindowSeconds = 2
    RateCleanupInterval = 2
    Jtis = {"j1"}
    NoJti = "none"
    NoTool = "none"
    TicksPerSecond = 2
    CleanupInterval = 2
    DefaultTtl = 10
    Epoch = 2
    MaxClock = 13
SPECIFICATION Spec
SYMMETRY RequestNames
INVARIANTS
    TypeOK
    NoReplayInLifetime
    SpentIsRemembered
    HonestIsServed
CHECK_DEADLOCK FALSE
