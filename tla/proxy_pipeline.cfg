\* Two requests at once, each with one of 13 messages, in GitHub mode with a PAT
\* and in secure or baseline mode; one call per agent and window.  The key of
\* webagent and the tools of GitHub may change, and the proxy may restart in the
\* other mode.
CONSTANTS
    Requests = {r1, r2}
    Messages <- PipelineMessages
    DztModes = {"secure", "baseline"}
    RawUpstreamMode = "github"
    HasPat = TRUE
    Dids <- Agents
    LocalDids <- AgentsWithFiles
    Keys <- AllKeys
    NoKey = NoKey
    NoMethod = NoMethod
    NoDocument = NoDocument
    InitialDocuments <- Documents1
    Rotations <- WebRotation
    Tools <- ToolNames
    Catalogues <- TwoGithubCatalogues
    LocalToolSpecs <- DemoSpecs
    NoSpecs = NoSpecs
    CacheTtl = 30
    MaxRequestsPerWindow = 1
    WindowSeconds = 2
    RateCleanupInterval = 2
    Jtis = {"j1", "j2"}
    NoJti = "none"
    NoTool = "none"
    TicksPerSecond = 1
    CleanupInterval = 2
    DefaultTtl = 10
    Epoch = 2
    MaxClock = 3
SPECIFICATION Spec
SYMMETRY RequestNames
INVARIANTS
    
    Mediation
    AuditMatchesAnswers
    HonestIsServed
CHECK_DEADLOCK FALSE
