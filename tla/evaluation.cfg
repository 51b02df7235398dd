\* The programs of local mode: the 13 attacks through the proxy, the 8 without it,
\* 8 benign calls with a quota of 7, a benchmark, a call of the client.  The proxy
\* may die and the local server fail.  The whole takes less than a tick: nothing
\* expires meanwhile.
CONSTANTS
    Requests <- LocalSteps
    Messages <- ProgramMessages
    DztModes = {"secure"}
    RawUpstreamMode = "local"
    HasPat = FALSE
    Dids <- Agents
    LocalDids <- AgentsWithFiles
    Keys = {"k0", "k1"}
    NoKey = "no key"
    NoMethod = "no method"
    NoDocument = "no document"
    InitialDocuments <- Documents1
    Rotations <- NoRotation
    Tools <- ToolNames
    Catalogues <- ServerCatalogue
    LocalToolSpecs <- DemoSpecs
    NoSpecs = NoSpecs
    CacheTtl = 1
    MaxRequestsPerWindow = 7
    WindowSeconds = 60
    RateCleanupInterval = 2
    Jtis <- LocalSteps
    NoJti = 0
    NoTool = "none"
    TicksPerSecond = 1
    CleanupInterval = 2
    DefaultTtl = 600
    Epoch = 2
    MaxClock = 2
    Fresh = 99
    BenignCalls = 8
    Warmups = 1
    Measured = 2
    DirectRepeats = 2
    Unsent <- Nothing
    MaxFailures = 2
SPECIFICATION EvaluationSpec
INVARIANTS
    EvaluationTypeOK
    VerdictsAreCorrect
    EachByItsDefence
    AttacksNeverExecute
    ReportErrsByFailures
PROPERTIES
    EvaluationEnds
    WaitsEnd
CHECK_DEADLOCK FALSE
