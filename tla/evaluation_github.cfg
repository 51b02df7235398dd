\* The programs of GitHub mode: the 14 attacks through the proxy, the calls without
\* it, 6 benign calls with a quota of 5, a benchmark with its diagnostics, a call of
\* the client.  The proxy may die, GitHub fail, the client give up.
CONSTANTS
    Requests <- GithubSteps
    Messages <- ProgramMessages
    DztModes = {"secure"}
    RawUpstreamMode = "github"
    HasPat = TRUE
    Dids <- Agents
    LocalDids <- AgentsWithFiles
    Keys = {"k0", "k1"}
    NoKey = "no key"
    NoMethod = "no method"
    NoDocument = "no document"
    InitialDocuments <- Documents1
    Rotations <- NoRotation
    Tools <- ToolNames
    Catalogues <- GithubCatalogue
    LocalToolSpecs <- DemoSpecs
    NoSpecs = NoSpecs
    CacheTtl = 1
    MaxRequestsPerWindow = 5
    WindowSeconds = 60
    RateCleanupInterval = 2
    Jtis <- GithubSteps
    NoJti = 0
    NoTool = "none"
    TicksPerSecond = 1
    CleanupInterval = 2
    DefaultTtl = 600
    Epoch = 2
    MaxClock = 2
    Fresh = 99
    BenignCalls = 6
    Warmups = 1
    Measured = 2
    DirectRepeats = 1
    Unsent <- Nothing
    MaxFailures = 2
SPECIFICATION EvaluationSpec
INVARIANTS
    VerdictsAreCorrect
    EachByItsDefence
    AttacksNeverExecute
    ReportErrsByFailures
CHECK_DEADLOCK FALSE
