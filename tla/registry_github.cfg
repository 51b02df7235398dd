\* GitHub mode with a PAT.  GitHub never changes its tools, a query may fail.
CONSTANTS
    Callers = {r1, r2}
    Tools <- ToolNames
    Catalogues <- GithubCatalogue
    LocalToolSpecs <- DemoSpecs
    NoSpecs = NoSpecs
    UpstreamMode = "github"
    HasPat = TRUE
    CacheTtl = 2
    Epoch = 1
    MaxClock = 1
SPECIFICATION FairSpec
PROPERTIES
    RegistryRecovers
CHECK_DEADLOCK FALSE
