\* Two overlapping fetches, two catalogues, entries that live 2 ticks, 6 ticks:
\* a fetch may outlive the entry it replaces.
CONSTANTS
    Callers = {r1, r2}
    Tools <- ToolNames
    Catalogues <- TwoCatalogues
    LocalToolSpecs <- DemoSpecs
    NoSpecs = NoSpecs
    UpstreamMode = "local"
    HasPat = FALSE
    CacheTtl = 2
    Epoch = 1
    MaxClock = 6
SPECIFICATION Spec
SYMMETRY CallerNames
INVARIANTS
    TypeOK
    NoticedWithinTtl
