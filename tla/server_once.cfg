\* Five tokens, two of them with one jti; two ticks to the second, a cleanup every
\* 2 ticks, clock from 2 to 12: every token and every row dies within the run.
CONSTANTS
    Tokens <- FiveTokens
    Asked = {"echo", "read_file"}
    Dids = {"agent1", "agent2"}
    Keys = {"k0", "k1", "k2"}
    NoKey = "no key"
    InitialKeys <- FirstKeys
    NoJti = "none"
    Jtis = {"j1", "j2"}
    TicksPerSecond = 2
    CleanupInterval = 2
    DefaultTtl = 10
    MaxUses = 2
    Epoch = 2
    MaxClock = 12
SPECIFICATION Spec
INVARIANTS
    TypeOK
    AcceptedIsRemembered
    RunningIsUnused
PROPERTIES
    KeepsPromise
