\* Two agents, at most two calls per window of 3 ticks, five calls, cleanup every
\* 4 ticks: a cleanup may fall inside a window or between two of them, and so may a
\* restart.
CONSTANTS
    Calls = {c1, c2, c3, c4, c5}
    Dids = {agent1, agent2}
    MaxRequestsPerWindow = 2
    WindowSeconds = 3
    CleanupInterval = 4
    Epoch = 4
    MaxClock = 11
    MaxRestarts = 1
SPECIFICATION RestartsSpec
SYMMETRY CallNames
INVARIANTS
    TypeOK
    WindowBound
    RefusalIsDeserved
    MemoryBounded
CHECK_DEADLOCK FALSE
