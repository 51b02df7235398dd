\* A local and a remote DID, two requests that resolve them at the same time, and
\* two keys: each document may change and be withdrawn at any moment.
CONSTANTS
    Callers = {r1, r2}
    Dids = {agent1, webagent}
    LocalDids = {agent1}
    Keys = {k1, k2}
    NoKey = NoKey
    NoMethod = NoMethod
    NoDocument = NoDocument
SPECIFICATION Spec
SYMMETRY Names
INVARIANTS
    TypeOK
    CachedKeyWasPublished
PROPERTIES
    LocalKeyIsPinned
