----------------------------- MODULE ToolRegistry -----------------------------
(***************************************************************************)
(* dzt_proxy/tool_registry.py: the specifications of the tools, fetched    *)
(* from the upstream server and cached, from which the hash of a tool is   *)
(* taken.  fetch_tool_specs suspends while the upstream answers, so that   *)
(* fetches of several callers overlap and end in any order, and the server *)
(* may publish another catalogue before the answer is used.                *)
(*                                                                         *)
(* A catalogue gives every tool the hash of its specification, NoHash if   *)
(* it does not list the tool.  Spec is the registry alone; Proxy takes its *)
(* operations from here.                                                   *)
(***************************************************************************)
EXTENDS Integers

CONSTANTS
    Callers,         \* the requests that may be inside fetch_tool_specs
    Tools,
    Catalogues,      \* what the upstream server may publish
    LocalToolSpecs,  \* LOCAL_TOOL_SPECS
    NoSpecs,         \* None
    UpstreamMode,    \* "local" or "github"
    HasPat,          \* whether GITHUB_PAT is set
    CacheTtl,        \* _LOCAL_CACHE_TTL_SEC, in ticks
    Epoch,
    MaxClock         \* bound on the clock

NoHash == "none"
NoTools == [t \in Tools |-> NoHash]

ASSUME RegistryAssumption ==
    /\ UpstreamMode \in {"local", "github"}
    /\ HasPat \in BOOLEAN
    /\ CacheTtl \in Nat \ {0}
    /\ Epoch \in Nat \ {0}
    /\ NoSpecs \notin Catalogues \cup {NoTools}

VARIABLES
    clock,         \* time.monotonic()
    catalogue,     \* what the upstream server publishes now
    lastCurrent,   \* history: when each catalogue was last published
    cacheLocal,    \* _cache_local
    cacheLocalAt,  \* _cache_local_at
    cacheRemote,   \* _cache_remote
    fetch          \* the fetch of each caller that is suspended

registryVars == << cacheLocal, cacheLocalAt, cacheRemote, fetch >>
upstreamVars == << catalogue, lastCurrent >>
vars == << clock, upstreamVars, registryVars >>

NoFetch == [phase |-> "none", now |-> 0, specs |-> NoSpecs]

\* The upstream's tools over those LOCAL_TOOL_SPECS defines.
Merged(remote) ==
    [t \in Tools |-> IF remote[t] # NoHash THEN remote[t] ELSE LocalToolSpecs[t]]

\* fetch_tool_specs returns without an await ...
Ready ==
    IF UpstreamMode = "local"
    THEN cacheLocal # NoSpecs /\ clock - cacheLocalAt < CacheTtl
    ELSE HasPat => cacheRemote # NoSpecs

\* ... and this is what it returns.
Current ==
    IF UpstreamMode = "local" THEN cacheLocal
    ELSE IF HasPat THEN Merged(cacheRemote) ELSE LocalToolSpecs

\* The caller sends its query; in local mode it has read the clock before.
Ask(c) ==
    /\ ~ Ready
    /\ fetch[c] = NoFetch
    /\ fetch' = [fetch EXCEPT ![c] =
           [phase |-> "asked", now |-> clock, specs |-> NoSpecs]]
    /\ UNCHANGED << cacheLocal, cacheLocalAt, cacheRemote >>

\* The upstream server answers with what it publishes at that moment.
Serve(c) ==
    /\ fetch[c].phase = "asked"
    /\ fetch' = [fetch EXCEPT ![c].phase = "answered", ![c].specs = catalogue]
    /\ UNCHANGED << cacheLocal, cacheLocalAt, cacheRemote >>

\* The specs that a caller returns from a fetch that succeeded.
Fetched(c) ==
    IF UpstreamMode = "local" THEN fetch[c].specs ELSE Merged(fetch[c].specs)

\* Faulty variant: the clock is read after the query.
DeliverDatedAtArrival(c) ==
    /\ fetch[c].phase = "answered"
    /\ fetch' = [fetch EXCEPT ![c] = NoFetch]
    /\ IF UpstreamMode = "local"
       THEN cacheLocal' = fetch[c].specs /\ cacheLocalAt' = clock /\ UNCHANGED cacheRemote
       ELSE cacheRemote' = fetch[c].specs /\ UNCHANGED << cacheLocal, cacheLocalAt >>

\* The answer reaches the caller, which caches it.
Deliver(c) ==
    /\ fetch[c].phase = "answered"
    /\ fetch' = [fetch EXCEPT ![c] = NoFetch]
    /\ IF UpstreamMode = "local"
       THEN /\ cacheLocal' = fetch[c].specs
            /\ cacheLocalAt' = fetch[c].now
            /\ UNCHANGED cacheRemote
       ELSE /\ cacheRemote' = fetch[c].specs
            /\ UNCHANGED << cacheLocal, cacheLocalAt >>

\* Faulty variant: the query has no timeout.
FailWithoutTimeout(c) ==
    /\ fetch[c].phase = "answered"
    /\ fetch' = [fetch EXCEPT ![c] = NoFetch]
    /\ cacheRemote' = IF UpstreamMode = "local" THEN cacheRemote ELSE NoTools
    /\ UNCHANGED << cacheLocal, cacheLocalAt >>

\* A timeout, a refused connection, an error status or a body that is not JSON:
\* the exception leaves fetch_tool_specs in local mode; in github mode it is
\* caught, and the cache becomes an empty dictionary.
Fail(c) ==
    /\ fetch[c] # NoFetch
    /\ fetch' = [fetch EXCEPT ![c] = NoFetch]
    /\ cacheRemote' = IF UpstreamMode = "local" THEN cacheRemote ELSE NoTools
    /\ UNCHANGED << cacheLocal, cacheLocalAt >>

\* Faulty variant: an empty dictionary for None.
InvalidateCacheToEmpty ==
    /\ cacheLocal' = NoTools
    /\ cacheLocalAt' = 0
    /\ cacheRemote' = NoSpecs
    /\ fetch' = [c \in Callers |-> NoFetch]

\* The process starts: invalidate_cache, and no fetch of an earlier process.
InvalidateCache ==
    /\ cacheLocal' = NoSpecs
    /\ cacheLocalAt' = 0
    /\ cacheRemote' = NoSpecs
    /\ fetch' = [c \in Callers |-> NoFetch]

\* The upstream server is given other tools.
Publish(cat) ==
    /\ cat # catalogue
    /\ catalogue' = cat
    /\ lastCurrent' = [lastCurrent EXCEPT ![catalogue] = clock]

RegistryInit ==
    /\ cacheLocal = NoSpecs /\ cacheLocalAt = 0 /\ cacheRemote = NoSpecs
    /\ fetch = [c \in Callers |-> NoFetch]
    /\ catalogue \in Catalogues
    /\ lastCurrent = [cat \in Catalogues |-> 0]
-------------------------------------------------------------------------------
Init == clock = Epoch /\ RegistryInit

Lookup(c) == Ask(c) \/ Serve(c) \/ Deliver(c) \/ Fail(c)

Upstream == \E cat \in Catalogues : Publish(cat)

Tick == clock < MaxClock /\ clock' = clock + 1

OneLife ==
    \/ \E c \in Callers : Lookup(c) /\ UNCHANGED << clock, upstreamVars >>
    \/ Upstream /\ UNCHANGED << clock, registryVars >>
    \/ Tick /\ UNCHANGED << upstreamVars, registryVars >>

Next == OneLife \/ (InvalidateCache /\ UNCHANGED << clock, upstreamVars >>)

Spec == Init /\ [][Next]_vars
-------------------------------------------------------------------------------
\* Types.
TypeOK ==
    /\ catalogue \in Catalogues
    /\ cacheLocal \in Catalogues \cup {NoSpecs}
    /\ cacheLocalAt \in Nat
    /\ cacheRemote \in Catalogues \cup {NoSpecs, NoTools}
    /\ fetch \in [Callers -> [phase : {"none", "asked", "answered"}, now : Nat,
                              specs : Catalogues \cup {NoSpecs}]]

\* In local mode a change of the upstream's tools is noticed within CacheTtl:
\* the specs the cache answers with are what the server publishes, or were
\* published less than CacheTtl ago, however late the answer that filled the
\* cache came and whichever of several fetches came last
\* (tool_registry.py:113-123: _cache_local_at is read before the query).
NoticedWithinTtl ==
    UpstreamMode = "local" /\ Ready =>
        \/ cacheLocal = catalogue
        \/ lastCurrent[cacheLocal] > clock - CacheTtl

\* One life of the process.  Callers keep asking, and the upstream server keeps
\* answering: it may fail, not every time.
FairSpec ==
    /\ Init /\ [][OneLife]_vars
    /\ \A c \in Callers : /\ WF_vars(Ask(c) /\ UNCHANGED << clock, upstreamVars >>)
                          /\ WF_vars(Serve(c) /\ UNCHANGED << clock, upstreamVars >>)
                          /\ SF_vars(Deliver(c) /\ UNCHANGED << clock, upstreamVars >>)

\* "Return the authoritative tool spec dictionary ... github mode: fetch from
\* GitHub MCP tools/list, merge with LOCAL_TOOL_SPECS" (tool_registry.py:104-107):
\* once GitHub answers again, the callers get its tools.
RegistryRecovers ==
    <>(Ready /\ \E cat \in Catalogues : Current = Merged(cat))
===============================================================================
