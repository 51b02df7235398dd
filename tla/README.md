# TLA+ models of the DZT proxy for MCP

The DZT proxy stands between AI agents and an MCP server. An agent signs a JWT
for every tool call with the key of its DID (decentralised identifier); the
proxy resolves the DID, verifies the token, and lets a call through only if the
token is bound to the tool, has not been used, is within the agent's rate,
allowed by the policy, and carries the hash of the tool's specification.

These modules model the proxy, the secured MCP server, the client programs and
the menu that runs them. Every definition is translated from the code, and cites it; paths
below are relative to `src/`. `PROJECT.json` maps each definition to its lines.

    tlc -workers 2 -config proxy_replay.cfg MCProxy.tla     # a run
    tlapm ProxyProofs.tla                                   # the proofs

## 1. The system

| part | code | state | operations |
|---|---|---|---|
| request pipeline | `dzt_proxy/app.py` | the coroutine of each request; `DZT_MODE` | `proxy_tool_call` (10 steps), `_forward_local`, `_forward_github`, `_startup` |
| nonce store | `dzt_proxy/nonce_store.py` and its copy in `mcp_server/` | SQLite table `nonces(jti, exp_at)`; `_last_cleanup` in memory | `init_db`, `seen_before`, `store_nonce`, `_maybe_cleanup` |
| rate limiter | `dzt_proxy/rate_limiter.py` | `_requests` (timestamps of each DID), `_last_cleanup` | `check_rate_limit`, `_cleanup` |
| policy | `dzt_proxy/policy.py`, `config.py` | constants and `UPSTREAM_MODE` | `is_allowed` |
| tool registry | `dzt_proxy/tool_registry.py`, `sse.py` | `_cache_local` with its time, `_cache_remote` | `fetch_tool_specs`, `get_tool_hash`, `invalidate_cache` |
| DID resolver | `dzt_proxy/did_resolver.py` | `_LOCAL_DOC_CACHE`, `_PUBLIC_KEY_CACHE` | `resolve_did`, `get_public_key_pem` |
| tokens | `dzt_proxy/jwt_utils.py`, `mcp_server/jwt_utils.py` | none | `sign_token`, `verify_token` |
| audit log | `dzt_proxy/audit.py` | a file, appended to | one method per kind of record |
| secured server | `mcp_server/server.py`, `tools.py`, `did_resolver.py` | its own nonce database | `call_tool` |
| baseline server | `mcp_server/baseline.py` | none | `call_tool` without checks |
| client programs | `eval/attack_runner.py`, `eval/benign_test.py`, `eval/latency_benchmark*.py`, `client/call_tool.py` | hashes found, results, a result file | `run_all`, `run_single`, `main`, `call_tool` |
| tables | `eval/generate_tables.py`, `eval/results/compute_attack_table.py` | the result files they read | `summarize_attacks`, `calculate_ml_metrics`, `find_latest`, `percentile` |
| menu | `run_menu.sh`, `docker-compose.yml` | runtime, PIDs, service processes, nonce databases | nine options of start, wait, run, stop, wipe; the trap |
| identity scripts | `scripts/` | DID documents and keys on disk | write a key pair |

How they interact. The client calls `POST /tools/call` of the proxy. The handler
calls the resolver (a file read, or HTTP), the nonce store, the rate limiter and
the policy (calls without an await), the registry (perhaps an HTTP query to the
upstream) and at last the upstream. All handlers share one event loop and the
caches, tables and dictionaries above. `GET /debug/tool-hash`, which the
evaluation programs use, shares the registry's cache.

What is hard. A handler may suspend at four places (resolution of a DID, body of
the request, registry, upstream) and everything it read before may be stale when
it goes on. Nonces are on disk, all else is in memory, so a crash makes them
disagree. The token is checked before the body is read and its jti after. Two
clocks meet in the nonce store: `int(time.time())` and the exact time. Answers
of DID servers and of the upstream come late and out of order, or not at all;
clients give up on requests that the proxy goes on with. The menu starts servers
in the background, and takes whoever answers on a port for the one it started;
Ctrl-C may come between any two of its commands.

What makes the parts correct:

- nonce store with pipeline: a valid token gets in once; cleanups and restarts
  forget no row too early;
- rate limiter: a sliding bound, refusals only when deserved, bounded memory; a
  restart costs one more quota and no more;
- registry: a change of the upstream's tools is noticed within the TTL; a failure
  is not for ever (it is, in GitHub mode);
- resolver: a cached key is one its DID published, and the key of a local DID
  stays what it is for the life of the process;
- pipeline: complete mediation, jtis and quotas spent by genuine tokens only, honest
  requests served, an audit trail that matches the answers;
- secured server: one execution of a tool per token;
- client programs: verdicts that say what happened, each attack stopped by the
  check it is aimed at and never executed later, programs that end;
- tables: counts that are off by what failed in the run, and by no more;
- menu: no server left behind, a program runs against the servers of its option
  and an empty nonce table, options end; as far as `compose down` and `rm`, whose
  failures the script passes over, do what they are for.

## 2. The modules

    NonceStore  Policy  RateLimiter  ToolRegistry  DidResolver
        |   \______|_________|____________|____________/
        |                    Proxy    Programs    Report
        |                      \______/ |  \______/
        |                      Evaluation Menu
    SecuredServer
        --implements--> OneShot            RateRestarts --extends--> RateLimiter

Definitions marked "Faulty variant" are bugs put in on purpose: in place of the
definition after them they make some property fail.

**NonceStore** (no behaviour of its own) has the table as a function from jti to
`exp_at`, 0 where there is no row, and `_last_cleanup`. `Recognise` and
`Remember` are `seen_before` answering True, and answering False followed by
`store_nonce`; both include the cleanup that `seen_before` begins with. The two
calls are one step because `app.py:262-267` has no await between them.
`ReopenStore` is a restart: rows stay, `_last_cleanup` is 0 again. Time counts
ticks, several to the second, so that `int(now)` and the exact time differ.

**RateLimiter** has `_requests` as a set of entries per DID (the call and the
moment, so that two calls at one moment stay two). `CheckRateLimit` is the whole
function, cleanup included. On its own it lets anybody call at any time
and keeps a history of the calls let through and refused. **RateRestarts** extends
it with restarts of the process (`Dies`), which empty `_requests` and set
`_last_cleanup` to 0.0 while the history goes on, and is the specification of the
limiter: in a window without a restart `WindowBound` is the limit itself, and each
restart in the window adds one quota to it.

**Policy** is `is_allowed` as an operator. The raw value of `UPSTREAM_MODE`
decides on `get_me` there, the value `config.py` makes of it elsewhere. The rule
on the parameters of a tool passes, refuses or raises.

**ToolRegistry** splits `fetch_tool_specs` at its await: `Ready`/`Current` (a
cache answers), `Ask` (the query leaves; the local mode has read the clock),
`Serve` (the upstream reads its tools), `Deliver` (the cache is written), `Fail`.
A specification is its hash. `cacheRemote` is `NoSpecs` for `None` and `NoTools`
for the `{}` that a failure leaves.

**DidResolver** splits `get_public_key_pem` the same way: `ReadFile` for local
documents (no await), `Ask`, `Serve`, `Deliver`, `Fail` for the others. A
document is its first key, `NoMethod` or `NoDocument`. `Publish` is its owner.

**Proxy** is `proxy_tool_call`. `pc[r]` is the await at which the handler of `r`
is, `outcome[r]` its answer with the `blocked_by` stage, `trail[r]` its audit
records, `spentAt[r]` (history) when its jti was stored. One action is what runs
between two awaits:

| action | code |
|---|---|
| `PassThrough` | baseline mode, to the forwarding (`app.py:177-198`) |
| `Receive` | steps 1 to 4, to the wait for the key or for the body |
| `KeyArrives` | the wait for the key ends; step 4 |
| `RefuseBody` | the body is there; refused in steps 5, 6 or for an empty jti |
| `RefuseReplay` | step 7 finds the jti |
| `Admit` | step 7 stores it; 8, 9 and 10 follow, to the registry's query if any |
| `SpecsArrive` | the registry answers; rest of step 10, forwarding begins |
| `ForwardEnds` | the upstream answers, or the exchange fails |
| `Crash` | the process dies and starts again, perhaps in another `DZT_MODE` |
| `Serve`, `Publish`, `Tick` | external: other servers, owners, time |

A message is a record of a token's claims, the key that signed it, and the body;
the order of the checks inside `jwt.decode` is PyJWT's. A request in flight
when the process dies is "lost".

**SecuredServer** is `call_tool` of the MCP server with checks of its own. It has
no await, so one call runs at a time; it is two steps, `Accept` and `Execute`,
because the process may die in between. A tool answers 200, with its result or an error
in it; `read_file` may also raise (a directory, a file that cannot be read), which
nothing catches: a 500. `Rotate` is an identity script. **OneShot** is what it promises:
a token has no use, then one.

**Programs** is data: the calls each client program makes, in order, for each
`UPSTREAM_MODE` (`ProgramsOf`): the four modes of `attack_runner.py` with every
attack of their lists, `benign_test.py`, the benchmarks, `call_tool.py`; what each
makes sure of first (`needs`), which hashes it asks for (`probes`), whether an
exception is a result or the end (`catches`).

**Evaluation** extends Proxy by such a program at work: `Check` (is the server there,
is the PAT good), `Probe` (`/debug/tool-hash`) or `ProbeOwn` (the registry in the
client's own process), `Send`, `Judge` (`run_single`, `call_once`, `call_proxy`),
`CallDirect` (without the proxy), `GiveUp` (timeout or broken connection),
`Finish` (the result file). The baseline server answers a direct call as its code does
(`BaselineAnswers`); GitHub serves it or, with a PAT as without, refuses it for reasons
of its own (`GithubAnswers`). Step *i* of the program is request *i* of the proxy. A
handler whose client gave up goes on, next to the calls that follow. `Dies` and
`Outage` are what goes wrong around them.

**Report** is what the programs make of their measurements: `is_attack_result`,
`summarize_attacks`, `calculate_ml_metrics`, `percentile`, and `find_latest`, the last
file in the order of the names. Numbers are counts and hundredths; percentages are
quotients of them.

**Menu** is `run_menu.sh`. An option is a list of commands (`Script`), and a command is
an action: `Cleanup`, `StartUvicorn` and `Note` (the `&` and the `PID=$!` after it),
`StartContainer`, `Poll` (one round of `wait_ready`), `CheckPat`, `RunProgram`,
`Generate`, `Stop`. `Leave` is the trap. Servers listen, fall mute (they accept and
answer nothing) and die by themselves, in between; a server knows which option started
it (history) and whether the script has its PID. A nonce table is the set of options
whose programs wrote to it. `compose down`, `fuser` and `rm` end in `|| true`: each may
leave any part of what it is for, and the history variable `spared` has the runtimes of
which the last `compose down` left a container or the last `rm` the databases. A
container that is there stays when `compose up` comes, unless it has another mode. What a
program does is Evaluation's matter: here it needs its servers to finish, and
otherwise aborts or raises.

MC modules give the messages, keys, catalogues and documents of the runs.

## 3. The runs

| run | expected | what it checks, and its bounds |
|---|---|---|
| `rate_window` | pass | `WindowBound`, `RefusalIsDeserved`, `MemoryBounded` for the limiter alone. 5 calls of 2 agents, limit 2, window 3, cleanup every 4, 7 ticks, a restart: windows fill and slide, cleanups and the restart fall inside and outside them, two lives may fill their quotas in one window, and there is time for windows before and after, which pay nothing for it. |
| `registry_local` | pass | `NoticedWithinTtl`: 2 overlapping fetches, 2 catalogues, TTL 2, 5 ticks. A fetch may last longer than the TTL, and a catalogue be withdrawn meanwhile. |
| `registry_github` | violation | `RegistryRecovers`, finding 1. |
| `did_resolution` | pass | `CachedKeyWasPublished`, `LocalKeyIsPinned`: a local and a remote DID, 2 keys, 2 requests; no bound on time or on the number of changes. |
| `proxy_replay` | pass | `NoReplayInLifetime`, `SpentIsRemembered`, `HonestIsServed`: 3 requests with one token, a forgery of it, or the token on another body. The clock passes the end of the token and that of its row, and cleanups fall at every other tick: what a slow body, a crash and a cleanup can do together happens. |
| `proxy_pipeline` | pass | `OnlyGenuineTokensCost`, `Mediation`, `AuditMatchesAnswers`, `HonestIsServed`: each of 2 requests has one of 13 messages, in GitHub mode and both values of `DZT_MODE`, with a limit of one call per window, a key and a catalogue that change, and restarts in the other mode. Two requests are enough for one to overtake or refuse another. |
| `proxy_once` | violation | `AtMostOnce`, finding 2. |
| `proxy_audit` | violation | `EveryAnswerIsLogged`, finding 3. |
| `server_once` | pass | `KeepsPromise` (the refinement of OneShot), `AcceptedIsRemembered`, `RunningIsUnused`: 5 tokens, three of them with one jti, until all tokens and rows are dead. |
| `evaluation` | pass | `VerdictsAreCorrect`, `EachByItsDefence`, `AttacksNeverExecute`, `ReportErrsByFailures`, `EvaluationEnds`, `WaitsEnd`: the five programs of local mode, one at a time: 13 attacks through the proxy, 8 without it, 8 benign calls with a quota of 7 (so that the last meets the limit), a benchmark of 1 + 2 calls each way, one call of the client. Two things may go wrong at any point (restart, timeout, outage and its end). 15 steps hold the longest program. The clock stands still: the programs take seconds, their tokens live for minutes. |
| `evaluation_github` | pass | The four safety properties for the programs of GitHub mode: 14 attacks through the proxy, 6 benign calls with a quota of 5, the benchmark with its single-call diagnostics, with a PAT. Of the eight equal attacks of `github_direct` one is enough. |
| `menu` | pass | `NothingIsLeftBehind`, `RunsAgainstItsServers`, `EveryRunStartsFresh`, `OptionEnds`: two options over any number of sessions, uvicorn and Docker, three polls for fifteen. Two options are enough for one to leave something and one to meet it, and a new session chooses its runtime anew. |

Deadlock is checked where an instance never stops (the menu may always be started
again). The proxy, limiter and
evaluation instances stop when every request has its answer, every call is made
or the clock is at its bound, and say `CHECK_DEADLOCK FALSE`. Symmetry of request
and caller names is used in safety runs only.

"Honest" in `HonestIsServed` is a property of a message: signed with the one key that a
DID with a file ever has, a jti that is in no other genuine token, a tool that
the policy grants, and the hash that every specification of the tool has. What
others send, forge, publish or lose is not restricted. In `proxy_pipeline` forgeries with
the same jti, failing lookups and restarts surround such a request.

`VerdictsAreCorrect` says "as meant" of a call that was answered with less than 500,
while the hashes that the probes gave are the upstream's, and of a replay whose first
use got in: the programs tell no failure from a refusal, and a replay of what never
arrived is no replay. A 429 counts only if the quota was not used up by the program's
own calls. The one answer of 200 that counts as blocked, an error of the tool in a
200, is left out for the same reason. The calls without the proxy are left out too:
what GitHub refuses of them counts as a blocked attack, whatever the reason.
`ReportErrsByFailures` bounds what these cases do
to the report: the count of successful attacks is never too high, and too low by
no more than the failures and the answers of 200 that held an error; and a valid call
of the attack run adds to the true negatives only if it was executed. It says nothing of
the false positives, for which the code and its docstring disagree (section 5).

The three safety properties of the menu are about what the script does, given what
`compose down` and `rm` did. A `compose down` that fails leaves containers, and nothing
in the script notices: `NothingIsLeftBehind` and `RunsAgainstItsServers` except containers
while the last `compose down` left one, `EveryRunStartsFresh` the runtime whose table was
left. A `fuser` that fails needs no exception, since `stop_servers` kills by PID first.

`MCMenu` also compares `percentile`, `summarize_after_dzt` and `find_latest`, which no
transition uses, with their meaning on all small inputs; TLC evaluates these assumptions
in `menu`. The last name is the newest file if all have equally many digits, and need
not be if they have not.

### Fairness

`EvaluationSpec` assumes weak fairness of three things. `Client`: a program is
sequential and gives every request a timeout (10, 15, 30 or 45 s), so it goes on or
gives up; the number of times something goes wrong is bounded, but a request of a
dead process always ends by giving up. `Proxying`: the event loop runs handlers that
can run, and each of their waits has an end. httpx has a timeout of 10 s for DIDs and
the local registry and of 30 s for the upstream, which the model has as `Fail` and as
the failures of `ForwardEnds` while the upstream is out of reach; the programs send a
body with its headers. `UpstreamAnswers`: a server that is in reach answers within
these timeouts. There is no fairness of `Tick`, so `WaitsEnd` does not rest on expiry.

`Menu` assumes strong fairness of its commands: bash goes on to the next command, a
program ends, which is `EvaluationEnds`, and `docker`, `fuser` and `rm` are taken to end.
It is strong because of the two commands that may wait without a limit, the `curl` of a
poll (`run_menu.sh:175`, no `--max-time`) for a server that accepts and does not answer,
and the `wait` of `stop_servers` (194-195) for a process that does not end: they are
disabled while their server is mute, and return when it dies, even if its container
comes back and falls mute again. Nothing is assumed of the servers, which may never
listen, nor of who sits at the menu. `OptionEnds` says that an option ends or that one of
these two waits lasts for ever (`Blocked`); without the second half TLC finds it violated.

`FairSpec` of ToolRegistry (`registry_github`) lets callers ask again for ever and
the upstream answer again and again; that GitHub's tools stay unknown even so is
what the counterexample shows.

## 4. What is proved

TLAPS checks these theorems, for all values of the constants within the
assumptions `ProxyAssumption`, `SurroundingsAssumption`, `RateAssumption`,
`ServerAssumption`, `RegistryAssumption` and `ResolverAssumption`: positive intervals and
resolution of the clock, integer expiries, a start later than the time 0.0 to which
`_last_cleanup` is set, `None` being no key and no catalogue, not even an empty one
(`CachesAssumption`), what the registry and the resolver ask of their constants
(`ComponentsAssumption`), a finite number of requests, any number of restarts
(`RestartsAssumption`). `MenuAssumption` has uvicorn, Docker
or both, and at least one poll.
`EvaluationAssumption` says that there are requests, jtis and messages for every step
of every program, that a run ends before its tokens do (60 s), that the proxy is not
in baseline mode, as the menu sees to, that no tool has the hash of 64 zeros, that a
call without a tool or a jti yet to be made is told from one that has it, and that
agent1 does not own the key the attacks forge with. `IdentityAssumption` is what the
set-up scripts leave: agent1 has a DID file with one key, the one its tokens are signed
with, and nobody has a document for the DID that an attack makes up
(`attack_runner.py:249, 383`: no script writes a file for it). TLC evaluates each.

- **NonceStoreProofs**, lemmas for both owners of a store. A row is *alive* while
  its `exp_at` is not below `int(now)`. No operation removes or changes an alive
  row (`CleanupKeepsAlive`, `RecogniseKeeps`, `RememberKeeps`); a token that
  `jwt.decode` accepts has an expiry ahead of `int(now)` (`UnexpiredIsAhead`).
- **ProxyProofs**: `ProxyTypeCorrect`, `ProxyRemembers` and `ProxyNoReplay`, i.e.
  `Spec => []TypeOK`, `[]SpentIsRemembered`, `[]NoReplayInLifetime`.
  `NoReplayInLifetime` is not inductive: it says nothing of the table. The
  invariant `IInv` adds `SpentIsRemembered` (the row is there as long as the token
  could come again), `SpentHasRow` (who spent a jti has a jti and a positive
  expiry, so the row holds that expiry and not the default), `BodyHasExpiry` (the
  same of who waits for the body, since it was verified), and that the clock is
  not 0. All steps but `RefuseReplay`, `Admit`, `Tick` and `Crash` leave the table
  and the history alone (`QuietKeeps`). In `Admit` a second use with the same
  expiry finds no row, so the row of the first is not alive, so its second is
  past, and the token with it (`PastSecond`).
  `ProxyMediation`, `ProxyRefusals` and `ProxyAudit`, i.e.
  `Spec => []Mediation`, `[]OnlyGenuineTokensCost`, `[]AuditMatchesAnswers`, are
  proved together from `MInv`, since each needs what the others know. Its part on a
  request (`RequestInv`) says what is known at each await: a request that waits for
  its body has a verified token (`PlaceInv`), one that waits for the registry or the
  upstream has passed steps 1 to 9, and its trail is exactly what the code has
  written by then (`Trailed`). Its part on what requests share (`SharedInv`) says that
  every key in a cache or under way is one its DID may publish, every hash one of a
  catalogue or of the stubs, every row of the nonce table one that a request spent,
  and that the limiter's lists hold only requests that got in. Each action has a
  lemma for the request it moves (`InOrder`), and one that it blames nobody else.
  `ProxyServesHonest`, `Spec => []HonestIsServed`, is about one request among any
  others. `HInv` says of an honest one that it never waits for a lookup on the web
  (its DID has a file) and has been refused for its age or rate only, if at all; of
  the registry, that without a PAT nothing is under way to GitHub
  (`FetchesAreMeant`). A replay is then impossible by `MInv`: the row of its jti would
  have been spent by another genuine token with that jti, and there is none.
  The last section puts the components in. `ProxyUsesRegistry`, `Spec => Registry!Spec`,
  and `ProxyUsesResolver`, `Spec => Resolver!Spec`, say that whatever handlers, answers
  and crashes do to the registry and to the resolver is a step that ToolRegistry and
  DidResolver specify, or none. So their invariants hold within the proxy, by the
  lemmas of ToolRegistryProofs and DidResolverProofs taken with INSTANCE:
  `ProxyNoticesWithinTtl`, `ProxyKeyWasPublished`, `ProxyKeyIsPinned`. The runs check
  these properties of the components alone.
- **RateLimiterProofs**: `RateTypeCorrect`, `RateWindowBound`,
  `RateRefusalIsDeserved`, `RateMemoryBounded`, of `RestartsSpec` and so for any number
  of restarts. In one life the list of a DID holds all that was let through in the
  window that ends now, and its length counts it; a restart breaks that. `IInv` says
  instead how much the list may lack of a window that is not over
  (`LostToRestarts`): one quota for each restart in it. A call lets through what the
  list has room for and forgets only what is too old (`CallLoses`), so it adds one
  quota at most to what is lost; a restart loses one list, which is no longer than a
  quota (`ListsAreShort`), in the windows that it is in, and in others nothing that
  counts, since all that was let through before it has left them. `WindowAlways` is
  the bound at every instant and not only up to `MaxClock`. That the list holds
  nothing but what was let through shows a refusal deserved. For the memory,
  `SweptInTime` relates timestamps and calls to the last sweep, not to each other;
  a restart, which says that there never was a sweep, also empties the lists.
- **ToolRegistryProofs**: `RegistryTypeCorrect`, `RegistryNotices`. Every answer under
  way (`AnswersAreFresh`) and the cache (`CacheIsDated`) hold what is published now,
  or was at the moment they are dated with or later; this is so because the code
  reads the clock before it asks.
- **DidResolverProofs**: `ResolverTypeCorrect`, `ResolverKeyWasPublished`,
  `ResolverKeyIsPinned`. Answers under way (`AnswersAreKnown`) and cached documents
  (`FilesAreKnown`) are documents of their DID; none is about a local DID.
- **SecuredServerProofs**: `ServerTypeCorrect`, `ServerRemembers`, `ServerRunningIsUnused`
  and `ServerKeepsPromise`, `Spec => KeepsPromise`: `Execute` is a `Use` of an unused
  token, all else a stutter. This needs `RunningIsUnused`, which needs
  `AcceptedIsRemembered`. There is no slow body here, and so the promise holds for
  ever and not only while the token lives.
- **MenuProofs**: `MenuTypeCorrect`, `MenuLeavesNothing`, `MenuRunsOwnServers` and
  `MenuRunsFresh`, for any number of options one after the other. None is inductive:
  what a stop will still remove, or a cleanup empty, is no harm yet. `MenuInv` therefore
  looks ahead in the commands that are left:
  a server that the script knows has a stop ahead of it; one that the current option
  started is known or about to be noted, in the runtime of the option, and, if a
  proxy, in the mode that the programs up to its stop expect (`Kept`); a table with
  rows has a cleanup ahead, before a program that counts on an empty one
  (`FreshAhead`); each command is followed by what it needs (`OnCourse`,
  `Follows`). Containers that a `compose down` left (`Stray`) are excepted from `Kept`,
  and stay so until one leaves none; so is the runtime of a table that was left from
  `FreshAhead` (`DownLeaves`, `RmLeaves`). That every script
  is in this order (`Sound`) is proved of each, piece by piece, from what one
  command more in front does to what is ahead.
- **EvaluationProofs**: `EvaluationTypeCorrect`, `EvaluationAttacksNeverExecute`,
  `EvaluationEachByItsDefence`, `EvaluationReportErrsByFailures` and
  `EvaluationVerdictsCorrect`, i.e. `EvaluationSpec => []AttacksNeverExecute`,
  `[]EachByItsDefence`, `[]ReportErrsByFailures` and, if the upstream server has one
  catalogue, `[]VerdictsAreCorrect`. The programs come first, for any number of repetitions: a call
  through the proxy that is meant to be blocked is a replay, or the first check that
  its message fails (`Flaw`) is the one it is aimed at, before and after a hash and a
  jti are filled in (`ProgramsAreSound`, `FlawIsKept`). A step of Evaluation is a step
  of Proxy, a query of its registry, or leaves it alone but for a message that arrives
  (`StepsOfProxy`), so `IInv` and `MInv` hold here as well. `EInv` adds that no handler
  is in baseline mode (`SecureInv`), that messages arrive in the order of the steps,
  each that of its call (`SendInv`), and that the clock is short of the tokens' end
  (`InTime`). A request that reached the upstream has passed all checks (`Mediation`),
  so its message has no flaw; of two with one jti and expiry, one at most has
  (`NoReplayInLifetime`). Nothing is assumed of what the client was told: crashes,
  outages, timeouts and handlers that go on are all among the steps.
  `EachByItsDefence` needs the converse too, why a request was *refused*. `CourseInv`
  says what an answer tells of its message (`Apt`): a check before step 7 is the first
  that it fails, and a check after step 8 comes after its jti was spent and tells what
  the policy decided. `VerdictInv` says that a verdict with a status is about the answer
  of the proxy to that call. What is left are refusals for a replay or for the rate: a
  fresh jti that an attack does not pass on is spent by nobody else (`NobodySpentIt`),
  and a 429 means that the quota was used up (`RefusedForQuota`).
  With this every attack is reported as blocked. `VerdictsAreCorrect` also has benign
  calls let through, so a hash that was right must not be refused: `HashInv` says that
  every answer to a probe, and every fetch under way, gives the specifications the
  proxy goes by, or the local ones if it never learnt GitHub's (`Told`); that a good
  request carries what its probe was told (`SentHash`); and that a hash was refused only
  for not being the expected one (`HashRefusal`). The theorem has one hypothesis,
  `OneCatalogue`: the tools of the upstream server do not change while a program runs.
  Those of `baseline.py` are constants of its source and a program is over in seconds.
  Without it the theorem is false, since no program looks again at a hash: one that
  was replaced and came back would look current after a refusal. The other theorems do
  without it.

  `ReportErrsByFailures` compares the counts of the report with what happened.
  `ReportInv` adds two facts to the above: a program that finished has a verdict on
  every call, and the calls that have the verdict of an exception although the proxy
  did not die on them (`GivenUp`) are no more than `failures`. `GivenUp` only shrinks
  while the calls made stay the same, since a request that is lost stays so, and grows
  by the call in hand only with a failure (`ReportKeeps`). By `VerdictInv` and `Apt`
  an attack that was not blocked was forwarded (`MissedWasExecuted`), and one that was
  forwarded was not blocked, or given up, or answered with an error in a 200
  (`ExecutedIsAccountedFor`). The rest is arithmetic of cardinalities (`PartsAddUp`):
  the names by which the report tells attacks from valid calls agree with what the
  program expects of them (`AttackRunIsSound`). It needs no hypothesis on the catalogue:
  a good call that is refused for its hash is no attack.

Only model-checked: liveness (`EvaluationEnds`, `WaitsEnd`, `OptionEnds`), which is out
of the prover's reach, as are `percentile`, `summarize_after_dzt` and `find_latest`, whose
meaning over data of any length would need induction. Every other property of a run that passes has
a theorem.

## 5. Findings

1. *One failed query makes GitHub's tools unknown until a restart.*
   `tool_registry.py:140` stores `{}` in `_cache_remote`, which is not `None`, so
   nothing asks again; `get_me` keeps the hash of its local stub.
2. *A token gets in twice.* `exp` is checked before the body is awaited, the jti
   after. A body that comes after the cleanup deleted the row of the first use
   (`nonce_store.py:35`: "token can no longer be replayed") finds no row.
   `NoReplayInLifetime` holds: the second use is after the expiry.
3. *Answers without an audit record.* `audit.py:5-6` promises one for every
   decision. An exception of `request.json()` (`app.py:245`), of `body.get` or of a
   parameter rule is a 500 and leaves none: the run shows the first. One of the registry
   or of the local upstream comes after `POLICY_DECISION` was written (`:279`); of the
   error itself there is no record then either.

Smaller observations, which no run is spent on:

- In GitHub mode `get_me` is added to the tools of every agent (`policy.py:93-104`),
  agent2 included, although `scripts/setup_agent2.py:74-75` prints that it cannot.
- `attack_runner.py:12` promises that BLOCKED means a 4xx; a timeout, a 5xx and an
  error in a 200 are BLOCKED as well (`attack_runner.py:443-446, 463-468`).
- `local_direct` prints "ALL attacks succeeded" whatever happened
  (`attack_runner.py:613-615`), and the benchmarks "below 50ms" when every call
  through the proxy failed, since an average over nothing is 0
  (`latency_benchmark.py:171, 192`). The percentile of a single value is 0 (`:105`).
- A valid call of an attack run that was refused is in no cell of the confusion matrix
  (`generate_tables.py:125-131`), though the docstring defines FP as "Benign requests
  blocked (incorrectly flagged)" (`:100`): the code takes them from the benign test alone.
- A 403, 429 or 500 of GitHub to a call without the proxy counts as a blocked attack
  (`attack_runner.py:443`); only a 401 to the first check stops the program (`:549`).
- `check_pat || return` returns 1 from `menu`, and `set -e` then ends the whole
  session when the PAT is missing (`run_menu.sh:272, 283`).
- A signal between `uvicorn ... &` and `PID=$!` leaves a process that the script does not
  know (`run_menu.sh:148-150`); `NothingIsLeftBehind` excepts it.
- `docker compose down ... || true` (`run_menu.sh:119, 191`) goes on with the containers
  up, and the next option may run against them and their nonces; `curl` and `wait`
  (`:175, 194-195`) have no time limit.
- No option of the menu writes a benign file of GitHub mode, which the report looks
  for (`generate_tables.py:484`).

## 6. What is not modelled

- The text of the report's sections and of the programs' output; the times the
  benchmarks measure.
- `run_all_tests.sh`, which runs the same programs one after the other.
- `GET /health`, `/tools`, `nonce_count`, `get_usage`: read only. `/tools` fills the
  registry's cache as `/debug/tool-hash` does.
- The audit record of a nonce cleanup (about no request), the text of records.
- Lock errors of SQLite: one process, no concurrent transaction.
- A wall clock that steps back; `time.monotonic()` and `time.time()` are one clock.
- Cryptography, JSON, the canonical form that is hashed, the parser of event
  streams: their results are data of the models.

## 7. What could come next

1. *TrustChain*: proxy and secured server together. The server reads keys from
   disk on every call, the proxy keeps the first; the proxy forwards to the
   baseline server today, so the composition would state what an agent that talks
   to both can rely on (one jti, two tables).
2. *Evaluation* with a clock: an entry of the registry that expires during the calls.
