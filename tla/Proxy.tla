--------------------------------- MODULE Proxy ---------------------------------
(***************************************************************************)
(* dzt_proxy/app.py: the life of the requests POST /tools/call inside the  *)
(* proxy, with the components they share: the nonce table (NonceStore),    *)
(* the rate limiter, the DID resolver and the tool registry (instances of  *)
(* their modules), and the policy (Policy).                                *)
(*                                                                         *)
(* The handler is a coroutine of one event loop: it runs alone from one    *)
(* await that suspends to the next, and an action below is such a stretch. *)
(* It may suspend in get_public_key_pem, in request.json(), in             *)
(* get_tool_hash and in _forward_upstream; between two of these, other     *)
(* requests run, time passes, keys and tools change, the process may die.  *)
(*                                                                         *)
(* A message is what a client sends: the token with its claims and the key *)
(* that signed it, and the body.  Its fields are                           *)
(*   form    "none" (no bearer token), "malformed", or "jwt"               *)
(*   iss, tool, jti, exp, hash    claims; NoJti if empty, NoHash if none   *)
(*   key     the key the token is signed with                              *)
(*   claims  "good", "rejected" (a required claim is missing, iat is       *)
(*           ahead), or "elsewhere" (aud is not this server)               *)
(*   body    "json" or "garbled" (not JSON, or not an object)              *)
(*   asked   the tool of the body, NoTool if left out                      *)
(*   params  what the parameter rule of the tool makes of the parameters   *)
(***************************************************************************)
EXTENDS NonceStore, Policy, Sequences, FiniteSets

CONSTANTS
    Requests,            \* the HTTP requests of a behaviour
    Messages,            \* what they may carry
    DztModes,            \* the values DZT_MODE may have, lower case
    HasPat,              \* whether GITHUB_PAT is set
    Dids, LocalDids, Keys, NoKey, NoMethod, NoDocument,
    InitialDocuments,    \* the DID documents at first
    Rotations,           \* the pairs <<did, document>> their owners may publish
    Tools, Catalogues, LocalToolSpecs, NoSpecs, CacheTtl,
    MaxRequestsPerWindow, WindowSeconds, RateCleanupInterval,
    NoJti, NoTool,
    Epoch, MaxClock      \* the clock starts at Epoch and stops at MaxClock

\* The processes start long after the time 0.0 of their _last_cleanup.
ASSUME ProxyAssumption ==
    /\ TicksPerSecond \in Nat \ {0} /\ CleanupInterval \in Nat \ {0}
    /\ DefaultTtl \in Nat \ {0}
    /\ MaxRequestsPerWindow \in Nat \ {0} /\ WindowSeconds \in Nat \ {0}
    /\ Epoch \in Nat /\ CleanupInterval <= Epoch /\ RateCleanupInterval <= Epoch
    /\ MaxClock \in Nat
    /\ \A m \in Messages : /\ m.exp \in Int /\ m.jti \in Jtis \cup {NoJti}
                           /\ m.asked \in Tools \cup {NoTool}
                           /\ m.claims \in {"good", "rejected", "elsewhere"}
    /\ NoJti \notin Jtis

\* The documents have one key, or none, and every behaviour a number of requests.
ASSUME SurroundingsAssumption ==
    LET documents == Keys \cup {NoMethod, NoDocument}
    IN  /\ InitialDocuments \in [Dids -> documents]
        /\ Rotations \subseteq Dids \X documents
        /\ LocalDids \subseteq Dids /\ NoDocument \notin Keys
        /\ NoKey \notin documents \cup Dids
        /\ NoSpecs \notin Catalogues
        /\ IsFiniteSet(Requests)

VARIABLES
    dztMode,    \* DZT_MODE of the running process
    rateLog, rateCleanup,                          \* of the rate limiter
    published, everSince, docCache, keyCache, lookup,  \* of the DID resolver
    catalogue, lastCurrent,                        \* of the upstream server
    cacheLocal, cacheLocalAt, cacheRemote, fetch,  \* of the tool registry
    msg,        \* the message of each request, from the start
    pc,         \* where its handler is
    outcome,    \* the answer: status and, as blocked_by says, stage
    trail,      \* the audit records about it, oldest first
    spentAt     \* history: when it had its jti stored, 0 if it had not

rateVars == << rateLog, rateCleanup >>
resolverVars == << docCache, keyCache, lookup >>
ownerVars == << published, everSince >>
registryVars == << cacheLocal, cacheLocalAt, cacheRemote, fetch >>
upstreamVars == << catalogue, lastCurrent >>
requestVars == << pc, outcome, trail, spentAt >>
vars == << clock, dztMode, nonceVars, rateVars, resolverVars, ownerVars,
           registryVars, upstreamVars, msg, requestVars >>

\* The requests of a DID that the rate limiter let through, and refused, with
\* the time: the histories of RateLimiter.
RateHistory(refused) ==
    [d \in Dids |->
        {[call |-> r, at |-> spentAt[r]] :
            r \in {q \in Requests : /\ spentAt[q] > 0 /\ msg[q].iss = d
                                    /\ (outcome[q].stage = "rate_limit") = refused}}]

Rate == INSTANCE RateLimiter WITH
            Calls <- Requests, CleanupInterval <- RateCleanupInterval,
            requests <- rateLog, lastCleanup <- rateCleanup,
            granted <- RateHistory(FALSE), refused <- RateHistory(TRUE)
Resolver == INSTANCE DidResolver WITH Callers <- Requests
Registry == INSTANCE ToolRegistry WITH Callers <- Requests

NoHash == Registry!NoHash

\* A cache that is not filled, None, is not one filled with no tools, {}.
ASSUME CachesAssumption == NoSpecs # Registry!NoTools

\* What the components ask of their constants, besides.
ASSUME ComponentsAssumption ==
    /\ UpstreamMode \in {"local", "github"} /\ HasPat \in BOOLEAN
    /\ CacheTtl \in Nat \ {0}
    /\ NoMethod \notin Keys
-------------------------------------------------------------------------------
\* The handler of r ends with this answer, having written these records.
Answer(r, status, stage, records) ==
    /\ pc' = [pc EXCEPT ![r] = "answered"]
    /\ outcome' = [outcome EXCEPT ![r] = [status |-> status, stage |-> stage]]
    /\ trail' = [trail EXCEPT ![r] = @ \o records]

\* The handler of r goes on to its next await.
Await(r, place, records) ==
    /\ pc' = [pc EXCEPT ![r] = place]
    /\ trail' = [trail EXCEPT ![r] = @ \o records]
    /\ UNCHANGED outcome

\* Faulty variant: stage and event swapped.
_denySwapped(r, status, stage) == Answer(r, status, stage, << stage >>)
\* Faulty variant: no audit record.
_denyUnlogged(r, status, stage) == Answer(r, status, stage, << >>)

_deny(r, status, stage) == Answer(r, status, stage, << "VERIFICATION_FAILED" >>)

\* An exception the handler does not catch: FastAPI answers 500.
Raise(r, records) == Answer(r, 500, "exception", records)

\* Faulty variant: the signature is not checked.
StageUnsigned(m, key) ==
    IF m.claims = "rejected" THEN "jwt_verification"
    ELSE IF ~ Unexpired(m.exp) THEN "token_expiry"
    ELSE IF m.claims = "elsewhere" THEN "audience_validation"
    ELSE "ok"

\* Step 4, with the checks in the order of jwt.decode: signature, required
\* claims and iat, exp, aud.
Stage(m, key) ==
    IF m.key # key THEN "signature_verification"
    ELSE IF m.claims = "rejected" THEN "jwt_verification"
    ELSE IF ~ Unexpired(m.exp) THEN "token_expiry"
    ELSE IF m.claims = "elsewhere" THEN "audience_validation"
    ELSE "ok"

Verify(r, key) ==
    LET stage == Stage(msg[r], key)
    IN  IF stage = "ok" THEN Await(r, "body", << >>) ELSE _deny(r, 401, stage)

\* _forward_upstream begins.
Forward(r, records) ==
    IF UpstreamMode = "github" /\ ~ HasPat
    THEN Answer(r, 502, "upstream", records)
    ELSE Await(r, "forwarding", records)

\* Faulty variant: any hash will do.
CheckHashIsThere(r, specs, records) ==
    \/ /\ specs[msg[r].asked] = NoHash
       /\ Answer(r, 403, "tool_integrity", records \o << "VERIFICATION_FAILED" >>)
    \/ /\ specs[msg[r].asked] # NoHash
       /\ Forward(r, records \o << "VERIFICATION_PASSED" >>)

\* Step 10 and the start of the forwarding, once the specs are there.
CheckHash(r, specs, records) ==
    LET expected == specs[msg[r].asked]
    IN  \/ /\ expected = NoHash
           /\ Answer(r, 403, "tool_integrity", records \o << "VERIFICATION_FAILED" >>)
        \/ /\ expected # NoHash /\ expected # msg[r].hash
           /\ Answer(r, 401, "tool_integrity", records \o << "VERIFICATION_FAILED" >>)
        \/ /\ expected # NoHash /\ expected = msg[r].hash
           /\ Forward(r, records \o << "VERIFICATION_PASSED" >>)

\* Steps 9 and 10, as far as the registry's answer.
Authorise(r) ==
    LET m == msg[r]
        decision == is_allowed(m.iss, m.asked, m.params)
    IN  \/ /\ decision = "raise"
           /\ Raise(r, << >>) /\ UNCHANGED registryVars
        \/ /\ decision = "refuse"
           /\ Answer(r, 403, "policy_enforcement",
                     << "POLICY_DECISION", "VERIFICATION_FAILED" >>)
           /\ UNCHANGED registryVars
        \/ /\ decision = "allow" /\ m.hash = NoHash
           /\ Answer(r, 401, "tool_integrity",
                     << "POLICY_DECISION", "VERIFICATION_FAILED" >>)
           /\ UNCHANGED registryVars
        \/ /\ decision = "allow" /\ m.hash # NoHash /\ Registry!Ready
           /\ CheckHash(r, Registry!Current, << "POLICY_DECISION" >>)
           /\ UNCHANGED registryVars
        \/ /\ decision = "allow" /\ m.hash # NoHash
           /\ Registry!Ask(r)
           /\ Await(r, "registry", << "POLICY_DECISION" >>)
-------------------------------------------------------------------------------
\* DZT_MODE=baseline: the body is forwarded as it is, with an audit record.
PassThrough(r) ==
    /\ dztMode = "baseline" /\ pc[r] = "idle"
    /\ \/ msg[r].body = "garbled" /\ Raise(r, << >>)
       \/ msg[r].body = "json" /\ msg[r].asked = NoTool
          /\ Answer(r, 400, "request", << >>)
       \/ msg[r].body = "json" /\ msg[r].asked # NoTool
          /\ Forward(r, << "BASELINE_PASSTHROUGH" >>)
    /\ UNCHANGED << clock, dztMode, nonceVars, rateVars, resolverVars, ownerVars,
                    registryVars, upstreamVars, msg, spentAt >>

\* Steps 1 to 4, up to the first await that suspends.
Receive(r) ==
    LET m == msg[r] IN
    /\ dztMode # "baseline" /\ pc[r] = "idle"
    /\ \/ /\ m.form = "none"
          /\ _deny(r, 401, "token_presence") /\ UNCHANGED resolverVars
       \/ /\ m.form = "malformed"
          /\ _deny(r, 401, "jwt_decode") /\ UNCHANGED resolverVars
       \/ /\ m.form = "jwt" /\ Resolver!Cached(m.iss)
          /\ Verify(r, keyCache[m.iss]) /\ UNCHANGED resolverVars
       \/ /\ m.form = "jwt" /\ Resolver!ReadFile(m.iss)
          /\ IF Resolver!LocalDocument(m.iss) \in Keys
             THEN Verify(r, Resolver!LocalDocument(m.iss))
             ELSE _deny(r, 401, "did_resolution")
       \/ /\ m.form = "jwt" /\ Resolver!Ask(r, m.iss)
          /\ Await(r, "resolving", << >>)
       \/ /\ m.form = "jwt" /\ m.iss \notin Dids
          /\ _deny(r, 401, "did_resolution") /\ UNCHANGED resolverVars
    /\ UNCHANGED << clock, dztMode, nonceVars, rateVars, ownerVars, registryVars,
                    upstreamVars, msg, spentAt >>

\* The resolution over HTTP ends.
KeyArrives(r) ==
    /\ pc[r] = "resolving"
    /\ \/ Resolver!Deliver(r) /\ Verify(r, lookup[r].doc)
       \/ Resolver!Fail(r) /\ _deny(r, 401, "did_resolution")
    /\ UNCHANGED << clock, dztMode, nonceVars, rateVars, ownerVars, registryVars,
                    upstreamVars, msg, spentAt >>

\* Step 5 ends, and steps 6 and 7 refuse the request without a look at the table.
RefuseBody(r) ==
    LET m == msg[r] IN
    /\ pc[r] = "body"
    /\ \/ m.body = "garbled" /\ Raise(r, << >>)
       \/ m.body = "json" /\ m.asked = NoTool /\ _deny(r, 400, "request_parse")
       \/ m.body = "json" /\ m.asked # NoTool /\ m.tool # m.asked
          /\ _deny(r, 401, "tool_binding")
       \/ m.body = "json" /\ m.asked # NoTool /\ m.tool = m.asked /\ m.jti = NoJti
          /\ _deny(r, 401, "replay_protection")
    /\ UNCHANGED << clock, dztMode, nonceVars, rateVars, resolverVars, ownerVars,
                    registryVars, upstreamVars, msg, spentAt >>

\* Faulty variant: step 6 is missing.
BoundToAnyTool(r) ==
    /\ pc[r] = "body" /\ msg[r].body = "json"
    /\ msg[r].asked # NoTool /\ msg[r].jti # NoJti

\* The body is there, bound to the token, and the token has a jti.
Bound(r) ==
    /\ pc[r] = "body" /\ msg[r].body = "json"
    /\ msg[r].asked # NoTool /\ msg[r].tool = msg[r].asked
    /\ msg[r].jti # NoJti

\* Step 7 finds the jti in the table.
RefuseReplay(r) ==
    /\ Bound(r)
    /\ Recognise(msg[r].jti)
    /\ _deny(r, 401, "replay_protection")
    /\ UNCHANGED << clock, dztMode, rateVars, resolverVars, ownerVars, registryVars,
                    upstreamVars, msg, spentAt >>

\* Step 7 stores the jti, and steps 8 to 10 follow without an await, up to the
\* query of the registry if there is one.
Admit(r) ==
    /\ Bound(r)
    /\ Remember(msg[r].jti, msg[r].exp)
    /\ spentAt' = [spentAt EXCEPT ![r] = clock]
    /\ Rate!CheckRateLimit(r, msg[r].iss)
    /\ \/ /\ ~ Rate!Allowed(msg[r].iss)
          /\ _deny(r, 429, "rate_limit") /\ UNCHANGED registryVars
       \/ /\ Rate!Allowed(msg[r].iss)
          /\ Authorise(r)
    /\ UNCHANGED << clock, dztMode, resolverVars, ownerVars, upstreamVars, msg >>

\* get_tool_hash ends; a failed query is an exception in local mode only.
SpecsArrive(r) ==
    /\ pc[r] = "registry"
    /\ \/ Registry!Deliver(r) /\ CheckHash(r, Registry!Fetched(r), << >>)
       \/ Registry!Fail(r) /\ UpstreamMode = "local" /\ Raise(r, << >>)
       \/ Registry!Fail(r) /\ UpstreamMode = "github"
          /\ CheckHash(r, LocalToolSpecs, << >>)
    /\ UNCHANGED << clock, dztMode, nonceVars, rateVars, resolverVars, ownerVars,
                    upstreamVars, msg, spentAt >>

\* The upstream server executes the call and answers, or the exchange fails.  A
\* failure is a 502 if GitHub could not be reached or refused; any failure of
\* the local server, and an event stream of GitHub that holds no JSON
\* (extract_first_sse_json), is an exception.
ForwardEnds(r) ==
    /\ pc[r] = "forwarding"
    /\ \/ Answer(r, 200, "forwarded", << "REQUEST_FORWARDED" >>)
       \/ UpstreamMode = "github" /\ Answer(r, 502, "upstream", << >>)
       \/ Raise(r, << >>)
    /\ UNCHANGED << clock, dztMode, nonceVars, rateVars, resolverVars, ownerVars,
                    registryVars, upstreamVars, msg, spentAt >>

Handler(r) ==
    \/ PassThrough(r) \/ Receive(r) \/ KeyArrives(r) \/ RefuseBody(r)
    \/ RefuseReplay(r) \/ Admit(r) \/ SpecsArrive(r) \/ ForwardEnds(r)
-------------------------------------------------------------------------------
\* The process dies and starts again, in another mode perhaps: its memory is
\* gone, with the handlers that were running; the nonce table and the audit file
\* are on disk.
Crash ==
    /\ dztMode' \in DztModes
    /\ ReopenStore
    /\ Rate!Restart
    /\ Resolver!Restart
    /\ Registry!InvalidateCache
    /\ pc' = [r \in Requests |->
                 IF pc[r] \in {"idle", "answered"} THEN pc[r] ELSE "lost"]
    /\ UNCHANGED << clock, upstreamVars, msg, outcome, trail, spentAt >>

\* The web server of a DID, and the upstream server, send their answers.
Serve(r) ==
    /\ \/ Resolver!Serve(r) /\ UNCHANGED registryVars
       \/ Registry!Serve(r) /\ UNCHANGED resolverVars
    /\ UNCHANGED << clock, dztMode, nonceVars, rateVars, ownerVars, upstreamVars, msg,
                    requestVars >>

\* Owners publish DID documents; the upstream server is given other tools.
Publish ==
    /\ \/ /\ \E change \in Rotations : Resolver!Publish(change[1], change[2])
          /\ UNCHANGED upstreamVars
       \/ /\ \E cat \in Catalogues : Registry!Publish(cat)
          /\ UNCHANGED ownerVars
    /\ UNCHANGED << clock, dztMode, nonceVars, rateVars, resolverVars, registryVars, msg,
                    requestVars >>

Tick ==
    /\ clock < MaxClock
    /\ clock' = clock + 1
    /\ UNCHANGED << dztMode, nonceVars, rateVars, resolverVars, ownerVars, registryVars,
                    upstreamVars, msg, requestVars >>

\* The processes have started, and no request has come.
Start ==
    /\ clock = Epoch /\ dztMode \in DztModes
    /\ StoreInit
    /\ rateLog = Rate!Empty /\ rateCleanup = 0
    /\ Resolver!ResolverInit
    /\ published = InitialDocuments
    /\ everSince = [d \in Dids |-> {published[d]}]
    /\ Registry!RegistryInit
    /\ pc = [r \in Requests |-> "idle"]
    /\ outcome = [r \in Requests |-> [status |-> 0, stage |-> "none"]]
    /\ trail = [r \in Requests |-> << >>]
    /\ spentAt = [r \in Requests |-> 0]

Init == Start /\ msg \in [Requests -> Messages]

Next ==
    \/ \E r \in Requests : Handler(r) \/ Serve(r)
    \/ Crash \/ Publish \/ Tick

Spec == Init /\ [][Next]_vars
-------------------------------------------------------------------------------
Stages ==
    {"none", "token_presence", "jwt_decode", "did_resolution",
     "signature_verification", "jwt_verification", "token_expiry",
     "audience_validation", "request", "request_parse", "tool_binding",
     "replay_protection", "rate_limit", "policy_enforcement", "tool_integrity",
     "upstream", "exception", "forwarded"}

Records ==
    {"VERIFICATION_FAILED", "VERIFICATION_PASSED", "POLICY_DECISION",
     "REQUEST_FORWARDED", "BASELINE_PASSTHROUGH"}

Places ==
    {"idle", "resolving", "body", "registry", "forwarding", "answered", "lost"}

\* Types.
TypeOK ==
    /\ clock \in Nat /\ dztMode \in DztModes
    /\ rows \in [Jtis -> Nat]
    /\ lastCleanup \in Nat
    /\ msg \in [Requests -> Messages]
    /\ pc \in [Requests -> Places]
    /\ outcome \in [Requests -> [status : Nat, stage : Stages]]
    /\ trail \in [Requests -> Seq(Records)]
    /\ spentAt \in [Requests -> Nat]

Spent(r) == spentAt[r] > 0

\* No token gets in twice while it is valid: when a request is let past the
\* replay check with the jti of an earlier one, the token of the earlier one has
\* expired, whatever cleanups, crashes and slow bodies come in between
\* (app.py:262-269 with nonce_store.py:34-72).
NoReplayInLifetime ==
    \A r, s \in Requests :
        /\ r # s /\ Spent(r) /\ Spent(s)
        /\ msg[r].jti = msg[s].jti /\ msg[r].exp = msg[s].exp
        => spentAt[r] >= msg[r].exp * TicksPerSecond
           \/ spentAt[s] >= msg[s].exp * TicksPerSecond

\* As long as a token that got in could be accepted again, its row is in the
\* table: what makes NoReplayInLifetime hold.
SpentIsRemembered ==
    \A r \in Requests :
        Spent(r) /\ msg[r].exp >= IntNow => rows[msg[r].jti] = msg[r].exp

\* "Remove nonces that have expired (token can no longer be replayed)"
\* (nonce_store.py:35): one token gets in once, ever.
AtMostOnce ==
    \A r, s \in Requests :
        r # s /\ Spent(r) /\ Spent(s) /\ msg[r].jti = msg[s].jti =>
            msg[r].exp # msg[s].exp

\* The keys a DID may ever have published.
KeysOf(did) ==
    {InitialDocuments[did]} \cup {change[2] : change \in
                                    {c \in Rotations : c[1] = did}}

\* A token that its issuer signed, and that the request is bound to.
Genuine(m) ==
    /\ m.form = "jwt" /\ m.claims = "good" /\ m.iss \in Dids
    /\ m.key \in KeysOf(m.iss)
    /\ m.tool = m.asked

\* A replay is a second use: another request, with a genuine token of the same jti,
\* got in.  Its issuer may be another agent, since jti alone is the key of the
\* table (nonce_store.py:25).
ReplayIsReal(r) ==
    outcome[r].stage = "replay_protection" /\ msg[r].jti # NoJti =>
        \E s \in Requests \ {r} :
            Spent(s) /\ Genuine(msg[s]) /\ msg[s].jti = msg[r].jti

\* Only genuine tokens cost anybody anything: a jti is stored, and an agent's rate
\* charged, only for a token that the agent signed and that fits its request.  No
\* forgery, expired token or token on another body makes a later request a replay,
\* nor fills a window: a request is refused over the rate only because tokens of its
\* own agent filled it.  It is not that a jti belongs to an agent: a genuine token
\* of another one may have spent it (app.py:228-275).
OnlyGenuineTokensCost ==
    /\ \A r \in Requests : Spent(r) => Genuine(msg[r])
    /\ \A r \in Requests : ReplayIsReal(r)
    /\ Rate!RefusalIsDeserved

WrittenFor(r, record) == \E i \in 1 .. Len(trail[r]) : trail[r][i] = record

\* The mode in which the process took up r.
InBaseline(r) ==
    \/ WrittenFor(r, "BASELINE_PASSTHROUGH")
    \/ outcome[r].stage = "request"

\* Hashes of a tool that the registry may have given.
HashesOf(tool) ==
    {cat[tool] : cat \in Catalogues \cup
                    (IF UpstreamMode = "github" THEN {LocalToolSpecs} ELSE {})}

\* Request r was, or is being, forwarded to the upstream server.
Reached(r) ==
    pc[r] = "forwarding" \/ outcome[r].stage \in {"forwarded", "upstream"}

\* What the steps up to 9 have made sure of.
Consented(r) ==
    /\ Spent(r) /\ Genuine(msg[r])
    /\ is_allowed(msg[r].iss, msg[r].asked, msg[r].params) = "allow"
    /\ msg[r].hash # NoHash

\* Complete mediation: in secure mode nothing reaches the upstream server that has
\* not a genuine token, a jti spent by this very request, the policy's consent
\* and the hash of a published specification, in whatever order lookups of keys
\* and specifications of other requests ended (app.py:177-308).
Mediation ==
    \A r \in Requests :
        Reached(r) /\ ~ InBaseline(r) =>
            Consented(r) /\ msg[r].hash \in HashesOf(msg[r].asked)

\* The audit file tells the answers apart: a request refused with a status below
\* 500 has its VERIFICATION_FAILED, and no VERIFICATION_PASSED; one that
\* was answered 200 has its REQUEST_FORWARDED, last; and no other has it
\* (app.py:91-97, 278-312).
AuditMatchesAnswers ==
    \A r \in Requests :
        ~ InBaseline(r) =>
            /\ outcome[r].status \in {400, 401, 403, 429} <=>
                   WrittenFor(r, "VERIFICATION_FAILED")
            /\ WrittenFor(r, "VERIFICATION_FAILED") =>
                   ~ WrittenFor(r, "VERIFICATION_PASSED")
            /\ outcome[r].status = 200 <=> WrittenFor(r, "REQUEST_FORWARDED")
            /\ outcome[r].status = 200 =>
                   trail[r] = << "POLICY_DECISION", "VERIFICATION_PASSED",
                                 "REQUEST_FORWARDED" >>

\* "Every security decision (allow, deny, error) is logged" (audit.py:5): every
\* request that has its answer left a record.
EveryAnswerIsLogged ==
    \A r \in Requests : pc[r] = "answered" => trail[r] # << >>

\* The specifications that the registry may ever answer with.
Specifications ==
    IF UpstreamMode = "local" THEN Catalogues
    ELSE {LocalToolSpecs} \cup {Registry!Merged(cat) : cat \in {c \in Catalogues : HasPat}}

\* What an honest agent with a DID file sends: a token signed with the one key it
\* ever has, a jti that no issuer uses in another token, a tool it may use, and the
\* hash that every specification of the tool has.
Honest(r) ==
    LET m == msg[r] IN
    /\ Genuine(m) /\ m.iss \in LocalDids /\ m.key \in Keys /\ KeysOf(m.iss) = {m.key}
    /\ m.body = "json" /\ m.asked # NoTool /\ m.jti # NoJti
    /\ \A s \in Requests \ {r} : msg[s].jti = m.jti => ~ Genuine(msg[s])
    /\ is_allowed(m.iss, m.asked, m.params) = "allow"
    /\ m.hash # NoHash /\ \A specs \in Specifications : specs[m.asked] = m.hash

\* An honest request is refused for its age or its rate only: forged tokens that
\* carry its jti, bodies that do not parse, crashes, failures of other requests and
\* of GitHub, and what others publish never make the pipeline turn it down
\* (app.py:177-300).
HonestIsServed ==
    \A r \in Requests :
        Honest(r) => outcome[r].stage \in
            {"none", "token_expiry", "rate_limit", "forwarded", "upstream",
             "exception"}

===============================================================================
