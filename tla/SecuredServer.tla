----------------------------- MODULE SecuredServer -----------------------------
(***************************************************************************)
(* mcp_server/server.py: the MCP server that verifies every token itself.  *)
(* FastAPI has read and checked the body when call_tool begins, and        *)
(* call_tool has no await: the handler runs alone, from the checks to the  *)
(* end of the tool.  It is two steps here, Accept and Execute, because the *)
(* process may die between them, and because a tool takes its time.  The   *)
(* key of an issuer is read from its file on every call.                   *)
(*                                                                         *)
(* A token has the fields form, iss, key, claims, exp, tool and jti of a   *)
(* message of module Proxy.  Spec implements OneShot.                      *)
(***************************************************************************)
EXTENDS NonceStore

CONSTANTS
    Tokens,
    Asked,        \* the tools that bodies ask for
    Dids,         \* DID_DOCS
    Keys, NoKey,
    InitialKeys,  \* the key in the file of each DID, NoKey without file or key
    NoJti,
    MaxUses,      \* bound on the history of uses
    Epoch, MaxClock

ASSUME ServerAssumption ==
    /\ TicksPerSecond \in Nat \ {0} /\ CleanupInterval \in Nat \ {0}
    /\ DefaultTtl \in Nat \ {0}
    /\ Epoch \in Nat /\ CleanupInterval <= Epoch
    /\ MaxClock \in Nat /\ MaxUses \in Nat
    /\ \A t \in Tokens : t.exp \in Int /\ t.jti \in Jtis \cup {NoJti}
    /\ NoJti \notin Jtis
    /\ NoKey \notin Keys
    /\ InitialKeys \in [Dids -> Keys \cup {NoKey}]

VARIABLES
    keyOnDisk,  \* the first publicKeyPem in the DID document of each DID
    running,    \* the tokens whose tool is being executed: one or none
    uses,       \* history: how many times a tool was executed with each token
    answer      \* the status of the last answer

vars == << clock, nonceVars, keyOnDisk, running, uses, answer >>

\* What verify_token and the checks before it say of a token.
Verified(t) ==
    /\ t.form = "jwt"
    /\ t.iss \in Dids /\ keyOnDisk[t.iss] # NoKey
    /\ t.key = keyOnDisk[t.iss]
    /\ t.claims = "good"
    /\ Unexpired(t.exp)

\* Faulty variant: 403 for 401.
RefuseForbidden(t, asked) ==
    /\ running = {}
    /\ ~ Verified(t) \/ t.tool # asked \/ t.jti = NoJti
    /\ answer' = 403
    /\ UNCHANGED << clock, nonceVars, keyOnDisk, running, uses >>

\* Steps 1 to 5, and an empty jti: refused without a look at the table.
Refuse(t, asked) ==
    /\ running = {}
    /\ ~ Verified(t) \/ t.tool # asked \/ t.jti = NoJti
    /\ answer' = 401
    /\ UNCHANGED << clock, nonceVars, keyOnDisk, running, uses >>

\* Step 6 finds the jti.
RefuseReplay(t, asked) ==
    /\ running = {}
    /\ Verified(t) /\ t.tool = asked /\ t.jti # NoJti
    /\ Recognise(t.jti)
    /\ answer' = 401
    /\ UNCHANGED << clock, keyOnDisk, running, uses >>

\* Step 6 stores it; the tool of step 7 begins.
Accept(t, asked) ==
    /\ running = {}
    /\ Verified(t) /\ t.tool = asked /\ t.jti # NoJti
    /\ Remember(t.jti, t.exp)
    /\ running' = {t}
    /\ UNCHANGED << clock, keyOnDisk, uses, answer >>

\* Step 7 ends.  What the tools report as a failure is a 200 with ok false; but
\* read_file raises on a directory, an unreadable file or a path that is no string,
\* nothing catches it, and FastAPI answers 500.
Execute(t) ==
    /\ t \in running
    /\ uses[t] < MaxUses
    /\ uses' = [uses EXCEPT ![t] = @ + 1]
    /\ running' = {}
    /\ \/ answer' = 200
       \/ t.tool = "read_file" /\ answer' = 500
    /\ UNCHANGED << clock, nonceVars, keyOnDisk >>

\* The process dies, a tool with it, and starts again.
Crash ==
    /\ ReopenStore
    /\ running' = {}
    /\ UNCHANGED << clock, keyOnDisk, uses, answer >>

\* The identity scripts write another key, or remove the document.
Rotate(did, key) ==
    /\ keyOnDisk' = [keyOnDisk EXCEPT ![did] = key]
    /\ UNCHANGED << clock, nonceVars, running, uses, answer >>

Tick ==
    /\ clock < MaxClock
    /\ clock' = clock + 1
    /\ UNCHANGED << nonceVars, keyOnDisk, running, uses, answer >>

Init ==
    /\ clock = Epoch
    /\ StoreInit
    /\ keyOnDisk = InitialKeys
    /\ running = {}
    /\ uses = [t \in Tokens |-> 0]
    /\ answer = 0

Next ==
    \/ \E t \in Tokens, asked \in Asked :
           Refuse(t, asked) \/ RefuseReplay(t, asked) \/ Accept(t, asked)
    \/ \E t \in Tokens : Execute(t)
    \/ \E did \in Dids, key \in Keys \cup {NoKey} : Rotate(did, key)
    \/ Crash \/ Tick

Spec == Init /\ [][Next]_vars
-------------------------------------------------------------------------------
\* Types.
TypeOK ==
    /\ clock \in Nat
    /\ rows \in [Jtis -> Nat]
    /\ lastCleanup \in Nat
    /\ keyOnDisk \in [Dids -> Keys \cup {NoKey}]
    /\ running \in SUBSET Tokens
    /\ uses \in [Tokens -> Nat]
    /\ answer \in {0, 200, 401, 500}

\* A token that was accepted has its row as long as it could be accepted again.
AcceptedIsRemembered ==
    \A t \in Tokens :
        (uses[t] > 0 \/ t \in running) /\ t.exp >= IntNow => rows[t.jti] = t.exp

\* The tool that runs runs with a token that was never used.
RunningIsUnused == \A t \in running : uses[t] = 0 /\ running = {t}

\* The server keeps the promise of OneShot: no token executes two tools, however
\* calls, clean-ups of the table, rotations of keys and crashes interleave
\* (server.py:61-86, nonce_store.py:28-56).
Promise == INSTANCE OneShot
KeepsPromise == Promise!Spec
===============================================================================
