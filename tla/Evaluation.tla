------------------------------- MODULE Evaluation -------------------------------
(***************************************************************************)
(* The client programs of the repository (Programs) at work, with Proxy as *)
(* what they talk to: run_all and run_single of eval/attack_runner.py, the *)
(* main of eval/benign_test.py and of the latency benchmarks, call_tool of *)
(* client/call_tool.py.  Each makes sure of some servers, asks for the     *)
(* hashes of some tools (probes), then makes its calls, one after the      *)
(* other, and judges every answer.                                         *)
(*                                                                         *)
(* A client that gives up on a request does not stop the handler of the    *)
(* proxy, which may end during the calls that follow.                      *)
(*                                                                         *)
(* Step i of a program is request i of the proxy: probes first, calls      *)
(* after them; the request of a step that does not go to the proxy stays   *)
(* unsent.  What goes wrong in the surroundings (the proxy dies, a client  *)
(* runs into a timeout, the upstream server stops or starts to answer,     *)
(* GitHub refuses a call) does so MaxFailures times at most.               *)
(***************************************************************************)
EXTENDS Proxy, Report

CONSTANTS
    Fresh, BenignCalls, Warmups, Measured, DirectRepeats,   \* of Programs
    Unsent,       \* no message: what a request carries before it is sent
    MaxFailures   \* bound on what goes wrong

Suite == INSTANCE Programs

VARIABLES
    program,     \* the program that runs
    step,        \* the step in hand, 0 for the checks
    sent,        \* whether its request is with the proxy
    ended,       \* "no", "finished" (its results are written), "aborted", "failed"
    hashes,      \* what the probes found
    verdicts,    \* results: the status and blocked of each call made
    failures,    \* how often something went wrong
    down,        \* whether exchanges with the upstream server fail now
    forgotten    \* history: whether the proxy failed to learn GitHub's tools

clientVars == << program, step, sent, ended, hashes, verdicts >>
worldVars == << failures, down >>
evaluationVars == << vars, clientVars, worldVars, forgotten >>

Programs == Suite!ProgramsOf(UpstreamMode)

\* The hashes that a program may be told, or make up.
Hashes == {Suite!ZeroHash} \cup UNION {HashesOf(tool) : tool \in Tools}

\* What a program makes of the message of a call: it fills in hash and jti.
Filled(message, hash, jti) == [message EXCEPT !.hash = hash, !.jti = jti]

\* Every step has a request and a jti of its own; a run is shorter than the life of
\* a token; the proxy runs in the mode that the programs measure; nobody has a
\* tool whose hash is 64 zeros, and agent1 not the key that the attacks forge with.
ASSUME EvaluationAssumption ==
    /\ Requests \subseteq Nat \cap Jtis
    /\ \A name \in DOMAIN Programs :
           LET calls == Programs[name].calls
           IN  /\ 1 .. Len(Programs[name].probes) + Len(calls) \subseteq Requests
               /\ \A k \in 1 .. Len(calls) :
                      calls[k].to = "proxy" /\ calls[k].reuse = 0 =>
                          \A hash \in Hashes \cup {calls[k].message.hash},
                             jti \in Jtis \cup {NoJti} :
                              Filled(calls[k].message, hash, jti) \in Messages
    /\ Unsent \in Messages
    /\ {BenignCalls, Warmups, Measured, DirectRepeats, MaxFailures} \subseteq Nat
    /\ {"echo", "read_file", "get_me", "run_cmd"} \subseteq Tools
    /\ Epoch < 60 * TicksPerSecond /\ MaxClock < 60 * TicksPerSecond
    /\ "baseline" \notin DztModes
    /\ \A tool \in Tools : Suite!ZeroHash \notin HashesOf(tool) \cup {LocalToolSpecs[tool]}
    /\ Fresh \notin Jtis \cup {NoJti} /\ NoTool \notin Tools
    /\ "k0" \notin KeysOf("agent1")

\* While the programs run, agent1 has a file with the key that they sign with, and
\* nobody has a document for the DID that the attacks make up.
ASSUME IdentityAssumption ==
    /\ {"k0", "k1"} \subseteq Keys
    /\ "agent1" \in LocalDids /\ KeysOf("agent1") = {"k1"}
    /\ "hacker" \in Dids => KeysOf("hacker") = {NoDocument}

Probes == Programs[program].probes
Calls == Programs[program].calls
StepOf(number) == number + Len(Probes)
IsProbe(i) == i \in 1 .. Len(Probes)
IsCall(i) == i - Len(Probes) \in 1 .. Len(Calls)
Call(i) == Calls[i - Len(Probes)]
IsAttackRun == program \notin {"benign", "latency", "client"}

\* The calls that are with the proxy, those the client gave up included.
WithProxy == {i \in Requests :
                /\ IsCall(i) /\ msg[i] # Unsent
                /\ pc[i] \notin {"answered", "lost"}}

NextStep == step' = step + 1 /\ sent' = FALSE /\ UNCHANGED ended

Abort == ended' = "aborted" /\ UNCHANGED << step, sent >>
Raises == ended' = "failed" /\ UNCHANGED << step, sent >>

Fails == failures < MaxFailures /\ failures' = failures + 1
-------------------------------------------------------------------------------
\* The program makes sure of what it needs, in the surroundings or in .env.
Check ==
    LET needs == Programs[program].needs
        patMissing == needs \cap {"pat", "good_pat"} # {} /\ ~ HasPat
    IN  /\ step = 0 /\ ended = "no"
        /\ \/ ~ patMissing /\ NextStep
           \/ patMissing /\ Abort
           \/ needs \cap {"proxy", "baseline", "good_pat"} # {} /\ Abort
        /\ UNCHANGED << vars, program, hashes, verdicts, worldVars >>

\* The program has the answer to a probe; NoHash if the tool is unknown (404,
\* KeyError) or if there was no answer.
ProbeEnds(hash) ==
    \/ /\ hash # NoHash
       /\ hashes' = [hashes EXCEPT ![Probes[step]] = hash] /\ NextStep
    \/ /\ hash = NoHash /\ Programs[program].forgives
       /\ hashes' = [hashes EXCEPT ![Probes[step]] = Suite!ZeroHash] /\ NextStep
    \/ /\ hash = NoHash /\ ~ Programs[program].forgives
       /\ IF Programs[program].asks = "own" THEN Raises ELSE Abort
       /\ UNCHANGED hashes

\* The program asks the proxy, which may have to ask its upstream.
Probe ==
    /\ IsProbe(step) /\ ~ sent /\ ended = "no"
    /\ Programs[program].asks = "proxy"
    /\ \/ /\ Registry!Ready
          /\ ProbeEnds(Registry!Current[Probes[step]])
          /\ UNCHANGED registryVars
       \/ /\ Registry!Ask(step)
          /\ sent' = TRUE /\ UNCHANGED << step, ended, hashes >>
    /\ UNCHANGED << clock, dztMode, nonceVars, rateVars, resolverVars, ownerVars,
                    upstreamVars, msg, requestVars, program, verdicts, worldVars >>

\* The program asks the registry of its own process, whose cache is empty.
ProbeOwn ==
    /\ IsProbe(step) /\ ended = "no" /\ Programs[program].asks = "own"
    /\ LET tool == Probes[step]
       IN  \/ ~ down /\ UpstreamMode = "local" /\ ProbeEnds(catalogue[tool])
           \/ down /\ UpstreamMode = "local" /\ ProbeEnds(NoHash)
           \/ ~ down /\ UpstreamMode = "github" /\ HasPat
              /\ ProbeEnds(Registry!Merged(catalogue)[tool])
           \/ (down \/ ~ HasPat) /\ UpstreamMode = "github"
              /\ ProbeEnds(LocalToolSpecs[tool])
    /\ UNCHANGED << vars, program, verdicts, worldVars >>

\* debug_tool_hash goes on when the fetch ends, whether anybody waits or not.
ProbeAnswered(i) ==
    LET reaches(hash) ==
            IF i = step /\ sent /\ ended = "no" THEN ProbeEnds(hash)
            ELSE UNCHANGED << step, sent, ended, hashes >>
        tool == Probes[i]
    IN  /\ \/ Registry!Deliver(i) /\ reaches(Registry!Fetched(i)[tool])
           \/ /\ Registry!Fail(i) /\ down
              /\ reaches(IF UpstreamMode = "local" THEN NoHash
                         ELSE LocalToolSpecs[tool])
        /\ UNCHANGED << clock, dztMode, nonceVars, rateVars, resolverVars, ownerVars,
                        upstreamVars, msg, requestVars, program, verdicts, worldVars >>
-------------------------------------------------------------------------------
Ready(i) == IsCall(i) /\ ~ sent /\ ended = "no"

\* What the proxy gets: the token of an earlier call, or one that is minted now
\* with the hash that was found and a jti of its own.
Minted(call) ==
    IF call.reuse # 0 THEN msg[StepOf(call.reuse)]
    ELSE LET m == call.message
         IN  Filled(m, IF m.hash = Suite!Probed THEN hashes[m.tool] ELSE m.hash,
                       IF m.jti = Fresh THEN step ELSE m.jti)

\* The program sends the next call to the proxy.
Send ==
    /\ Ready(step) /\ Call(step).to = "proxy"
    /\ msg' = [msg EXCEPT ![step] = Minted(Call(step))]
    /\ sent' = TRUE
    /\ UNCHANGED << clock, dztMode, nonceVars, rateVars, resolverVars, ownerVars,
                    registryVars, upstreamVars, requestVars, program, step, ended,
                    hashes, verdicts, worldVars >>

\* An answer of 200 may hold an error of the tool; echo has none.
MayHoldError(tool) == tool # "echo" \/ UpstreamMode = "github"

\* Faulty variant: only the status is kept.
RecordStatusOnly(status, error) ==
    verdicts' = Append(verdicts, [status |-> status]) /\ NextStep

\* The result of a call: run_single looks for an error in an answer of 200, the
\* other programs at the status alone.
Record(status, error) ==
    /\ verdicts' = Append(verdicts, [status |-> status,
                                     blocked |-> status >= 400 \/ error])
    /\ NextStep

\* An exception in a call: a result with status 0, or the end.
Except ==
    \/ Call(step).catches
       /\ verdicts' = Append(verdicts, [status |-> 0, blocked |-> TRUE]) /\ NextStep
    \/ ~ Call(step).catches /\ Raises /\ UNCHANGED verdicts

\* The answer of the proxy is there.
Judge ==
    /\ IsCall(step) /\ sent /\ ended = "no"
    /\ pc[step] = "answered"
    /\ \E error \in BOOLEAN :
          /\ error => /\ outcome[step].status = 200 /\ IsAttackRun
                      /\ MayHoldError(msg[step].asked)
          /\ Record(outcome[step].status, error)
    /\ UNCHANGED << vars, program, hashes, worldVars >>

\* An answer of 200 to a call without the proxy.
ServesDirect(tool) ==
    \E error \in BOOLEAN :
        /\ error => IsAttackRun /\ MayHoldError(tool)
        /\ Record(200, error)

\* The baseline server answers any call; read_file may raise.
BaselineAnswers(tool) ==
    \/ ServesDirect(tool)
    \/ tool = "read_file" /\ Record(500, FALSE)

\* GitHub serves who has a PAT, and refuses who has none.  It may also refuse a
\* call with the PAT: a PAT without the scope, too many calls, a failure of
\* GitHub.  To the client that is a result like any other.
GithubAnswers(tool, pat) ==
    \/ pat /\ ServesDirect(tool) /\ UNCHANGED failures
    \/ ~ pat /\ Record(401, FALSE) /\ UNCHANGED failures
    \/ Fails /\ \E status \in {403, 429, 500} : Record(status, FALSE)

\* A call to the baseline server or to GitHub, and its answer.
CallDirect ==
    LET tool == Call(step).message.asked
        to == Call(step).to
    IN  /\ Ready(step) /\ to # "proxy"
        /\ \/ down /\ Except /\ UNCHANGED failures
           \/ ~ down /\ to = "baseline" /\ BaselineAnswers(tool) /\ UNCHANGED failures
           \/ ~ down /\ to # "baseline" /\ GithubAnswers(tool, to = "github" /\ HasPat)
        /\ UNCHANGED << vars, program, hashes, down >>

\* Faulty variant: no exception for a connection that broke.
GiveUpOnTheLiving ==
    /\ sent /\ ended = "no" /\ Fails
    /\ IsProbe(step) \/ pc[step] # "lost"
    /\ \/ IsProbe(step) /\ ProbeEnds(NoHash) /\ UNCHANGED verdicts
       \/ IsCall(step) /\ Except /\ UNCHANGED hashes
    /\ UNCHANGED << vars, program, down >>

\* The connection of the request in hand broke, since the proxy died, or the
\* program runs into its timeout.
GiveUp ==
    /\ sent /\ ended = "no"
    /\ IF \/ IsProbe(step) /\ fetch[step] = Registry!NoFetch
          \/ IsCall(step) /\ pc[step] = "lost"
       THEN UNCHANGED failures
       ELSE Fails
    /\ \/ IsProbe(step) /\ ProbeEnds(NoHash) /\ UNCHANGED verdicts
       \/ IsCall(step) /\ Except /\ UNCHANGED hashes
    /\ UNCHANGED << vars, program, down >>

\* All the calls are made: the summary, and the result file.
Finish ==
    /\ step > StepOf(Len(Calls)) /\ ended = "no"
    /\ ended' = "finished"
    /\ UNCHANGED << vars, program, step, sent, hashes, verdicts, worldVars >>

Client ==
    \/ Check \/ Probe \/ ProbeOwn \/ Send \/ Judge \/ CallDirect \/ GiveUp \/ Finish
-------------------------------------------------------------------------------
\* Handler i found the upstream server out of reach.
MissesUpstream(i) ==
    \/ outcome'[i] # outcome[i] /\ outcome'[i].stage \in {"exception", "upstream"}
    \/ cacheRemote' = Registry!NoTools /\ cacheRemote # Registry!NoTools

\* The proxy works on what it was sent, whether the client still waits or not.
Proxying ==
    \/ \E i \in {j \in Requests : IsProbe(j)} : ProbeAnswered(i)
    \/ \E i \in WithProxy :
          /\ Handler(i)
          /\ MissesUpstream(i) => down
          /\ pc[i] = "forwarding" /\ down => MissesUpstream(i)
          /\ UNCHANGED << clientVars, worldVars >>

\* The upstream server, while it can be reached, answers a query for its tools.
UpstreamAnswers ==
    ~ down /\ (\E i \in Requests : Serve(i)) /\ UNCHANGED << clientVars, worldVars >>

Dies == Fails /\ Crash /\ UNCHANGED << clientVars, down >>

Outage == Fails /\ down' = ~ down /\ UNCHANGED << vars, clientVars >>

World ==
    \/ (Publish \/ Tick) /\ UNCHANGED << clientVars, worldVars >>
    \/ Dies \/ Outage

EvaluationInit ==
    /\ Start
    /\ msg = [i \in Requests |-> Unsent]
    /\ program \in DOMAIN Programs
    /\ step = 0 /\ sent = FALSE /\ ended = "no"
    /\ hashes = [t \in Tools |-> Suite!ZeroHash]
    /\ verdicts = << >> /\ failures = 0 /\ down = FALSE
    /\ forgotten = FALSE

EvaluationNext ==
    /\ Client \/ Proxying \/ UpstreamAnswers \/ World
    /\ forgotten' = (forgotten \/ cacheRemote' = Registry!NoTools)

\* The client goes on: its timeouts see to that.  So does the proxy with what it
\* was sent: a body comes with its headers, and the timeouts of 10 and 30 s that
\* the code gives httpx end an exchange that no answer ends; an upstream server
\* that can be reached answers.
EvaluationSpec ==
    /\ EvaluationInit /\ [][EvaluationNext]_evaluationVars
    /\ WF_evaluationVars(EvaluationNext /\ Client)
    /\ WF_evaluationVars(EvaluationNext /\ Proxying)
    /\ WF_evaluationVars(EvaluationNext /\ UpstreamAnswers)
-------------------------------------------------------------------------------
\* Types.
EvaluationTypeOK ==
    /\ program \in DOMAIN Programs
    /\ step \in Nat /\ sent \in BOOLEAN
    /\ ended \in {"no"} \cup Suite!EndsOf(program)
    /\ hashes \in [Tools -> Hashes]
    /\ verdicts \in Seq([status : Nat, blocked : BOOLEAN])
    /\ failures \in 0 .. MaxFailures
    /\ down \in BOOLEAN /\ forgotten \in BOOLEAN

\* A program could not be refused for its hashes: the probes gave what the upstream
\* server publishes, and the proxy never failed to learn it.
HashesAreCurrent ==
    /\ ~ forgotten
    /\ \A k \in 1 .. Len(Probes) :
           hashes[Probes[k]] = Registry!Merged(catalogue)[Probes[k]]

\* The program made all the calls that an agent may make in a window.
QuotaIsUsed ==
    Cardinality({r \in Requests : Spent(r) /\ outcome[r].stage # "rate_limit"})
        >= MaxRequestsPerWindow

\* The request of step i carries a token that an earlier step sent.
IsReplay(i) == Call(i).to = "proxy" /\ Call(i).reuse # 0

\* Verdict i is about an answer of the server, not a failure, and the call was as
\* it was meant: the hashes are right, the quota is left, and of a token that is
\* replayed an earlier use got in.
AsMeant(i) ==
    /\ verdicts[i].status \in 1 .. 499
    /\ ~ (verdicts[i].status = 200 /\ verdicts[i].blocked)
    /\ HashesAreCurrent
    /\ ~ (verdicts[i].status = 429 /\ QuotaIsUsed)
    /\ IsReplay(StepOf(i)) =>
           \E j \in 1 .. i - 1 : /\ msg[StepOf(j)] = msg[StepOf(i)]
                                /\ Spent(StepOf(j))

\* The proxy does to every attack, and to every valid call, what the program
\* expects, whatever became of the calls before it: late handlers of calls the
\* client gave up, outages and restarts turn no verdict around.  Nothing is said of
\* calls without the proxy, where GitHub may refuse what it likes
\* (attack_runner.py:201-271, 335-414, 421-473; benign_test.py:10-12, 65-76;
\* latency_benchmark.py:76-90).
VerdictsAreCorrect ==
    \A i \in 1 .. Len(verdicts) :
        AsMeant(i) /\ Calls[i].to = "proxy" =>
            verdicts[i].blocked = (Calls[i].expect = "blocked")

\* "Every rejection includes machine-readable fields so eval scripts can validate
\* the specific defense that triggered" (app.py:94-95): an attack is stopped by
\* the check it is aimed at, so that no check seems to work because another one
\* stops its attack first.
EachByItsDefence ==
    \A i \in 1 .. Len(verdicts) :
        AsMeant(i) /\ Calls[i].to = "proxy" /\ Calls[i].expect = "blocked" =>
            outcome[StepOf(i)].stage = Calls[i].aim

\* What is reported as blocked stays blocked: no attack is ever executed by the
\* upstream server, not even by a handler whose client has long given it up and
\* reported it, and of the uses of one token one at most is
\* (attack_runner.py:11-12, 463-473).
AttacksNeverExecute ==
    \A i \in Requests :
        IsCall(i) /\ Call(i).to = "proxy" /\ Reached(i) =>
            /\ Call(i).expect = "allowed" \/ IsReplay(i)
            /\ \A j \in Requests \ {i} : msg[j] = msg[i] => ~ Reached(j)

\* The results that run_all writes.
Results == [i \in 1 .. Len(verdicts) |->
               [name |-> Calls[i].name, blocked |-> verdicts[i].blocked]]

\* The calls through the proxy that the upstream server executed, and answered:
\* the attacks ("blocked"), or the valid ones ("allowed").
Executed(expect) ==
    {i \in 1 .. Len(verdicts) :
        /\ Calls[i].to = "proxy" /\ Calls[i].expect = expect
        /\ outcome[StepOf(i)].stage = "forwarded"}

\* What the report makes of a run through the proxy is off by no more than what went
\* wrong in it: every attack it counts as successful was executed, of those
\* executed it misses only as many as had a failure or an answer with an error, and
\* a valid call of the run adds to the true negatives only if it was executed.
\* Nothing is said of the false positives, which the code takes from the benign
\* test alone (attack_runner.py:435-473, generate_tables.py:47-80, 115-132).
ReportErrsByFailures ==
    program \in {"local_proxy", "github_proxy"} /\ ended = "finished" =>
        LET summary == summarize_attacks(Results)
            withError == {i \in Executed("blocked") :
                             verdicts[i].blocked /\ verdicts[i].status = 200}
        IN  /\ summary.succeeded <= Cardinality(Executed("blocked"))
            /\ Cardinality(Executed("blocked")) <=
                   summary.succeeded + failures + Cardinality(withError)
            /\ \A benign \in [total_calls : {BenignCalls}, failures : 0 .. BenignCalls] :
                  calculate_ml_metrics(Results, benign).tn <=
                      Cardinality(Executed("allowed")) + BenignCalls - benign.failures

\* The program ends: it has a timeout for every request, and an answer to every
\* request that the proxy does not lose (attack_runner.py:137-147, 463-473;
\* benign_test.py:69-74).
EvaluationEnds == <>(ended # "no")

\* The proxy's own waits end: no handler is left waiting for a DID document, for
\* the registry or for the upstream server, the client being there or not
\* (app.py:112-172, 223-226, 288-314, tool_registry.py:96-144).
WaitsEnd ==
    <>[](\A i \in Requests :
            /\ pc[i] \notin {"resolving", "registry", "forwarding"}
            /\ fetch[i] = Registry!NoFetch)
===============================================================================
