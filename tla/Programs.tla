-------------------------------- MODULE Programs --------------------------------
(***************************************************************************)
(* The client programs of the repository as data: what each of them asks   *)
(* and calls, in order.  eval/attack_runner.py in its four modes,          *)
(* eval/benign_test.py, eval/latency_benchmark.py and its GitHub variant,  *)
(* client/call_tool.py.                                                    *)
(*                                                                         *)
(* A call has                                                              *)
(*   to       "proxy", "baseline", "github", or "no_pat" (GitHub without)  *)
(*   message  of a call to the proxy, a message of Proxy; its jti is Fresh *)
(*            if the program draws one, its hash Probed if the program     *)
(*            takes it from a probe; of a direct call, the tool only       *)
(*   reuse    the number of the earlier call whose token it sends again, 0 *)
(*            if it has a token of its own                                 *)
(*   catches  whether an exception is a result and not the end             *)
(*   expect   "allowed" or "blocked", and                                  *)
(*   aim      the stage at which an attack is aimed                        *)
(*   name     what the names of the report tell apart: "valid",            *)
(*            "replay 1st", or "attack"                                    *)
(***************************************************************************)
EXTENDS Naturals, Sequences

CONSTANTS
    NoJti, Fresh,
    BenignCalls,    \* N of benign_test
    Warmups,        \* WARMUP of the benchmarks
    Measured,       \* N of the benchmarks
    DirectRepeats   \* for the eight equal attacks of github_direct

Probed == "probed"     \* the hash that the program was told
ZeroHash == "zero"     \* "0" * 64

Repeat(calls, n) ==
    [i \in 1 .. n * Len(calls) |-> calls[((i - 1) % Len(calls)) + 1]]
-------------------------------------------------------------------------------
\* mint, mint_jwt and sign_token with their defaults, and a body for the tool.
Token(tool, ttl) ==
    [form |-> "jwt", iss |-> "agent1", key |-> "k1", claims |-> "good", exp |-> ttl,
     tool |-> tool, jti |-> Fresh, hash |-> Probed,
     body |-> "json", asked |-> tool, params |-> "pass"]

Attack(tool) == Token(tool, 300)

Call(name, to, message, catches, expect, aim) ==
    [name |-> name, to |-> to, message |-> message, reuse |-> 0,
     catches |-> catches, expect |-> expect, aim |-> aim]

\* A call of run_single, through the proxy or not.
Allowed(name, message) == Call(name, "proxy", message, TRUE, "allowed", "none")
Blocked(message, aim) == Call("attack", "proxy", message, TRUE, "blocked", aim)
Again(first, aim) == [Blocked(Attack("none"), aim) EXCEPT !.reuse = first]
Direct(name, to, tool, expect) ==
    Call(name, to, [asked |-> tool], TRUE, expect, "none")

\* A call of the programs that only send good requests: its exceptions, curl's
\* excepted, end the program.
Good(tool, catches) ==
    Call("valid", "proxy", Token(tool, 60), catches, "allowed", "none")
Plain(to, tool, catches) ==
    Call("valid", to, [asked |-> tool], catches, "allowed", "none")

build_attacks_local_direct ==
    LET call(name, tool) == Direct(name, "baseline", tool, "allowed")
    IN  << call("valid", "echo"), call("attack", "echo"), call("attack", "run_cmd"),
           call("replay 1st", "echo"), call("attack", "echo"), call("attack", "echo"),
           call("attack", "run_cmd"), call("attack", "read_file") >>

build_attacks_local_proxy ==
    LET echo == Attack("echo") IN
    << Allowed("valid", echo),
       Blocked([echo EXCEPT !.form = "none"], "token_presence"),
       Blocked([Attack("run_cmd") EXCEPT !.hash = ZeroHash], "policy_enforcement"),
       Allowed("replay 1st", echo),
       Again(4, "replay_protection"),
       Blocked([echo EXCEPT !.hash = ZeroHash], "tool_integrity"),
       Blocked([echo EXCEPT !.claims = "elsewhere"], "audience_validation"),
       Blocked([echo EXCEPT !.exp = 0], "token_expiry"),
       Blocked([echo EXCEPT !.iss = "hacker"], "did_resolution"),
       Blocked([echo EXCEPT !.asked = "run_cmd"], "tool_binding"),
       Blocked([echo EXCEPT !.hash = "none"], "tool_integrity"),
       Blocked([echo EXCEPT !.claims = "rejected", !.jti = NoJti], "jwt_verification"),
       Blocked([Attack("read_file") EXCEPT !.params = "refuse"], "policy_enforcement") >>

build_attacks_github_direct ==
    LET call(name) == Direct(name, "github", "get_me", "allowed")
    IN  << call("valid"), call("replay 1st") >>
            \o Repeat(<< call("attack") >>, DirectRepeats)
            \o << Direct("attack", "no_pat", "get_me", "blocked") >>

build_attacks_github_proxy ==
    LET get_me == Attack("get_me") IN
    << Allowed("valid", get_me),
       Allowed("replay 1st", get_me),
       Again(2, "replay_protection"),
       Blocked([get_me EXCEPT !.form = "none"], "token_presence"),
       Blocked([get_me EXCEPT !.hash = ZeroHash], "tool_integrity"),
       Blocked([get_me EXCEPT !.claims = "elsewhere"], "audience_validation"),
       Blocked([get_me EXCEPT !.exp = 0], "token_expiry"),
       Blocked([get_me EXCEPT !.iss = "hacker"], "did_resolution"),
       Blocked([get_me EXCEPT !.hash = "none"], "tool_integrity"),
       Blocked([get_me EXCEPT !.claims = "rejected", !.jti = NoJti], "jwt_verification"),
       Blocked([Attack("echo") EXCEPT !.asked = "get_me"], "tool_binding"),
       Blocked([get_me EXCEPT !.key = "k0"], "signature_verification"),
       Blocked([get_me EXCEPT !.form = "malformed"], "jwt_decode"),
       Again(2, "replay_protection") >>
-------------------------------------------------------------------------------
\* The calls of a benchmark: some of each to warm up, then those it measures.
Benchmark(direct, proxied) ==
    Repeat(<< direct, proxied >>, Warmups)
        \o Repeat(<< direct >>, Measured) \o Repeat(<< proxied >>, Measured)

\* The breakdown and the curl snapshots of the GitHub benchmark.
Diagnostics ==
    << Plain("github", "get_me", FALSE), Good("get_me", FALSE),
       Plain("github", "get_me", TRUE), Good("get_me", TRUE) >>

\* Who answers the probes of a program: "proxy", at /debug/tool-hash, or "own", the
\* registry of its own process; and whether a probe that fails gives ZeroHash.
Program(needs, probes, asks, forgives, calls) ==
    [needs |-> needs, probes |-> probes, asks |-> asks, forgives |-> forgives,
     calls |-> calls]

\* The programs for each UPSTREAM_MODE, with what they make sure of first: that
\* a server answers, and that the PAT is there ("pat") or is good ("good_pat").
ProgramsOf(mode) ==
    IF mode = "local" THEN
        [local_direct |-> Program({"baseline"}, << >>, "proxy", TRUE,
                                  build_attacks_local_direct),
         local_proxy |-> Program({"proxy", "baseline"}, << "echo", "read_file" >>,
                                 "proxy", TRUE, build_attacks_local_proxy),
         benign |-> Program({"proxy"}, << "echo" >>, "proxy", FALSE,
                            Repeat(<< Good("echo", FALSE) >>, BenignCalls)),
         latency |-> Program({"proxy", "baseline"}, << "echo" >>, "proxy", FALSE,
                             Benchmark(Plain("baseline", "echo", FALSE),
                                       Good("echo", FALSE))),
         client |-> Program({}, << "echo" >>, "own", FALSE,
                            << Good("echo", FALSE) >>)]
    ELSE
        [github_direct |-> Program({"good_pat"}, << >>, "proxy", TRUE,
                                   build_attacks_github_direct),
         github_proxy |-> Program({"proxy", "good_pat"}, << "get_me", "echo" >>,
                                  "proxy", TRUE, build_attacks_github_proxy),
         benign |-> Program({"proxy"}, << "get_me" >>, "proxy", FALSE,
                            Repeat(<< Good("get_me", FALSE) >>, BenignCalls)),
         latency |-> Program({"proxy", "pat"}, << "get_me" >>, "proxy", FALSE,
                             Benchmark(Plain("github", "get_me", FALSE),
                                       Good("get_me", FALSE)) \o Diagnostics),
         client |-> Program({}, << "get_me" >>, "own", FALSE,
                            << Good("get_me", FALSE) >>)]

\* How a program may end: "finished" with its result file written, "aborted" with a
\* message and without a file, or "failed" by an exception; run_single catches the
\* exceptions of the attacks.
EndsOf(name) ==
    {"finished", "aborted"} \cup
        (IF name \in {"benign", "latency", "client"} THEN {"failed"} ELSE {})
===============================================================================
