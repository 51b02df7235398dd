------------------------------ MODULE MCEvaluation ------------------------------
(* Instances of Evaluation for TLC: evaluation.cfg, evaluation_github.cfg.       *)
EXTENDS Evaluation, TLC

Agents == {"agent1", "hacker"}
AgentsWithFiles == {"agent1"}
Documents1 == [agent1 |-> "k1", hacker |-> "no document"]
NoRotation == {}

\* What is in a request before it is sent, and what the programs send.
Nothing ==
    [form |-> "unsent", iss |-> "nobody", key |-> "no key", claims |-> "good",
     exp |-> 0, tool |-> "none", jti |-> NoJti, hash |-> "none", body |-> "json",
     asked |-> "none", params |-> "pass"]
CallsToProxy ==
    {call \in UNION {{Programs[name].calls[k] : k \in 1 .. Len(Programs[name].calls)} :
                        name \in DOMAIN Programs} :
        call.to = "proxy" /\ call.reuse = 0}
ProgramMessages ==
    {Nothing} \cup
        {Filled(call.message, hash, jti) :
            call \in CallsToProxy, hash \in Hashes \cup {Suite!Probed, NoHash},
            jti \in Jtis \cup {NoJti}}

\* The requests of the steps of the longest program, and the jtis they draw.
Steps(n) == 1 .. n
LocalSteps == Steps(15)
GithubSteps == Steps(16)

ToolNames == {"echo", "read_file", "get_me", "run_cmd"}
DemoSpecs == [echo |-> "e1", read_file |-> "f1", get_me |-> "g1", run_cmd |-> "c1"]
ServerCatalogue ==
    {[echo |-> "e1", read_file |-> "f1", get_me |-> "none", run_cmd |-> "c1"]}
GithubCatalogue ==
    {[echo |-> "none", read_file |-> "none", get_me |-> "g2", run_cmd |-> "none"]}
===============================================================================
