-------------------------------- MODULE MCProxy --------------------------------
(***************************************************************************)
(* Instances of Proxy for TLC.  The DIDs agent1 and agent2 have files, and *)
(* webagent a web server; k1, k2, k3 are their keys and k0 that of nobody. *)
(***************************************************************************)
EXTENDS Proxy, TLC

RequestNames == Permutations(Requests)

Agents == {"agent1", "agent2", "webagent"}
AgentsWithFiles == {"agent1", "agent2"}
AllKeys == {"k0", "k1", "k2", "k3"}
Documents1 == [agent1 |-> "k1", agent2 |-> "k2", webagent |-> "k3"]
NoRotation == {}
WebRotation == {<<"webagent", "k2">>}

ToolNames == {"echo", "read_file", "get_me", "run_cmd"}
DemoSpecs == [echo |-> "e1", read_file |-> "f1", get_me |-> "g1", run_cmd |-> "c1"]
ServerCatalogue ==
    {[echo |-> "e1", read_file |-> "f1", get_me |-> "none", run_cmd |-> "c1"]}

\* What agent1 sends in good order, with jti j1, valid until the second 5.
Good == [form |-> "jwt", iss |-> "agent1", key |-> "k1", claims |-> "good",
         exp |-> 5, tool |-> "echo", jti |-> "j1", hash |-> "e1",
         body |-> "json", asked |-> "echo", params |-> "pass"]

\* The token of agent1, several times; the same claims with a signature of nobody;
\* the token with a body that asks for something else.
ReplayMessages ==
    {Good, [Good EXCEPT !.key = "k0"], [Good EXCEPT !.asked = "read_file"]}

\* Tokens that pass as good ones until some step, and good ones; the flaws that
\* the attacks of MCEvaluation have are not repeated here.
Flawed ==
    {[Good EXCEPT !.form = "malformed"], [Good EXCEPT !.key = "k0"],
     [Good EXCEPT !.claims = "rejected"], [Good EXCEPT !.exp = 2],
     [Good EXCEPT !.body = "garbled"], [Good EXCEPT !.asked = "none"],
     [Good EXCEPT !.params = "raise"], [Good EXCEPT !.hash = "e2"]}

InOrder ==
    {Good, [Good EXCEPT !.jti = "j2"],
     [Good EXCEPT !.tool = "get_me", !.asked = "get_me", !.hash = "g2"],
     [Good EXCEPT !.iss = "agent2", !.key = "k2"],
     [Good EXCEPT !.iss = "webagent", !.key = "k3", !.jti = "j2"]}

PipelineMessages == Flawed \cup InOrder

\* GitHub publishes get_me in one version, or in two.
Github(get_me) ==
    [echo |-> "none", read_file |-> "none", get_me |-> get_me, run_cmd |-> "none"]
GithubCatalogue == {Github("g2")}
TwoGithubCatalogues == {Github("g2"), Github("g3")}

\* Requests on which the handler raises an exception.
RaisingMessages ==
    {[Good EXCEPT !.body = "garbled"], [Good EXCEPT !.params = "raise"], Good}

===============================================================================
