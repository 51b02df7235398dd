---------------------------- MODULE MCToolRegistry ----------------------------
(* Instances of ToolRegistry for TLC: registry_local.cfg, registry_github.cfg. *)
EXTENDS ToolRegistry, TLC

ToolNames == {"echo", "get_me"}

\* echo is published in two versions.
TwoCatalogues ==
    {[echo |-> "e1", get_me |-> "none"], [echo |-> "e2", get_me |-> "none"]}

GithubCatalogue == {[echo |-> "none", get_me |-> "g2"]}

DemoSpecs == [echo |-> "e1", get_me |-> "g1"]

CallerNames == Permutations(Callers)
===============================================================================
