-------------------------------- MODULE Policy --------------------------------
(***************************************************************************)
(* dzt_proxy/config.py:upstream_mode and dzt_proxy/policy.py: which agent  *)
(* may call which tool.  Constants only.  The parameters of a call are     *)
(* what the rule of the tool makes of them: it lets them "pass", "refuses" *)
(* them, or "raises" on a value of a type it did not expect                *)
(* (message.lower() of a number, a list looked up in a set of paths).      *)
(***************************************************************************)

CONSTANT RawUpstreamMode   \* the environment variable UPSTREAM_MODE, lower case

ParamKinds == {"pass", "refuse", "raise"}

\* config.upstream_mode(): anything unknown is github.
UpstreamMode == IF RawUpstreamMode = "local" THEN "local" ELSE "github"

AGENT_POLICIES ==
    [agent1 |-> [allowed_tools |-> {"echo", "read_file", "get_me"},
                 param_rules   |-> {"echo", "read_file"}],
     agent2 |-> [allowed_tools |-> {"echo"},
                 param_rules   |-> {"echo"}]]

GLOBAL_BLOCKLIST == {"run_cmd"}

\* policy.py reads the variable again and takes it as it stands.
DynamicTools == IF RawUpstreamMode = "github" THEN {"get_me"} ELSE {}

\* "allow", "refuse" or, an exception out of a parameter rule, "raise".
is_allowed(agent_did, tool, params) ==
    IF \/ tool \in GLOBAL_BLOCKLIST
       \/ agent_did \notin DOMAIN AGENT_POLICIES
       \/ tool \notin AGENT_POLICIES[agent_did].allowed_tools \cup DynamicTools
    THEN "refuse"
    ELSE IF tool \in AGENT_POLICIES[agent_did].param_rules /\ params # "pass"
         THEN params
         ELSE "allow"
===============================================================================
