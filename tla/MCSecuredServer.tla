---------------------------- MODULE MCSecuredServer ----------------------------
(* Instance of SecuredServer for TLC: server_once.cfg.                         *)
EXTENDS SecuredServer

\* Two tokens of agent1, two that share a jti with another lifetime, and one that
\* the key of nobody signed; one asks for the tool that may raise.
Token(tool, jti, exp, iss, key) ==
    [form |-> "jwt", iss |-> iss, key |-> key, claims |-> "good", exp |-> exp,
     tool |-> tool, jti |-> jti]
FiveTokens ==
    {Token("echo", "j1", 3, "agent1", "k1"), Token("read_file", "j2", 5, "agent1", "k1"),
     Token("echo", "j1", 5, "agent2", "k2"), Token("echo", "j1", 3, "agent1", "k0"),
     Token("echo", "none", 3, "agent1", "k1")}

FirstKeys == [agent1 |-> "k1", agent2 |-> "k2"]
===============================================================================
