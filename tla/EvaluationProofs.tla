--------------------------- MODULE EvaluationProofs ----------------------------
(***************************************************************************)
(* The client programs at work with the proxy, whatever goes wrong around  *)
(* them and with handlers that go on after their client gave up: what the  *)
(* client knows keeps its type, no attack through the proxy is executed,   *)
(* each is stopped by the check it is aimed at, and every call answered as *)
(* it should be is judged as the program expects.                          *)
(*                                                                         *)
(* First the programs: a call through the proxy that is meant to be blocked *)
(* is a replay, or its message has the flaw it is aimed at, before and     *)
(* after a hash and a jti are filled in (Flaw, ProgramsAreSound).  Then the *)
(* steps: each is a step of the proxy, a query of its registry, or one that *)
(* leaves the proxy alone but for the message that arrives (StepsOfProxy), *)
(* so the proxy's invariants hold here. EInv adds that no handler runs in  *)
(* baseline mode (SecureInv), that messages arrive in order and are those  *)
(* of their calls (SendInv), and that no token of a program dies while it  *)
(* runs (InTime). What was executed had passed every check, so it had no   *)
(* flaw (ReachedIsFlawless), and of two uses of one jti one at most was.   *)
(*                                                                         *)
(* For the check that stopped an attack, CourseInv says what an answer     *)
(* tells of the message (an early check is the first that it fails, a later *)
(* one comes after its jti was spent), and VerdictInv that a verdict with a *)
(* status is about the answer that the proxy gave to its call.  DInv is the *)
(* three together.  As long as the upstream server has one catalogue,      *)
(* HashInv says that no hash is refused that the proxy itself gave away,   *)
(* so that the verdicts on good calls are right as well.                   *)
(* ReportInv counts: the calls through the proxy that the client gave up   *)
(* while the proxy lived are no more than what went wrong.                 *)
(***************************************************************************)
EXTENDS Evaluation, ProxyProofs

\* The tools of the programs, and what their messages and calls look like.
KnownTools == {"echo", "read_file", "get_me", "run_cmd"}

MessageShape ==
    [form : {"jwt", "none", "malformed"}, iss : {"agent1", "hacker"},
     key : {"k0", "k1"}, claims : {"good", "rejected", "elsewhere"},
     exp : {0, 60, 300}, tool : KnownTools, jti : {Fresh, NoJti},
     hash : {Suite!Probed, Suite!ZeroHash, "none"}, body : {"json"},
     asked : KnownTools, params : {"pass", "refuse"}]

CallShape ==
    [name : {"valid", "replay 1st", "attack"},
     to : {"proxy", "baseline", "github", "no_pat"},
     message : MessageShape \cup [asked : KnownTools] \cup {Suite!Attack("none")},
     reuse : {0, 2, 4}, catches : BOOLEAN, expect : {"allowed", "blocked"},
     aim : Stages]

\* The checks that look at the message alone, in the order of the pipeline, and
\* the first of them that a message fails.
Decision(m) == is_allowed(m.iss, m.asked, m.params)

Flaw(m) ==
    IF m.form = "none" THEN "token_presence"
    ELSE IF m.form = "malformed" THEN "jwt_decode"
    ELSE IF m.iss = "hacker" THEN "did_resolution"
    ELSE IF m.key # "k1" THEN "signature_verification"
    ELSE IF m.claims = "rejected" THEN "jwt_verification"
    ELSE IF m.exp = 0 THEN "token_expiry"
    ELSE IF m.claims = "elsewhere" THEN "audience_validation"
    ELSE IF m.tool # m.asked THEN "tool_binding"
    ELSE IF m.jti = NoJti THEN "replay_protection"
    ELSE IF Decision(m) # "allow" THEN "policy_enforcement"
    ELSE IF m.hash \in {Suite!ZeroHash, "none"} THEN "tool_integrity"
    ELSE "none"

\* The checks before step 7, and those after step 8.
Early ==
    {"token_presence", "jwt_decode", "did_resolution", "signature_verification",
     "jwt_verification", "token_expiry", "audience_validation", "tool_binding"}
Late == {"policy_enforcement", "tool_integrity"}

FlawedMessages(flaw) == {m \in MessageShape : Flaw(m) = flaw}

\* What the programs send as a good request: the tool of the mode, with the hash that
\* was probed.
GoodTool == IF UpstreamMode = "local" THEN "echo" ELSE "get_me"
GoodMessages == {Suite!Token(GoodTool, ttl) : ttl \in {60, 300}}

\* Every attack through the proxy has the flaw it is aimed at, or is a replay, and
\* every other call through the proxy is a good request.
SoundCalls ==
    {c \in CallShape :
        /\ c.to = "proxy" =>
               /\ c.reuse = 0 =>
                      /\ c.message \in MessageShape
                      /\ \/ c.expect = "allowed" /\ c.message \in GoodMessages
                         \/ /\ c.expect = "blocked"
                            /\ c.aim \in Early \cup Late /\ Flaw(c.message) = c.aim
               /\ c.reuse # 0 => c.expect = "blocked" /\ c.aim = "replay_protection"}

CatchingCalls == {c \in SoundCalls : c.catches}
OwnCalls == {c \in SoundCalls : c.to = "proxy" => c.reuse = 0}
DirectCalls == {c \in CatchingCalls : c.to # "proxy"}

\* The calls of a program that attacks the proxy and replays one token, with the names
\* that tell attacks from others, and the calls whose token may be it.
CallsAgain(first) ==
    {c \in CatchingCalls : /\ c.to = "proxy" /\ c.reuse \in {0, first}
                           /\ is_attack_result(c.name) <=> c.expect = "blocked"}
FirstUses == {c \in CallsAgain(0) : c.expect = "allowed"}

AttacksTheProxy(calls, first) ==
    /\ calls \in Seq(CallsAgain(first)) /\ Len(calls) >= 4
    /\ calls[first] \in FirstUses /\ calls[3].expect = "blocked"
-------------------------------------------------------------------------------
\* The programs, one part after the other.
LEMMA RepeatIsSeq ==
    ASSUME NEW S, NEW calls \in Seq(S), Len(calls) > 0, NEW n \in Nat
    PROVE  Suite!Repeat(calls, n) \in Seq(S)
<1> DEFINE l == Len(calls)
<1>1. n * l \in Nat /\ l \in Nat \ {0}
  OBVIOUS
<1>2. ASSUME NEW i \in 1 .. n * l PROVE calls[((i - 1) % l) + 1] \in S
  <2>1. i - 1 \in Int /\ (i - 1) % l \in 0 .. l - 1
    BY <1>1
  <2> QED BY <2>1
<1> QED BY <1>1, <1>2 DEF Suite!Repeat

LEMMA FreshIsAJti == Fresh # NoJti
  BY EvaluationAssumption

LEMMA FirstUsesAreCalls == \A first : FirstUses \subseteq CallsAgain(first)
  BY DEF FirstUses, CallsAgain

LEMMA FirstUsesAreGood ==
    \A c \in FirstUses : /\ c \in CatchingCalls /\ c.to = "proxy"
                          /\ c.reuse = 0 /\ c.expect = "allowed"
  BY DEF FirstUses, CallsAgain

LEMMA TokensAreShaped ==
    ASSUME NEW tool \in KnownTools
    PROVE  /\ Suite!Attack(tool) \in MessageShape
           /\ Suite!Token(tool, 60) \in MessageShape
  BY DEF Suite!Attack, Suite!Token, MessageShape, KnownTools, Suite!Probed

LEMMA GoodIsShaped ==
    /\ GoodTool \in KnownTools
    /\ GoodMessages \subseteq MessageShape
    /\ Suite!Attack(GoodTool) \in GoodMessages
    /\ Suite!Token(GoodTool, 60) \in GoodMessages
<1>1. GoodTool \in KnownTools
  BY DEF GoodTool, KnownTools
<1> QED BY <1>1, TokensAreShaped DEF GoodMessages, Suite!Attack

LEMMA AllowedIsSound ==
    ASSUME NEW name \in {"valid", "replay 1st"}, NEW m \in GoodMessages
    PROVE  Suite!Allowed(name, m) \in FirstUses
<1>1. m \in MessageShape
  BY GoodIsShaped
<1> QED BY <1>1 DEF Suite!Allowed, Suite!Call, FirstUses, CallsAgain, CatchingCalls,
                    SoundCalls, CallShape, Stages, is_attack_result

LEMMA BlockedIsSound ==
    ASSUME NEW aim \in Early \cup Late, NEW m \in FlawedMessages(aim), NEW first
    PROVE  Suite!Blocked(m, aim) \in CallsAgain(first)
<1>1. aim \in Stages
  BY DEF Early, Late, Stages
<1> QED BY <1>1 DEF FlawedMessages, Suite!Blocked, Suite!Call, CallsAgain, CatchingCalls,
                    SoundCalls, CallShape, is_attack_result

LEMMA AgainIsSound ==
    ASSUME NEW first \in {2, 4}
    PROVE  Suite!Again(first, "replay_protection") \in CallsAgain(first)
<1> DEFINE aim == "replay_protection"
           m == Suite!Attack("none")
           c == Suite!Blocked(m, aim)
           d == [c EXCEPT !.reuse = first]
           Shape(reuses) ==
               [name : {"attack"}, to : {"proxy"}, message : {m}, reuse : reuses,
                catches : {TRUE}, expect : {"blocked"}, aim : {aim}]
<1>1. m \in {Suite!Attack("none")}
  OBVIOUS
<1> HIDE DEF m
<1>2. c \in Shape({0})
  BY DEF Suite!Blocked, Suite!Call
<1> HIDE DEF c
<1>3. d \in Shape({first})
  BY <1>2
<1>4. d = Suite!Again(first, aim)
  BY DEF Suite!Again, c, m
<1> HIDE DEF d
<1>5. d \in CallShape
  BY <1>1, <1>3 DEF CallShape, Stages
<1>6. /\ d.reuse = first /\ d.expect \in {"blocked"} /\ d.catches \in {TRUE}
      /\ d.aim \in {aim} /\ d.to \in {"proxy"} /\ d.name \in {"attack"}
  BY <1>3
<1>7. d.catches
  BY <1>6, Zenon
<1>8. d \in SoundCalls
  BY <1>5, <1>6 DEF SoundCalls
<1>9. d \in CatchingCalls
  BY <1>7, <1>8, Zenon DEF CatchingCalls
<1>10. d \in CallsAgain(first)
  BY <1>6, <1>9 DEF CallsAgain, is_attack_result
<1> QED BY <1>4, <1>10

LEMMA DirectIsSound ==
    ASSUME NEW name \in {"valid", "replay 1st", "attack"},
           NEW to \in {"baseline", "github", "no_pat"},
           NEW tool \in KnownTools, NEW expect \in {"allowed", "blocked"}
    PROVE  Suite!Direct(name, to, tool, expect) \in DirectCalls
  BY DEF Suite!Direct, Suite!Call, DirectCalls, CatchingCalls, SoundCalls, CallShape,
         Stages

LEMMA PlainIsSound ==
    ASSUME NEW to \in {"baseline", "github"}, NEW tool \in KnownTools,
           NEW catches \in BOOLEAN
    PROVE  Suite!Plain(to, tool, catches) \in OwnCalls
  BY DEF Suite!Plain, Suite!Call, OwnCalls, SoundCalls, CallShape, Stages

LEMMA GoodIsSound ==
    ASSUME NEW catches \in BOOLEAN
    PROVE  Suite!Good(GoodTool, catches) \in OwnCalls
<1> DEFINE m == Suite!Token(GoodTool, 60)
<1>1. m \in MessageShape /\ m \in GoodMessages
  BY GoodIsShaped
<1> HIDE DEF m
<1>2. Suite!Call("valid", "proxy", m, catches, "allowed", "none") \in OwnCalls
  BY <1>1 DEF Suite!Call, OwnCalls, SoundCalls, CallShape, Stages
<1> QED BY <1>2 DEF Suite!Good, m

LEMMA LocalDirectIsSound == Suite!build_attacks_local_direct \in Seq(DirectCalls)
<1> DEFINE call(name, tool) == Suite!Direct(name, "baseline", tool, "allowed")
           c1 == call("valid", "echo")
           c2 == call("attack", "echo")
           c3 == call("attack", "run_cmd")
           c4 == call("replay 1st", "echo")
           c8 == call("attack", "read_file")
<1>1. /\ c1 \in DirectCalls /\ c2 \in DirectCalls /\ c3 \in DirectCalls
      /\ c4 \in DirectCalls /\ c8 \in DirectCalls
  BY DirectIsSound DEF KnownTools
<1>2. Suite!build_attacks_local_direct = << c1, c2, c3, c4, c2, c2, c3, c8 >>
  BY DEF Suite!build_attacks_local_direct
<1> HIDE DEF c1, c2, c3, c4, c8
<1> QED BY <1>1, <1>2

LEMMA LocalProxyIsSound ==
    ASSUME UpstreamMode = "local"
    PROVE  AttacksTheProxy(Suite!build_attacks_local_proxy, 4)
<1> DEFINE echo == Suite!Attack("echo")
           m2 == [echo EXCEPT !.form = "none"]
           m3 == [Suite!Attack("run_cmd") EXCEPT !.hash = Suite!ZeroHash]
           m6 == [echo EXCEPT !.hash = Suite!ZeroHash]
           m7 == [echo EXCEPT !.claims = "elsewhere"]
           m8 == [echo EXCEPT !.exp = 0]
           m9 == [echo EXCEPT !.iss = "hacker"]
           m10 == [echo EXCEPT !.asked = "run_cmd"]
           m11 == [echo EXCEPT !.hash = "none"]
           m12 == [echo EXCEPT !.claims = "rejected", !.jti = NoJti]
           m13 == [Suite!Attack("read_file") EXCEPT !.params = "refuse"]
<1>1. echo \in MessageShape /\ echo \in GoodMessages
  BY GoodIsShaped DEF GoodTool
<1>2. /\ m2 \in FlawedMessages("token_presence")
      /\ m3 \in FlawedMessages("policy_enforcement")
      /\ m6 \in FlawedMessages("tool_integrity")
      /\ m7 \in FlawedMessages("audience_validation")
      /\ m8 \in FlawedMessages("token_expiry")
      /\ m9 \in FlawedMessages("did_resolution")
      /\ m10 \in FlawedMessages("tool_binding")
      /\ m11 \in FlawedMessages("tool_integrity")
      /\ m12 \in FlawedMessages("jwt_verification")
      /\ m13 \in FlawedMessages("policy_enforcement")
  <2> USE FreshIsAJti
      DEF Suite!Attack, Suite!Token, FlawedMessages, Flaw, Decision, MessageShape,
          KnownTools, Suite!Probed, Suite!ZeroHash, is_allowed, AGENT_POLICIES,
          GLOBAL_BLOCKLIST, DynamicTools
  <2>1. m2 \in FlawedMessages("token_presence")
    OBVIOUS
  <2>2. m3 \in FlawedMessages("policy_enforcement")
    OBVIOUS
  <2>3. m6 \in FlawedMessages("tool_integrity")
    OBVIOUS
  <2>4. m7 \in FlawedMessages("audience_validation")
    OBVIOUS
  <2>5. m8 \in FlawedMessages("token_expiry")
    OBVIOUS
  <2>6. m9 \in FlawedMessages("did_resolution")
    OBVIOUS
  <2>7. m10 \in FlawedMessages("tool_binding")
    OBVIOUS
  <2>8. m11 \in FlawedMessages("tool_integrity")
    OBVIOUS
  <2>9. m12 \in FlawedMessages("jwt_verification")
    OBVIOUS
  <2>10. m13 \in FlawedMessages("policy_enforcement")
    OBVIOUS
  <2> HIDE DEF FlawedMessages
  <2> QED BY <2>1, <2>2, <2>3, <2>4, <2>5, <2>6, <2>7, <2>8, <2>9, <2>10
<1> HIDE DEF echo, m2, m3, m6, m7, m8, m9, m10, m11, m12, m13
<1> DEFINE c1 == Suite!Allowed("valid", echo)
           c2 == Suite!Blocked(m2, "token_presence")
           c3 == Suite!Blocked(m3, "policy_enforcement")
           c4 == Suite!Allowed("replay 1st", echo)
           c5 == Suite!Again(4, "replay_protection")
           c6 == Suite!Blocked(m6, "tool_integrity")
           c7 == Suite!Blocked(m7, "audience_validation")
           c8 == Suite!Blocked(m8, "token_expiry")
           c9 == Suite!Blocked(m9, "did_resolution")
           c10 == Suite!Blocked(m10, "tool_binding")
           c11 == Suite!Blocked(m11, "tool_integrity")
           c12 == Suite!Blocked(m12, "jwt_verification")
           c13 == Suite!Blocked(m13, "policy_enforcement")
<1>3. c1 \in FirstUses /\ c4 \in FirstUses
  BY <1>1, AllowedIsSound
<1>4. c5 \in CallsAgain(4)
  BY AgainIsSound
<1>5. /\ c2 \in CallsAgain(4) /\ c3 \in CallsAgain(4) /\ c6 \in CallsAgain(4)
      /\ c7 \in CallsAgain(4) /\ c8 \in CallsAgain(4) /\ c9 \in CallsAgain(4)
      /\ c10 \in CallsAgain(4) /\ c11 \in CallsAgain(4) /\ c12 \in CallsAgain(4)
      /\ c13 \in CallsAgain(4)
  BY <1>2, BlockedIsSound DEF Early, Late
<1>6. Suite!build_attacks_local_proxy =
          << c1, c2, c3, c4, c5, c6, c7, c8, c9, c10, c11, c12, c13 >>
  BY DEF Suite!build_attacks_local_proxy, echo, m2, m3, m6, m7, m8, m9, m10, m11, m12,
         m13
<1> HIDE DEF c1, c2, c3, c4, c5, c6, c7, c8, c9, c10, c11, c12, c13
<1>7. c1 \in CallsAgain(4) /\ c4 \in CallsAgain(4)
  BY <1>3, FirstUsesAreCalls
<1>8. Suite!build_attacks_local_proxy \in Seq(CallsAgain(4))
  BY <1>4, <1>5, <1>6, <1>7
<1>9. /\ Len(Suite!build_attacks_local_proxy) >= 4
      /\ Suite!build_attacks_local_proxy[4] = c4
      /\ Suite!build_attacks_local_proxy[3] = c3
  BY <1>6
<1>10. c3.expect = "blocked"
  BY DEF c3, Suite!Blocked, Suite!Call
<1> QED BY <1>3, <1>8, <1>9, <1>10 DEF AttacksTheProxy

LEMMA GithubDirectIsSound == Suite!build_attacks_github_direct \in Seq(DirectCalls)
<1> DEFINE call(name) == Suite!Direct(name, "github", "get_me", "allowed")
           c1 == call("valid")
           c2 == call("replay 1st")
           c3 == call("attack")
           c4 == Suite!Direct("attack", "no_pat", "get_me", "blocked")
           attacks == Suite!Repeat(<< c3 >>, DirectRepeats)
<1>1. /\ c1 \in DirectCalls /\ c2 \in DirectCalls
      /\ c3 \in DirectCalls /\ c4 \in DirectCalls
  BY DirectIsSound DEF KnownTools
<1> HIDE DEF c1, c2, c3, c4
<1>2. /\ << c1, c2 >> \in Seq(DirectCalls)
      /\ << c3 >> \in Seq(DirectCalls) /\ Len(<< c3 >>) > 0
      /\ << c4 >> \in Seq(DirectCalls)
  BY <1>1
<1>3. attacks \in Seq(DirectCalls)
  BY <1>2, RepeatIsSeq, EvaluationAssumption
<1> HIDE DEF attacks
<1>4. << c1, c2 >> \o attacks \o << c4 >> \in Seq(DirectCalls)
  BY <1>2, <1>3
<1> QED BY <1>4 DEF Suite!build_attacks_github_direct, c1, c2, c3, c4, attacks

LEMMA GithubProxyIsSound ==
    ASSUME UpstreamMode # "local"
    PROVE  AttacksTheProxy(Suite!build_attacks_github_proxy, 2)
<1> DEFINE get_me == Suite!Attack("get_me")
           m4 == [get_me EXCEPT !.form = "none"]
           m5 == [get_me EXCEPT !.hash = Suite!ZeroHash]
           m6 == [get_me EXCEPT !.claims = "elsewhere"]
           m7 == [get_me EXCEPT !.exp = 0]
           m8 == [get_me EXCEPT !.iss = "hacker"]
           m9 == [get_me EXCEPT !.hash = "none"]
           m10 == [get_me EXCEPT !.claims = "rejected", !.jti = NoJti]
           m11 == [Suite!Attack("echo") EXCEPT !.asked = "get_me"]
           m12 == [get_me EXCEPT !.key = "k0"]
           m13 == [get_me EXCEPT !.form = "malformed"]
<1>1. get_me \in MessageShape /\ get_me \in GoodMessages
  BY GoodIsShaped DEF GoodTool
<1>2. /\ m4 \in FlawedMessages("token_presence")
      /\ m5 \in FlawedMessages("tool_integrity")
      /\ m6 \in FlawedMessages("audience_validation")
      /\ m7 \in FlawedMessages("token_expiry")
      /\ m8 \in FlawedMessages("did_resolution")
      /\ m9 \in FlawedMessages("tool_integrity")
      /\ m10 \in FlawedMessages("jwt_verification")
      /\ m11 \in FlawedMessages("tool_binding")
      /\ m12 \in FlawedMessages("signature_verification")
      /\ m13 \in FlawedMessages("jwt_decode")
  <2> USE FreshIsAJti
      DEF Suite!Attack, Suite!Token, FlawedMessages, Flaw, Decision, MessageShape,
          KnownTools, Suite!Probed, Suite!ZeroHash, is_allowed, AGENT_POLICIES,
          GLOBAL_BLOCKLIST, DynamicTools
  <2>1. m4 \in FlawedMessages("token_presence")
    OBVIOUS
  <2>2. m5 \in FlawedMessages("tool_integrity")
    OBVIOUS
  <2>3. m6 \in FlawedMessages("audience_validation")
    OBVIOUS
  <2>4. m7 \in FlawedMessages("token_expiry")
    OBVIOUS
  <2>5. m8 \in FlawedMessages("did_resolution")
    OBVIOUS
  <2>6. m9 \in FlawedMessages("tool_integrity")
    OBVIOUS
  <2>7. m10 \in FlawedMessages("jwt_verification")
    OBVIOUS
  <2>8. m11 \in FlawedMessages("tool_binding")
    OBVIOUS
  <2>9. m12 \in FlawedMessages("signature_verification")
    OBVIOUS
  <2>10. m13 \in FlawedMessages("jwt_decode")
    OBVIOUS
  <2> HIDE DEF FlawedMessages
  <2> QED BY <2>1, <2>2, <2>3, <2>4, <2>5, <2>6, <2>7, <2>8, <2>9, <2>10
<1> HIDE DEF get_me, m4, m5, m6, m7, m8, m9, m10, m11, m12, m13
<1> DEFINE c1 == Suite!Allowed("valid", get_me)
           c2 == Suite!Allowed("replay 1st", get_me)
           c3 == Suite!Again(2, "replay_protection")
           c4 == Suite!Blocked(m4, "token_presence")
           c5 == Suite!Blocked(m5, "tool_integrity")
           c6 == Suite!Blocked(m6, "audience_validation")
           c7 == Suite!Blocked(m7, "token_expiry")
           c8 == Suite!Blocked(m8, "did_resolution")
           c9 == Suite!Blocked(m9, "tool_integrity")
           c10 == Suite!Blocked(m10, "jwt_verification")
           c11 == Suite!Blocked(m11, "tool_binding")
           c12 == Suite!Blocked(m12, "signature_verification")
           c13 == Suite!Blocked(m13, "jwt_decode")
<1>3. c1 \in FirstUses /\ c2 \in FirstUses
  BY <1>1, AllowedIsSound
<1>4. c3 \in CallsAgain(2)
  BY AgainIsSound
<1>5. /\ c4 \in CallsAgain(2) /\ c5 \in CallsAgain(2) /\ c6 \in CallsAgain(2)
      /\ c7 \in CallsAgain(2) /\ c8 \in CallsAgain(2) /\ c9 \in CallsAgain(2)
      /\ c10 \in CallsAgain(2) /\ c11 \in CallsAgain(2) /\ c12 \in CallsAgain(2)
      /\ c13 \in CallsAgain(2)
  BY <1>2, BlockedIsSound DEF Early, Late
<1>6. Suite!build_attacks_github_proxy =
          << c1, c2, c3, c4, c5, c6, c7, c8, c9, c10, c11, c12, c13, c3 >>
  BY DEF Suite!build_attacks_github_proxy, get_me, m4, m5, m6, m7, m8, m9, m10, m11,
         m12, m13
<1> HIDE DEF c1, c2, c3, c4, c5, c6, c7, c8, c9, c10, c11, c12, c13
<1>7. c1 \in CallsAgain(2) /\ c2 \in CallsAgain(2)
  BY <1>3, FirstUsesAreCalls
<1>8. Suite!build_attacks_github_proxy \in Seq(CallsAgain(2))
  BY <1>4, <1>5, <1>6, <1>7
<1>9. /\ Len(Suite!build_attacks_github_proxy) >= 4
      /\ Suite!build_attacks_github_proxy[2] = c2
      /\ Suite!build_attacks_github_proxy[3] = c3
  BY <1>6
<1>10. c3.expect = "blocked"
  <2>1. Suite!Blocked(Suite!Attack("none"), "replay_protection") \in
            [name : {"attack"}, to : {"proxy"}, message : {Suite!Attack("none")},
             reuse : {0}, catches : {TRUE}, expect : {"blocked"},
             aim : {"replay_protection"}]
    BY DEF Suite!Blocked, Suite!Call
  <2> QED BY <2>1 DEF c3, Suite!Again
<1> QED BY <1>3, <1>8, <1>9, <1>10 DEF AttacksTheProxy

LEMMA BenchmarkIsSound ==
    ASSUME NEW direct \in OwnCalls, NEW proxied \in OwnCalls
    PROVE  Suite!Benchmark(direct, proxied) \in Seq(OwnCalls)
<1>1. /\ << direct, proxied >> \in Seq(OwnCalls) /\ Len(<< direct, proxied >>) > 0
      /\ << direct >> \in Seq(OwnCalls) /\ Len(<< direct >>) > 0
      /\ << proxied >> \in Seq(OwnCalls) /\ Len(<< proxied >>) > 0
  OBVIOUS
<1>2. /\ Suite!Repeat(<< direct, proxied >>, Warmups) \in Seq(OwnCalls)
      /\ Suite!Repeat(<< direct >>, Measured) \in Seq(OwnCalls)
      /\ Suite!Repeat(<< proxied >>, Measured) \in Seq(OwnCalls)
  BY <1>1, RepeatIsSeq, EvaluationAssumption
<1> QED BY <1>2 DEF Suite!Benchmark

LEMMA DiagnosticsAreSound ==
    ASSUME UpstreamMode # "local"
    PROVE  Suite!Diagnostics \in Seq(OwnCalls)
<1> DEFINE c1 == Suite!Plain("github", "get_me", FALSE)
           c2 == Suite!Good("get_me", FALSE)
           c3 == Suite!Plain("github", "get_me", TRUE)
           c4 == Suite!Good("get_me", TRUE)
<1>1. /\ c1 \in OwnCalls /\ c2 \in OwnCalls
      /\ c3 \in OwnCalls /\ c4 \in OwnCalls
  BY PlainIsSound, GoodIsSound DEF KnownTools, GoodTool
<1>2. Suite!Diagnostics = << c1, c2, c3, c4 >>
  BY DEF Suite!Diagnostics
<1> HIDE DEF c1, c2, c3, c4
<1> QED BY <1>1, <1>2

\* What a program is.
SoundProgram(name, p) ==
    /\ p.probes \in Seq(KnownTools) /\ p.calls \in Seq(SoundCalls)
    /\ \/ p.calls \in Seq(OwnCalls) /\ name \notin {"local_proxy", "github_proxy"}
       \/ \E first \in {2, 4} : AttacksTheProxy(p.calls, first)
    /\ \/ p.calls \in Seq(CatchingCalls) /\ p.asks = "proxy"
       \/ "failed" \in Suite!EndsOf(name)
    /\ \/ p.calls \in Seq(DirectCalls)
       \/ Len(p.probes) > 0 /\ p.probes[1] = GoodTool

LEMMA ListsAreSound ==
    ASSUME NEW calls
    PROVE  /\ calls \in Seq(OwnCalls) => calls \in Seq(SoundCalls)
           /\ calls \in Seq(CatchingCalls) => calls \in Seq(SoundCalls)
           /\ calls \in Seq(DirectCalls) =>
                  calls \in Seq(OwnCalls) /\ calls \in Seq(CatchingCalls)
           /\ \A first : calls \in Seq(CallsAgain(first)) => calls \in Seq(CatchingCalls)
<1>1. /\ OwnCalls \subseteq SoundCalls /\ CatchingCalls \subseteq SoundCalls
      /\ DirectCalls \subseteq OwnCalls /\ DirectCalls \subseteq CatchingCalls
      /\ \A first : CallsAgain(first) \subseteq CatchingCalls
  BY DEF OwnCalls, CatchingCalls, DirectCalls, CallsAgain
<1> QED BY <1>1

\* The programs that only send good requests.
LEMMA OwnProgramIsSound ==
    ASSUME NEW name \in {"benign", "latency", "client"},
           NEW needs, NEW asks, NEW calls \in Seq(OwnCalls),
           Programs[name] = Suite!Program(needs, << GoodTool >>, asks, FALSE, calls)
    PROVE  SoundProgram(name, Programs[name])
<1>1. /\ Programs[name].probes = << GoodTool >> /\ Programs[name].calls = calls
  BY DEF Suite!Program
<1>2. << GoodTool >> \in Seq(KnownTools)
  BY GoodIsShaped
<1>3. "failed" \in Suite!EndsOf(name)
  BY DEF Suite!EndsOf
<1>4. Len(Programs[name].probes) > 0 /\ Programs[name].probes[1] = GoodTool
  <2>1. Len(<< GoodTool >>) > 0 /\ << GoodTool >>[1] = GoodTool
    OBVIOUS
  <2> QED BY <1>1, <2>1, Zenon
<1> QED BY <1>1, <1>2, <1>3, <1>4, ListsAreSound DEF SoundProgram

LEMMA GoodCallsAreOwn ==
    LET good == Suite!Good(GoodTool, FALSE)
    IN  /\ << good >> \in Seq(OwnCalls)
        /\ Suite!Repeat(<< good >>, BenignCalls) \in Seq(OwnCalls)
        /\ \A to \in {"baseline", "github"} :
               Suite!Benchmark(Suite!Plain(to, GoodTool, FALSE), good) \in Seq(OwnCalls)
<1> DEFINE good == Suite!Good(GoodTool, FALSE)
<1>1. good \in OwnCalls
  BY GoodIsSound
<1>2. \A to \in {"baseline", "github"} : Suite!Plain(to, GoodTool, FALSE) \in OwnCalls
  BY PlainIsSound, GoodIsShaped
<1> HIDE DEF good
<1>3. << good >> \in Seq(OwnCalls) /\ Len(<< good >>) > 0
  BY <1>1
<1>4. Suite!Repeat(<< good >>, BenignCalls) \in Seq(OwnCalls)
  BY <1>3, RepeatIsSeq, EvaluationAssumption
<1>5. \A to \in {"baseline", "github"} :
          Suite!Benchmark(Suite!Plain(to, GoodTool, FALSE), good) \in Seq(OwnCalls)
  BY <1>1, <1>2, BenchmarkIsSound
<1> QED BY <1>3, <1>4, <1>5 DEF good

LEMMA ProgramsAreSound ==
    ASSUME NEW name \in DOMAIN Programs
    PROVE  SoundProgram(name, Programs[name])
<1>1. /\ << >> \in Seq(KnownTools)
      /\ << "echo", "read_file" >> \in Seq(KnownTools)
      /\ << "get_me", "echo" >> \in Seq(KnownTools)
      /\ UpstreamMode = "local" => GoodTool = "echo"
      /\ UpstreamMode # "local" => GoodTool = "get_me"
  BY DEF KnownTools, GoodTool
<1>2. CASE UpstreamMode = "local"
  <2>1. /\ name \in {"local_direct", "local_proxy", "benign", "latency", "client"}
        /\ Programs = Suite!ProgramsOf("local")
    BY <1>2 DEF Programs, Suite!ProgramsOf
  <2>2. CASE name = "local_direct"
    <3>1. /\ Programs[name].probes = << >> /\ Programs[name].asks = "proxy"
          /\ Programs[name].calls = Suite!build_attacks_local_direct
      BY <2>1, <2>2 DEF Suite!ProgramsOf, Suite!Program
    <3> QED BY <1>1, <2>2, <3>1, ListsAreSound, LocalDirectIsSound
            DEF SoundProgram
  <2>3. CASE name = "local_proxy"
    <3>1. /\ Programs[name].probes = << "echo", "read_file" >>
          /\ Programs[name].asks = "proxy"
          /\ Programs[name].calls = Suite!build_attacks_local_proxy
      BY <2>1, <2>3 DEF Suite!ProgramsOf, Suite!Program
    <3>2. Len(Programs[name].probes) > 0 /\ Programs[name].probes[1] = GoodTool
      BY <1>1, <1>2, <3>1
    <3> QED BY <1>1, <1>2, <3>1, <3>2, ListsAreSound, LocalProxyIsSound
            DEF SoundProgram, AttacksTheProxy
  <2> DEFINE good == Suite!Good("echo", FALSE)
             all == Suite!Repeat(<< good >>, BenignCalls)
             benchmark == Suite!Benchmark(Suite!Plain("baseline", "echo", FALSE), good)
  <2>4. /\ << good >> \in Seq(OwnCalls) /\ all \in Seq(OwnCalls)
        /\ benchmark \in Seq(OwnCalls)
    BY <1>1, <1>2, GoodCallsAreOwn
  <2>5. /\ Programs.benign = Suite!Program({"proxy"}, << "echo" >>, "proxy", FALSE, all)
        /\ Programs.latency = Suite!Program({"proxy", "baseline"}, << "echo" >>,
                                            "proxy", FALSE, benchmark)
        /\ Programs.client = Suite!Program({}, << "echo" >>, "own", FALSE, << good >>)
    BY <2>1, Zenon DEF Suite!ProgramsOf
  <2> HIDE DEF good, all, benchmark
  <2>6. CASE name \in {"benign", "latency", "client"}
    BY <1>1, <1>2, <2>4, <2>5, <2>6, OwnProgramIsSound
  <2> QED BY <2>1, <2>2, <2>3, <2>6
<1>3. CASE UpstreamMode # "local"
  <2>1. /\ name \in {"github_direct", "github_proxy", "benign", "latency", "client"}
        /\ Programs = Suite!ProgramsOf("github")
    BY <1>3 DEF Programs, Suite!ProgramsOf
  <2>2. CASE name = "github_direct"
    <3>1. /\ Programs[name].probes = << >> /\ Programs[name].asks = "proxy"
          /\ Programs[name].calls = Suite!build_attacks_github_direct
      BY <2>1, <2>2 DEF Suite!ProgramsOf, Suite!Program
    <3> QED BY <1>1, <1>3, <2>2, <3>1, ListsAreSound, GithubDirectIsSound
            DEF SoundProgram
  <2>3. CASE name = "github_proxy"
    <3>1. /\ Programs[name].probes = << "get_me", "echo" >>
          /\ Programs[name].asks = "proxy"
          /\ Programs[name].calls = Suite!build_attacks_github_proxy
      BY <2>1, <2>3 DEF Suite!ProgramsOf, Suite!Program
    <3>2. Len(Programs[name].probes) > 0 /\ Programs[name].probes[1] = GoodTool
      BY <1>1, <1>3, <3>1
    <3> QED BY <1>1, <1>3, <3>1, <3>2, ListsAreSound, GithubProxyIsSound
            DEF SoundProgram, AttacksTheProxy
  <2> DEFINE good == Suite!Good("get_me", FALSE)
             all == Suite!Repeat(<< good >>, BenignCalls)
             benchmark == Suite!Benchmark(Suite!Plain("github", "get_me", FALSE), good)
             measured == benchmark \o Suite!Diagnostics
  <2>4. /\ << good >> \in Seq(OwnCalls) /\ all \in Seq(OwnCalls)
        /\ benchmark \in Seq(OwnCalls)
    BY <1>1, <1>3, GoodCallsAreOwn
  <2>5. /\ Programs.benign = Suite!Program({"proxy"}, << "get_me" >>, "proxy", FALSE, all)
        /\ Programs.latency = Suite!Program({"proxy", "pat"}, << "get_me" >>,
                                            "proxy", FALSE, measured)
        /\ Programs.client = Suite!Program({}, << "get_me" >>, "own", FALSE, << good >>)
    BY <2>1, Zenon DEF Suite!ProgramsOf
  <2> HIDE DEF good, all, benchmark
  <2>6. measured \in Seq(OwnCalls)
    BY <1>3, <2>4, DiagnosticsAreSound, ConcatProperties
  <2> HIDE DEF measured
  <2>7. CASE name \in {"benign", "latency", "client"}
    BY <1>1, <1>3, <2>4, <2>5, <2>6, <2>7, OwnProgramIsSound
  <2> QED BY <2>1, <2>2, <2>3, <2>7
<1> QED BY <1>2, <1>3
-------------------------------------------------------------------------------
\* What a state of the proxy with a client is, besides what ProxyProofs says.

\* The proxy was never in baseline mode.
SecureRecords == Records \ {"BASELINE_PASSTHROUGH"}

SecureInv ==
    /\ trail \in [Requests -> Seq(SecureRecords)]
    /\ \A r \in Requests : outcome[r].stage # "request"

\* A request that no handler took up.
Unbegun(i) == pc[i] = "idle" /\ lookup[i].phase = "none"

\* The steps whose requests are not sent yet.
IsAhead(i) == i > step \/ (i = step /\ ~ sent)

\* A message is that of a call, with its hash and jti filled in.
Reminted(m, c) ==
    /\ m = Filled(c.message, m.hash, m.jti)
    /\ c.message.hash # Suite!Probed => m.hash = c.message.hash
    /\ c.message.jti = NoJti <=> m.jti = NoJti

\* What every message of a program has.
Shaped(m) ==
    /\ m.form \in {"jwt", "none", "malformed"} /\ m.iss \in {"agent1", "hacker"}
    /\ m.key \in {"k0", "k1"} /\ m.claims \in {"good", "rejected", "elsewhere"}
    /\ m.exp \in {0, 60, 300} /\ m.asked \in KnownTools
    /\ m.body = "json" /\ m.params \in {"pass", "refuse"}

\* The step that drew the jti of step i.
Origin(i) == IF Call(i).reuse = 0 THEN i ELSE StepOf(Call(i).reuse)

SentAs(i) ==
    /\ IsCall(i) /\ Call(i).to = "proxy"
    /\ Shaped(msg[i]) /\ msg[i].jti \in {NoJti, Origin(i)} /\ Origin(i) <= i
    /\ Call(i).reuse = 0 => Reminted(msg[i], Call(i))

SendInv ==
    \A i \in Requests :
        /\ IsAhead(i) => msg[i] = Unsent
        /\ msg[i] = Unsent => Unbegun(i)
        /\ msg[i] # Unsent => SentAs(i)

InTime == clock < 60 * TicksPerSecond

EInv ==
    /\ IInv /\ MInv
    /\ EvaluationTypeOK
    /\ SecureInv /\ SendInv /\ InTime
-------------------------------------------------------------------------------
\* No handler writes the record of baseline mode, unless it runs in it.
LEMMA SecureRecordsAreRecords ==
    /\ << >> \in Seq(SecureRecords)
    /\ << "VERIFICATION_FAILED" >> \in Seq(SecureRecords)
    /\ << "VERIFICATION_PASSED" >> \in Seq(SecureRecords)
    /\ << "POLICY_DECISION" >> \in Seq(SecureRecords)
    /\ << "REQUEST_FORWARDED" >> \in Seq(SecureRecords)
    /\ << "POLICY_DECISION", "VERIFICATION_FAILED" >> \in Seq(SecureRecords)
    /\ \A a, b \in Seq(SecureRecords) : a \o b \in Seq(SecureRecords)
<1>1. \A a, b \in Seq(SecureRecords) : a \o b \in Seq(SecureRecords)
  OBVIOUS
<1> QED BY <1>1 DEF SecureRecords, Records

LEMMA AnswerIsSecure ==
    ASSUME TypeOK, SecureInv, NEW r \in Requests, NEW status, NEW stage,
           NEW records \in Seq(SecureRecords), Answer(r, status, stage, records),
           stage # "request"
    PROVE  SecureInv'
<1>1. trail[r] \o records \in Seq(SecureRecords)
  BY SecureRecordsAreRecords DEF SecureInv
<1> QED BY <1>1 DEF SecureInv, TypeOK, Answer

LEMMA AwaitIsSecure ==
    ASSUME SecureInv, NEW r \in Requests, NEW place,
           NEW records \in Seq(SecureRecords), Await(r, place, records)
    PROVE  SecureInv'
<1>1. trail[r] \o records \in Seq(SecureRecords)
  BY SecureRecordsAreRecords DEF SecureInv
<1> QED BY <1>1 DEF SecureInv, Await

LEMMA DenyIsSecure ==
    ASSUME TypeOK, SecureInv, NEW r \in Requests, NEW status, NEW stage,
           _deny(r, status, stage), stage # "request"
    PROVE  SecureInv'
  BY AnswerIsSecure, SecureRecordsAreRecords DEF _deny

LEMMA RaiseIsSecure ==
    ASSUME TypeOK, SecureInv, NEW r \in Requests, Raise(r, << >>)
    PROVE  SecureInv'
  BY AnswerIsSecure, SecureRecordsAreRecords DEF Raise

LEMMA VerifyIsSecure ==
    ASSUME TypeOK, SecureInv, NEW r \in Requests, NEW key, Verify(r, key)
    PROVE  SecureInv'
<1>1. Stage(msg[r], key) # "request"
  BY DEF Stage
<1> QED BY <1>1, DenyIsSecure, AwaitIsSecure, SecureRecordsAreRecords DEF Verify

LEMMA CheckHashIsSecure ==
    ASSUME TypeOK, SecureInv, NEW r \in Requests, NEW specs,
           NEW records \in Seq(SecureRecords), CheckHash(r, specs, records)
    PROVE  SecureInv'
<1>1. /\ records \o << "VERIFICATION_FAILED" >> \in Seq(SecureRecords)
      /\ records \o << "VERIFICATION_PASSED" >> \in Seq(SecureRecords)
  BY SecureRecordsAreRecords
<1>2. ASSUME NEW status, NEW stage \in {"tool_integrity", "upstream"},
             NEW more \in {records \o << "VERIFICATION_FAILED" >>,
                           records \o << "VERIFICATION_PASSED" >>},
             Answer(r, status, stage, more)
      PROVE  SecureInv'
  BY <1>1, <1>2, AnswerIsSecure
<1>3. CASE Forward(r, records \o << "VERIFICATION_PASSED" >>)
  BY <1>1, <1>2, <1>3, AwaitIsSecure DEF Forward
<1> QED BY <1>2, <1>3 DEF CheckHash

LEMMA AuthoriseIsSecure ==
    ASSUME TypeOK, SecureInv, NEW r \in Requests, Authorise(r)
    PROVE  SecureInv'
<1>1. \/ Raise(r, << >>)
      \/ Answer(r, 403, "policy_enforcement",
                << "POLICY_DECISION", "VERIFICATION_FAILED" >>)
      \/ Answer(r, 401, "tool_integrity",
                << "POLICY_DECISION", "VERIFICATION_FAILED" >>)
      \/ CheckHash(r, Registry!Current, << "POLICY_DECISION" >>)
      \/ Await(r, "registry", << "POLICY_DECISION" >>)
  BY DEF Authorise
<1>2. ASSUME NEW status, NEW stage \in {"policy_enforcement", "tool_integrity"},
             Answer(r, status, stage, << "POLICY_DECISION", "VERIFICATION_FAILED" >>)
      PROVE  SecureInv'
  BY <1>2, AnswerIsSecure, SecureRecordsAreRecords
<1>3. ASSUME CheckHash(r, Registry!Current, << "POLICY_DECISION" >>)
      PROVE  SecureInv'
  BY <1>3, CheckHashIsSecure, SecureRecordsAreRecords
<1>4. ASSUME Await(r, "registry", << "POLICY_DECISION" >>)
      PROVE  SecureInv'
  BY <1>4, AwaitIsSecure, SecureRecordsAreRecords
<1> QED BY <1>1, <1>2, <1>3, <1>4, RaiseIsSecure

LEMMA HandlerIsSecure ==
    ASSUME TypeOK, SecureInv, dztMode # "baseline", NEW r \in Requests, Handler(r)
    PROVE  SecureInv'
<1>1. CASE Receive(r)
  <2>1. \/ \E stage \in {"token_presence", "jwt_decode", "did_resolution"} :
               _deny(r, 401, stage)
        \/ \E key : Verify(r, key)
        \/ Await(r, "resolving", << >>)
    BY <1>1 DEF Receive
  <2> QED BY <2>1, DenyIsSecure, VerifyIsSecure, AwaitIsSecure,
             SecureRecordsAreRecords
<1>2. CASE KeyArrives(r)
  <2>1. _deny(r, 401, "did_resolution") \/ \E key : Verify(r, key)
    BY <1>2 DEF KeyArrives
  <2> QED BY <2>1, DenyIsSecure, VerifyIsSecure
<1>3. CASE RefuseBody(r)
  BY <1>3, DenyIsSecure, RaiseIsSecure DEF RefuseBody
<1>4. CASE RefuseReplay(r)
  BY <1>4, DenyIsSecure DEF RefuseReplay
<1>5. CASE Admit(r)
  <2>1. _deny(r, 429, "rate_limit") \/ Authorise(r)
    BY <1>5 DEF Admit
  <2> QED BY <2>1, DenyIsSecure, AuthoriseIsSecure
<1>6. CASE SpecsArrive(r)
  <2>1. Raise(r, << >>) \/ \E specs : CheckHash(r, specs, << >>)
    BY <1>6 DEF SpecsArrive
  <2> QED BY <2>1, RaiseIsSecure, CheckHashIsSecure, SecureRecordsAreRecords
<1>7. CASE ForwardEnds(r)
  <2>1. ASSUME NEW status, NEW stage \in {"forwarded", "upstream"},
               NEW records \in {<< >>, << "REQUEST_FORWARDED" >>},
               Answer(r, status, stage, records)
        PROVE  SecureInv'
    BY <2>1, AnswerIsSecure, SecureRecordsAreRecords
  <2> QED BY <1>7, <2>1, RaiseIsSecure DEF ForwardEnds
<1> QED BY <1>1, <1>2, <1>3, <1>4, <1>5, <1>6, <1>7 DEF Handler, PassThrough

LEMMA SecureStays ==
    ASSUME SecureInv, UNCHANGED << outcome, trail >>
    PROVE  SecureInv'
  BY DEF SecureInv

\* A request whose trail has no record of baseline mode.
LEMMA SecureIsNotBaseline ==
    ASSUME SecureInv, NEW r \in Requests
    PROVE  ~ InBaseline(r)
<1>1. trail[r] \in Seq(SecureRecords)
  BY DEF SecureInv
<1>2. \A i \in 1 .. Len(trail[r]) : trail[r][i] \in SecureRecords
  BY <1>1
<1> QED BY <1>2 DEF SecureInv, InBaseline, WrittenFor, SecureRecords
-------------------------------------------------------------------------------
\* A program has a request for each of its steps.
LEMMA StepsHaveRequests ==
    ASSUME program \in DOMAIN Programs
    PROVE  /\ Len(Probes) \in Nat /\ Len(Calls) \in Nat
           /\ \A i : IsProbe(i) => i \in Requests /\ Probes[i] \in KnownTools
           /\ \A i \in Int : IsCall(i) => i \in Requests /\ Call(i) \in SoundCalls
           /\ \A k \in 1 .. Len(Calls) : StepOf(k) \in Requests
<1>1. SoundProgram(program, Programs[program])
  BY ProgramsAreSound
<1>2. Probes \in Seq(KnownTools) /\ Calls \in Seq(SoundCalls)
  BY <1>1 DEF SoundProgram, Probes, Calls
<1>3. 1 .. Len(Probes) + Len(Calls) \subseteq Requests
  BY EvaluationAssumption DEF Probes, Calls
<1>4. Len(Probes) \in Nat /\ Len(Calls) \in Nat
  BY <1>2
<1>5. ASSUME NEW i, IsProbe(i) PROVE i \in Requests /\ Probes[i] \in KnownTools
  BY <1>2, <1>3, <1>4, <1>5 DEF IsProbe
<1>6. ASSUME NEW i \in Int, IsCall(i) PROVE i \in Requests /\ Call(i) \in SoundCalls
  BY <1>2, <1>3, <1>4, <1>6 DEF IsCall, Call
<1>7. ASSUME NEW k \in 1 .. Len(Calls) PROVE StepOf(k) \in Requests
  BY <1>3, <1>4 DEF StepOf
<1> QED BY <1>4, <1>5, <1>6, <1>7

\* A replay is of the token of an earlier call, which has one of its own.
LEMMA ReplaysAreOfFirstUses ==
    ASSUME program \in DOMAIN Programs, NEW i \in Int, IsCall(i),
           Call(i).to = "proxy", Call(i).reuse # 0
    PROVE  LET origin == StepOf(Call(i).reuse)
           IN  /\ origin \in Requests /\ origin \in Int /\ IsCall(origin)
               /\ Call(origin) \in FirstUses
<1> DEFINE k == Call(i).reuse
<1>1. SoundProgram(program, Programs[program])
  BY ProgramsAreSound
<1>2. Call(i) = Calls[i - Len(Probes)] /\ i - Len(Probes) \in 1 .. Len(Calls)
  BY DEF IsCall, Call
<1>3. ~ (Calls \in Seq(OwnCalls))
  <2>1. ASSUME Calls \in Seq(OwnCalls) PROVE Call(i) \in OwnCalls
    BY <1>2, <2>1
  <2> QED BY <2>1 DEF OwnCalls
<1>4. PICK first \in {2, 4} : /\ Calls \in Seq(CallsAgain(first)) /\ Len(Calls) >= 4
                              /\ Calls[first] \in FirstUses
  BY <1>1, <1>3 DEF SoundProgram, AttacksTheProxy, Calls
<1>5. Call(i) \in CallsAgain(first)
  BY <1>2, <1>4
<1>6. k = first
  BY <1>5 DEF CallsAgain
<1>7. /\ Len(Probes) \in Nat /\ Len(Calls) \in Nat
      /\ \A n \in 1 .. Len(Calls) : StepOf(n) \in Requests
  BY StepsHaveRequests
<1>8. k \in 1 .. Len(Calls)
  BY <1>4, <1>6, <1>7
<1>9. StepOf(k) \in Int /\ StepOf(k) - Len(Probes) = k
  BY <1>7, <1>8 DEF StepOf
<1> QED BY <1>4, <1>6, <1>7, <1>8, <1>9 DEF IsCall, Call

LEMMA RequestsAreNumbers == \A i \in Requests : i \in Nat /\ i \in Jtis
  BY EvaluationAssumption

\* A probe that reaches the registry of the proxy.
Probing(i) ==
    /\ Registry!Ask(i) \/ Registry!Deliver(i) \/ Registry!Fail(i)
    /\ UNCHANGED << clock, dztMode, nonceVars, rateVars, resolverVars, ownerVars,
                    upstreamVars, msg, requestVars >>

LEMMA ProbingKeeps ==
    ASSUME IInv, MInv, NEW i \in Requests, Probing(i)
    PROVE  IInv' /\ MInv'
<1>1. TypeOK /\ SharedInv /\ clock \in Nat
  BY DEF IInv, MInv, TypeOK
<1>2. UNCHANGED << clock, dztMode, rows, lastCleanup, rateLog, resolverVars, ownerVars,
                   catalogue, msg, pc, outcome, trail, spentAt >>
  BY DEF Probing, nonceVars, rateVars, upstreamVars, requestVars
<1>3. IInv'
  BY <1>2 DEF IInv, TypeOK, BodyHasExpiry, SpentHasRow, SpentIsRemembered,
              NoReplayInLifetime, Spent, IntNow
<1>4. OnlyGenuineTokensCost' /\ RateLogIsHistory' /\ RateTypeOK'
  BY <1>2, AnswersStay
<1>5. \A r \in Requests : RequestInv(r)'
  BY <1>1, <1>2, RequestsStay DEF MInv, requestVars
<1>6. RowsAreSpent'
  BY <1>1, <1>2 DEF SharedInv, RowsAreSpent, Spent
<1>7. ResolverInv'
  BY <1>1, <1>2, ResolverStays DEF SharedInv, ResolverInv
<1>8. RegistryInv'
  BY <1>1, <1>2, RegistrySteps DEF SharedInv, RegistryInv, Probing
<1> QED BY <1>3, <1>4, <1>5, <1>6, <1>7, <1>8
        DEF MInv, SharedInv, ResolverInv, RegistryInv

\* A request that was not sent, and that no handler took up, is given its message.
LEMMA SendingKeeps ==
    ASSUME IInv, MInv, NEW i \in Requests, Unbegun(i), NEW m \in Messages,
           msg' = [msg EXCEPT ![i] = m],
           UNCHANGED << clock, dztMode, nonceVars, rateVars, resolverVars, ownerVars,
                        registryVars, upstreamVars, requestVars >>
    PROVE  IInv' /\ MInv'
<1>1. /\ UNCHANGED << clock, dztMode, rows, lastCleanup, rateLog, published, docCache,
                      keyCache, lookup, registryVars, catalogue >>
      /\ UNCHANGED << pc, outcome, trail, spentAt >>
      /\ TypeOK /\ SharedInv /\ RequestInv(i) /\ msg \in [Requests -> Messages]
  BY DEF IInv, MInv, TypeOK, nonceVars, rateVars, resolverVars, ownerVars,
         upstreamVars, requestVars
<1>2. /\ ~ Spent(i) /\ outcome[i].stage = "none"
      /\ \A q \in Requests \ {i} : msg'[q] = msg[q]
  BY <1>1 DEF RequestInv, PlaceInv, Untried, Unbegun
<1>3. \A q \in Requests : Spent(q) => q # i /\ msg'[q] = msg[q]
  BY <1>2
<1>4. IInv'
  <2>1. TypeOK'
    BY <1>1 DEF TypeOK
  <2>2. BodyHasExpiry'
    BY <1>1, <1>2 DEF IInv, BodyHasExpiry, Unbegun
  <2>3. SpentHasRow' /\ SpentIsRemembered' /\ NoReplayInLifetime'
    BY <1>1, <1>3
       DEF IInv, SpentHasRow, SpentIsRemembered, NoReplayInLifetime, Spent, IntNow
  <2> QED BY <1>1, <2>1, <2>2, <2>3 DEF IInv
<1>5. \A refused \in BOOLEAN : RateHistory(refused)' = RateHistory(refused)
  <2> SUFFICES ASSUME NEW refused \in BOOLEAN
               PROVE  RateHistory(refused)' = RateHistory(refused)
    OBVIOUS
  <2>1. ASSUME NEW d \in Dids
        PROVE  {q \in Requests : /\ spentAt'[q] > 0 /\ msg'[q].iss = d
                                 /\ (outcome'[q].stage = "rate_limit") = refused}
               = {q \in Requests : /\ spentAt[q] > 0 /\ msg[q].iss = d
                                   /\ (outcome[q].stage = "rate_limit") = refused}
    BY <1>1, <1>3 DEF Spent
  <2> QED BY <1>1, <2>1 DEF RateHistory
<1>6. Rate!RefusalIsDeserved' /\ RateLogIsHistory'
  BY <1>1, <1>5, RefusalsStay DEF MInv, SharedInv, OnlyGenuineTokensCost
<1>7. RateTypeOK' /\ RowsAreSpent'
  <2>1. RateTypeOK'
    BY <1>1 DEF SharedInv, RateTypeOK
  <2>2. RowsAreSpent'
    BY <1>1, <1>3 DEF SharedInv, RowsAreSpent, Spent
  <2> QED BY <2>1, <2>2
<1>8. ResolverInv'
  <2>1. Resolver!TypeOK'
    BY <1>1 DEF SharedInv, Resolver!TypeOK, ownerVars
  <2>2. KeysInv'
    BY <1>1, <1>2 DEF SharedInv, KeysInv, LookupInv, Unbegun
  <2> QED BY <2>1, <2>2 DEF ResolverInv
<1>9. RegistryInv'
  BY <1>1, RegistryStays DEF SharedInv, RegistryInv
<1>10. ASSUME NEW q \in Requests PROVE RequestInv(q)'
  <2>1. RequestInv(q)
    BY DEF MInv
  <2>2. CASE q = i
    BY <1>1, <1>2, <2>1, <2>2
       DEF RequestInv, PlaceInv, Mediated, Trailed, AnsweredAs, Untried, Spent, Reached,
           Unbegun
  <2>3. CASE q # i
    BY <1>1, <1>2, <2>1, <2>3
       DEF RequestInv, PlaceInv, Mediated, Trailed, AnsweredAs, Untried, Spent, Reached,
           Consented, InBaseline, WrittenFor
  <2> QED BY <2>2, <2>3
<1>11. OnlyGenuineTokensCost'
  <2>1. ASSUME NEW r \in Requests, Spent(r)' PROVE Genuine(msg'[r])
    BY <1>10, <2>1 DEF RequestInv, PlaceInv
  <2>2. ASSUME NEW r \in Requests PROVE ReplayIsReal(r)'
    BY <1>1, <1>2, <1>3 DEF MInv, OnlyGenuineTokensCost, ReplayIsReal, Spent
  <2> QED BY <1>6, <2>1, <2>2 DEF OnlyGenuineTokensCost
<1> QED BY <1>4, <1>6, <1>7, <1>8, <1>9, <1>10, <1>11
        DEF MInv, SharedInv, ResolverInv, RegistryInv
-------------------------------------------------------------------------------
\* What a step is to the proxy: a step of its own, of a probe in its registry, or
\* the arrival of a message.
LEMMA StepsOfProxy ==
    ASSUME program \in DOMAIN Programs, step \in Nat,
           [EvaluationNext]_evaluationVars
    PROVE  \/ \E r \in WithProxy : Handler(r)
           \/ \E r \in Requests : Serve(r) \/ Probing(r)
           \/ Crash \/ Publish \/ Tick \/ UNCHANGED vars
           \/ Send
<1>1. CASE Check \/ ProbeOwn \/ Judge \/ CallDirect \/ GiveUp \/ Finish
  BY <1>1 DEF Check, ProbeOwn, Judge, CallDirect, GiveUp, Finish
<1>2. CASE Probe
  <2>1. CASE UNCHANGED registryVars
    BY <1>2, <2>1 DEF Probe, vars
  <2>2. CASE Registry!Ask(step)
    <3>1. step \in Requests
      BY <1>2, StepsHaveRequests DEF Probe
    <3> QED BY <1>2, <2>2, <3>1 DEF Probe, Probing
  <2> QED BY <1>2, <2>1, <2>2 DEF Probe
<1>3. CASE Proxying
  <2>1. ASSUME NEW i \in Requests, ProbeAnswered(i) PROVE Probing(i)
    BY <2>1 DEF ProbeAnswered, Probing
  <2> QED BY <1>3, <2>1 DEF Proxying
<1>4. CASE UpstreamAnswers
  BY <1>4 DEF UpstreamAnswers
<1>5. CASE World
  BY <1>5 DEF World, Dies, Outage
<1>6. CASE UNCHANGED evaluationVars
  BY <1>6 DEF evaluationVars
<1> QED BY <1>1, <1>2, <1>3, <1>4, <1>5, <1>6 DEF EvaluationNext, Client

\* What a call sends is a message of the proxy, and that of the call.
LEMMA MintedIsMessage ==
    ASSUME EInv, Send
    PROVE  /\ step \in Requests /\ IsCall(step)
           /\ Minted(Call(step)) \in Messages
           /\ Minted(Call(step)) # Unsent =>
                  /\ Shaped(Minted(Call(step)))
                  /\ Minted(Call(step)).jti \in {NoJti, Origin(step)}
                  /\ Origin(step) <= step
                  /\ Call(step).reuse = 0 => Reminted(Minted(Call(step)), Call(step))
<1> DEFINE c == Call(step)
           m == c.message
<1>1. /\ program \in DOMAIN Programs /\ step \in Nat /\ hashes \in [Tools -> Hashes]
      /\ msg \in [Requests -> Messages] /\ SendInv
      /\ IsCall(step) /\ c.to = "proxy"
  BY DEF EInv, IInv, TypeOK, EvaluationTypeOK, Send, Ready
<1>2. step \in Requests /\ step \in Jtis /\ c \in SoundCalls
  BY <1>1, StepsHaveRequests, RequestsAreNumbers
<1>3. CASE c.reuse = 0
  <2>1. m \in MessageShape /\ m.tool \in Tools
    <3>1. m \in MessageShape
      BY <1>1, <1>2, <1>3 DEF SoundCalls
    <3>2. m.tool \in KnownTools
      BY <3>1 DEF MessageShape
    <3>3. KnownTools \subseteq Tools
      BY EvaluationAssumption DEF KnownTools
    <3> QED BY <3>1, <3>2, <3>3
  <2> DEFINE h == IF m.hash = Suite!Probed THEN hashes[m.tool] ELSE m.hash
             j == IF m.jti = Fresh THEN step ELSE m.jti
  <2>2. h \in Hashes \cup {m.hash}
    BY <1>1, <2>1
  <2>3. j \in Jtis \cup {NoJti}
    BY <1>2, <2>1 DEF MessageShape
  <2>4. Minted(c) = Filled(m, h, j)
    BY <1>3 DEF Minted
  <2>5. m.hash # Suite!Probed => h = m.hash
    OBVIOUS
  <2> HIDE DEF h, j, m, c
  <2>7. Filled(m, h, j) \in Messages
    <3>1. /\ step - Len(Probes) \in 1 .. Len(Calls) /\ c = Calls[step - Len(Probes)]
          /\ m = c.message
      BY <1>1 DEF IsCall, Call, c, m
    <3> QED BY <1>1, <1>3, <2>2, <2>3, <3>1, EvaluationAssumption DEF Calls
  <2>8. /\ Minted(c).hash = h /\ Minted(c).jti = j
        /\ Shaped(Minted(c))
    BY <2>1, <2>4 DEF MessageShape, Filled, Shaped
  <2>9. j \in {NoJti, step} /\ (m.jti = NoJti <=> j = NoJti)
    BY <1>2, <2>1, FreshIsAJti, ProxyAssumption DEF MessageShape, j
  <2>10. Reminted(Minted(c), c)
    BY <2>4, <2>5, <2>8, <2>9 DEF Reminted, m
  <2>11. Origin(step) = step
    BY <1>3 DEF Origin, c
  <2> QED BY <1>1, <1>2, <2>4, <2>7, <2>8, <2>9, <2>10, <2>11 DEF c
<1>4. CASE c.reuse # 0
  <2> DEFINE origin == StepOf(c.reuse)
  <2>1. /\ origin \in Requests /\ origin \in Int /\ Call(origin) \in FirstUses
        /\ c.to = "proxy"
    BY <1>1, <1>4, ReplaysAreOfFirstUses
  <2>2. Minted(c) = msg[origin] /\ Origin(step) = origin
    BY <1>4 DEF Minted, Origin
  <2>3. Origin(origin) = origin
    BY <2>1, FirstUsesAreGood DEF Origin
  <2> HIDE DEF origin
  <2>4. Minted(c) # Unsent => /\ Shaped(Minted(c)) /\ Minted(c).jti \in {NoJti, origin}
                              /\ origin <= step
    BY <1>1, <2>1, <2>2, <2>3 DEF SendInv, SentAs, IsAhead
  <2>5. Minted(c) \in Messages
    BY <1>1, <2>1, <2>2
  <2> QED BY <1>1, <1>2, <1>4, <2>2, <2>4, <2>5, Zenon
<1> QED BY <1>3, <1>4

LEMMA SendReadies ==
    ASSUME EInv, Send
    PROVE  /\ step \in Requests /\ Unbegun(step)
           /\ Minted(Call(step)) \in Messages
           /\ msg' = [msg EXCEPT ![step] = Minted(Call(step))]
           /\ UNCHANGED << clock, dztMode, nonceVars, rateVars, resolverVars, ownerVars,
                           registryVars, upstreamVars, requestVars >>
<1>1. /\ SendInv /\ step \in Requests /\ ~ sent
      /\ Minted(Call(step)) \in Messages
  BY MintedIsMessage DEF EInv, Send, Ready
<1> QED BY <1>1 DEF Send, SendInv, IsAhead

LEMMA PipelineKeeps ==
    ASSUME EInv, [EvaluationNext]_evaluationVars
    PROVE  IInv' /\ MInv'
<1>1. /\ IInv /\ MInv
      /\ program \in DOMAIN Programs /\ step \in Nat
  BY DEF EInv, EvaluationTypeOK
<1>2. CASE [Next]_vars
  BY <1>1, <1>2, NextKeeps, NextMediates
<1>3. ASSUME NEW i \in Requests, Probing(i) PROVE IInv' /\ MInv'
  BY <1>1, <1>3, ProbingKeeps
<1>4. CASE Send
  BY <1>1, <1>4, SendReadies, SendingKeeps
<1>5. \A r \in WithProxy : r \in Requests
  BY DEF WithProxy
<1> QED BY <1>1, <1>2, <1>3, <1>4, <1>5, StepsOfProxy DEF Next

LEMMA SecureKeeps ==
    ASSUME EInv, [EvaluationNext]_evaluationVars
    PROVE  SecureInv'
<1>1. /\ TypeOK /\ SecureInv /\ dztMode # "baseline"
      /\ program \in DOMAIN Programs /\ step \in Nat
  BY EvaluationAssumption DEF EInv, IInv, TypeOK, EvaluationTypeOK
<1>2. ASSUME NEW r \in Requests, Handler(r) PROVE SecureInv'
  BY <1>1, <1>2, HandlerIsSecure
<1>3. CASE UNCHANGED << outcome, trail >>
  BY <1>1, <1>3, SecureStays
<1>4. \A r \in WithProxy : r \in Requests
  BY DEF WithProxy
<1> QED BY <1>1, <1>2, <1>3, <1>4, StepsOfProxy
        DEF Serve, Crash, Publish, Tick, vars, requestVars, Probing, Send

LEMMA TimeKeeps ==
    ASSUME EInv, [EvaluationNext]_evaluationVars
    PROVE  InTime'
<1>1. /\ clock \in Nat /\ InTime /\ program \in DOMAIN Programs /\ step \in Nat
  BY DEF EInv, IInv, TypeOK, EvaluationTypeOK
<1>2. CASE Tick
  BY <1>1, <1>2, EvaluationAssumption, ProxyAssumption DEF Tick, InTime
<1>3. CASE UNCHANGED clock
  BY <1>1, <1>3 DEF InTime
<1>4. ASSUME NEW r \in Requests, Handler(r) PROVE UNCHANGED clock
  BY <1>4 DEF Handler, PassThrough, Receive, KeyArrives, RefuseBody, RefuseReplay,
              Admit, SpecsArrive, ForwardEnds
<1>5. \A r \in WithProxy : r \in Requests
  BY DEF WithProxy
<1> QED BY <1>1, <1>2, <1>3, <1>4, <1>5, StepsOfProxy
        DEF Serve, Crash, Publish, vars, Probing, Send
-------------------------------------------------------------------------------
\* The client never goes back: what is ahead after a step was ahead before it, and
\* is not what is sent by it.
LEMMA ClientGoesOn ==
    ASSUME EInv, [EvaluationNext]_evaluationVars
    PROVE  /\ program' = program
           /\ \A i \in Requests : IsAhead(i)' => IsAhead(i) /\ (Send => i # step)
<1>1. step \in Nat /\ sent \in BOOLEAN /\ \A i \in Requests : i \in Nat
  BY RequestsAreNumbers DEF EInv, EvaluationTypeOK
<1>2. program' = program
  BY DEF EvaluationNext, Client, Check, Probe, ProbeOwn, Send, Judge, CallDirect, GiveUp,
         Finish, Proxying, ProbeAnswered, UpstreamAnswers, World, Dies, Outage,
         clientVars, evaluationVars
<1>3. CASE Send
  BY <1>1, <1>2, <1>3 DEF Send, IsAhead
<1>4. CASE NextStep
  BY <1>1, <1>2, <1>4 DEF NextStep, Send, IsAhead, Ready
<1>5. CASE step' = step /\ (sent' = sent \/ sent' = TRUE) /\ ~ Send
  BY <1>1, <1>2, <1>5 DEF IsAhead
<1>6. Send \/ NextStep \/ (step' = step /\ (sent' = sent \/ sent' = TRUE))
  <2>1. ASSUME NEW hash, ProbeEnds(hash)
        PROVE  NextStep \/ (step' = step /\ sent' = sent)
    BY <2>1 DEF ProbeEnds, Raises, Abort
  <2>2. CASE Check \/ Probe \/ ProbeOwn \/ Judge \/ CallDirect \/ GiveUp \/ Finish
    BY <2>1, <2>2 DEF Check, Probe, ProbeOwn, Judge, CallDirect, GithubAnswers,
       BaselineAnswers, ServesDirect, GiveUp, Finish, Record, Except, Raises, Abort
  <2>3. CASE Proxying \/ UpstreamAnswers \/ World \/ UNCHANGED evaluationVars
    BY <2>1, <2>3 DEF Proxying, ProbeAnswered, UpstreamAnswers, World, Dies, Outage,
                      clientVars, evaluationVars
  <2> QED BY <2>2, <2>3 DEF EvaluationNext, Client
<1> QED BY <1>2, <1>3, <1>4, <1>5, <1>6

\* Nothing but its own handler begins with a request.
LEMMA LookupsAreOwn ==
    ASSUME MInv, NEW r \in Requests, NEW i \in Requests \ {r}, Handler(r) \/ Serve(r)
    PROVE  lookup'[i] = lookup[i]
<1>1. Resolver!TypeOK
  BY DEF MInv, SharedInv
<1>2. CASE UNCHANGED resolverVars
  BY <1>2 DEF resolverVars
<1>3. CASE Resolver!Ask(r, msg[r].iss) \/ Resolver!Serve(r) \/ Resolver!Deliver(r)
           \/ Resolver!Fail(r) \/ Resolver!ReadFile(msg[r].iss)
  BY <1>1, <1>3 DEF Resolver!TypeOK, Resolver!Ask, Resolver!Serve, Resolver!Deliver,
                    Resolver!Fail, Resolver!ReadFile
<1> QED BY <1>2, <1>3
        DEF Handler, PassThrough, Receive, KeyArrives, RefuseBody, RefuseReplay, Admit,
            SpecsArrive, ForwardEnds, Serve

LEMMA UnbegunStays ==
    ASSUME EInv, [EvaluationNext]_evaluationVars,
           NEW i \in Requests, msg[i] = Unsent
    PROVE  Unbegun(i)'
<1>1. /\ IInv /\ MInv /\ TypeOK /\ Resolver!TypeOK /\ Unbegun(i)
      /\ program \in DOMAIN Programs /\ step \in Nat
  BY DEF EInv, EvaluationTypeOK, SendInv, IInv, MInv, SharedInv
<1>2. ASSUME NEW r \in WithProxy, Handler(r) PROVE Unbegun(i)'
  <2>1. r \in Requests /\ i # r
    BY DEF WithProxy
  <2> QED BY <1>1, <1>2, <2>1, HandlerIsLocal, LookupsAreOwn DEF OthersStay, Unbegun
<1>3. ASSUME NEW r \in Requests, Serve(r) PROVE Unbegun(i)'
  <2>1. CASE i = r
    <3>1. ~ Resolver!Serve(r)
      BY <1>1, <2>1 DEF Resolver!Serve, Unbegun
    <3> QED BY <1>1, <1>3, <3>1 DEF Serve, Unbegun, resolverVars, requestVars
  <2>2. CASE i # r
    <3>1. lookup'[i] = lookup[i]
      BY <1>1, <1>3, <2>2, LookupsAreOwn
    <3> QED BY <1>1, <1>3, <3>1 DEF Serve, Unbegun, requestVars
  <2> QED BY <2>1, <2>2
<1>4. CASE Crash
  BY <1>1, <1>4 DEF Crash, Resolver!Restart, Resolver!NoLookup, Unbegun
<1>5. CASE \/ Publish \/ Tick \/ UNCHANGED vars \/ Send
           \/ \E r \in Requests : Probing(r)
  BY <1>1, <1>5 DEF Publish, Tick, vars, Send, Probing, resolverVars, requestVars, Unbegun
<1> QED BY <1>1, <1>2, <1>3, <1>4, <1>5, StepsOfProxy

LEMMA MessagesStay ==
    ASSUME EInv, [EvaluationNext]_evaluationVars
    PROVE  Send \/ msg' = msg
<1>1. IInv /\ MInv /\ program \in DOMAIN Programs /\ step \in Nat
  BY DEF EInv, EvaluationTypeOK
<1>2. ASSUME NEW r \in WithProxy, Handler(r) PROVE msg' = msg
  BY <1>1, <1>2, HandlerIsLocal DEF WithProxy
<1> QED BY <1>1, <1>2, StepsOfProxy DEF Serve, Probing, Crash, Publish, Tick, vars

LEMMA SendKeeps ==
    ASSUME EInv, [EvaluationNext]_evaluationVars
    PROVE  SendInv'
<1>1. /\ SendInv /\ IInv /\ MInv /\ msg \in [Requests -> Messages]
      /\ program \in DOMAIN Programs /\ step \in Nat
      /\ program' = program
  BY ClientGoesOn DEF EInv, EvaluationTypeOK, IInv, TypeOK
<1>2. \A i \in Requests : SentAs(i) /\ msg'[i] = msg[i] => SentAs(i)'
  BY <1>1 DEF SentAs, IsCall, Call, Calls, Probes, Origin, StepOf
<1>3. CASE Send
  <2>1. /\ step \in Requests /\ msg[step] = Unsent
        /\ msg' = [msg EXCEPT ![step] = Minted(Call(step))]
    BY <1>1, <1>3, MintedIsMessage DEF Send, Ready, SendInv, IsAhead
  <2>2. /\ msg'[step] = Minted(Call(step))
        /\ \A i \in Requests \ {step} : msg'[i] = msg[i]
    BY <1>1, <2>1
  <2>3. msg'[step] # Unsent => SentAs(step)'
    <3> DEFINE m == Minted(Call(step))
               S(n) == /\ IsCall(n) /\ Call(n).to = "proxy"
                       /\ Shaped(m) /\ m.jti \in {NoJti, Origin(n)} /\ Origin(n) <= n
                       /\ Call(n).reuse = 0 => Reminted(m, Call(n))
    <3>1. m # Unsent => S(step)
      BY <1>1, <1>3, MintedIsMessage DEF Send
    <3>2. step' = step
      BY <1>3 DEF Send
    <3> HIDE DEF m
    <3>3. /\ IsCall(step)' = IsCall(step)
          /\ Call(step)' = Call(step) /\ Origin(step)' = Origin(step)
      BY <1>1, <3>2 DEF IsCall, Call, Calls, Probes, Origin, StepOf
    <3>4. m # Unsent => SentAs(step)'
      BY <2>2, <3>1, <3>2, <3>3 DEF SentAs, m
    <3> QED BY <2>2, <3>4 DEF m
  <2>4. ASSUME NEW i \in Requests
        PROVE  /\ IsAhead(i)' => msg'[i] = Unsent
               /\ msg'[i] = Unsent => Unbegun(i)'
               /\ msg'[i] # Unsent => SentAs(i)'
    <3>1. ASSUME IsAhead(i)' PROVE msg'[i] = Unsent
      <4>1. IsAhead(i) /\ i # step
        BY <1>3, <3>1, ClientGoesOn
      <4> QED BY <1>1, <2>2, <4>1 DEF SendInv
    <3>2. msg'[i] = Unsent => Unbegun(i)'
      BY <2>1, <2>2, UnbegunStays
    <3>3. ASSUME msg'[i] # Unsent PROVE SentAs(i)'
      <4>1. CASE i = step
        <5>1. msg'[step] # Unsent
          BY <3>3, <4>1
        <5>2. SentAs(step)'
          BY <2>3, <5>1
        <5>3. step' = step
          BY <1>3 DEF Send
        <5> QED BY <4>1, <5>2, <5>3 DEF SentAs, Origin
      <4>2. CASE i # step
        <5>1. SentAs(i) /\ msg'[i] = msg[i]
          BY <1>1, <2>2, <3>3, <4>2 DEF SendInv
        <5> QED BY <1>2, <5>1
      <4> QED BY <4>1, <4>2
    <3> QED BY <3>1, <3>2, <3>3
  <2> QED BY <1>1, <2>4 DEF SendInv
<1>4. CASE msg' = msg
  BY <1>1, <1>2, <1>4, ClientGoesOn, UnbegunStays DEF SendInv
<1>5. Send \/ msg' = msg
  BY MessagesStay
<1> QED BY <1>3, <1>4, <1>5
-------------------------------------------------------------------------------
\* The types of what the client keeps: a program ends in a way of its own, and is
\* told nothing but hashes of specifications.
ClientTypes ==
    /\ step' \in Nat /\ sent' \in BOOLEAN
    /\ ended' \in {"no"} \cup Suite!EndsOf(program)
    /\ hashes' \in [Tools -> Hashes]
    /\ verdicts' \in Seq([status : Nat, blocked : BOOLEAN])

LEMMA EndingsAreTyped ==
    ASSUME EvaluationTypeOK
    PROVE  /\ {"finished", "aborted"} \subseteq Suite!EndsOf(program)
           /\ Programs[program].asks = "own" => "failed" \in Suite!EndsOf(program)
           /\ \A i \in Int : IsCall(i) /\ ~ Call(i).catches =>
                  "failed" \in Suite!EndsOf(program)
<1>1. SoundProgram(program, Programs[program])
  BY ProgramsAreSound DEF EvaluationTypeOK
<1>2. ASSUME NEW i \in Int, IsCall(i), ~ Call(i).catches,
             Calls \in Seq(CatchingCalls)
      PROVE  FALSE
  <2>1. Call(i) \in CatchingCalls
    BY <1>2 DEF IsCall, Call
  <2> QED BY <1>2, <2>1 DEF CatchingCalls
<1>3. Programs[program].asks = "own" => "failed" \in Suite!EndsOf(program)
  BY <1>1 DEF SoundProgram
<1>4. Calls \in Seq(CatchingCalls) \/ "failed" \in Suite!EndsOf(program)
  BY <1>1 DEF SoundProgram, Calls
<1> QED BY <1>2, <1>3, <1>4 DEF Suite!EndsOf

LEMMA StepIsTyped ==
    ASSUME EvaluationTypeOK, NextStep \/ UNCHANGED << step, sent >>
    PROVE  step' \in Nat /\ sent' \in BOOLEAN
<1>1. step \in Nat /\ sent \in BOOLEAN
  BY Zenon DEF EvaluationTypeOK
<1>2. step' \in Nat
  BY <1>1 DEF NextStep
<1>3. sent' \in BOOLEAN
  BY <1>1, Zenon DEF NextStep
<1> QED BY <1>2, <1>3

LEMMA ProbeEndsIsTyped ==
    ASSUME EvaluationTypeOK, IsProbe(step), NEW hash, ProbeEnds(hash),
           hash # NoHash => hash \in Hashes, verdicts' = verdicts
    PROVE  ClientTypes
<1>1. Suite!ZeroHash \in Hashes
  BY DEF Hashes
<1>2. hashes' \in [Tools -> Hashes]
  BY <1>1 DEF ProbeEnds, EvaluationTypeOK
<1>3. step' \in Nat /\ sent' \in BOOLEAN
  <2>1. NextStep \/ UNCHANGED << step, sent >>
    BY DEF ProbeEnds, Raises, Abort
  <2> QED BY <2>1, StepIsTyped
<1>4. ended' \in {"no"} \cup Suite!EndsOf(program)
  BY EndingsAreTyped DEF ProbeEnds, NextStep, Raises, Abort, EvaluationTypeOK
<1> QED BY <1>2, <1>3, <1>4 DEF ClientTypes, EvaluationTypeOK

LEMMA RecordIsTyped ==
    ASSUME EvaluationTypeOK, NEW status \in Nat, NEW error \in BOOLEAN,
           Record(status, error), hashes' = hashes
    PROVE  ClientTypes
<1> DEFINE blocked == status >= 400 \/ error
           verdict == [status |-> status, blocked |-> blocked]
<1>1. blocked \in BOOLEAN
  BY Zenon
<1> HIDE DEF blocked
<1>2. verdict \in [status : Nat, blocked : BOOLEAN]
  BY <1>1, Zenon
<1>3. verdicts' = Append(verdicts, verdict)
  BY DEF Record, blocked
<1> HIDE DEF verdict
<1>4. verdicts' \in Seq([status : Nat, blocked : BOOLEAN])
  BY <1>2, <1>3 DEF EvaluationTypeOK
<1>5. NextStep /\ ended' = ended
  BY DEF Record, NextStep
<1> QED BY <1>4, <1>5, StepIsTyped, Zenon DEF ClientTypes, EvaluationTypeOK

LEMMA ExceptIsTyped ==
    ASSUME EvaluationTypeOK, IsCall(step), Except, hashes' = hashes
    PROVE  ClientTypes
<1>1. CASE ~ Call(step).catches /\ Raises /\ UNCHANGED verdicts
  BY <1>1, EndingsAreTyped DEF Raises, ClientTypes, EvaluationTypeOK
<1>2. CASE Call(step).catches /\ NextStep
           /\ verdicts' = Append(verdicts, [status |-> 0, blocked |-> TRUE])
  <2> DEFINE verdict == [status |-> 0, blocked |-> TRUE]
  <2>1. 0 \in Nat /\ TRUE \in BOOLEAN
    OBVIOUS
  <2>2. verdict \in [status : Nat, blocked : BOOLEAN]
    BY <2>1, Zenon
  <2>3. verdicts' = Append(verdicts, verdict)
    BY <1>2
  <2> HIDE DEF verdict
  <2>4. verdicts' \in Seq([status : Nat, blocked : BOOLEAN])
    BY <2>2, <2>3 DEF EvaluationTypeOK
  <2>5. NextStep /\ ended' = ended
    BY <1>2 DEF NextStep
  <2> QED BY <2>4, <2>5, StepIsTyped, Zenon DEF ClientTypes, EvaluationTypeOK
<1> QED BY <1>1, <1>2 DEF Except

\* What a call without the proxy comes to.
LEMMA DirectIsAnswered ==
    ASSUME CallDirect
    PROVE  Except \/ \E status \in Nat \ {0}, error \in BOOLEAN : Record(status, error)
<1> DEFINE Recorded == \E status \in Nat \ {0}, error \in BOOLEAN : Record(status, error)
<1>1. \A status \in {200, 401, 403, 429, 500}, error \in BOOLEAN :
          Record(status, error) => Recorded
  OBVIOUS
<1> HIDE DEF Recorded
<1>2. \A tool : ServesDirect(tool) => Recorded
  BY <1>1 DEF ServesDirect
<1>3. \A tool : BaselineAnswers(tool) => Recorded
  BY <1>1, <1>2 DEF BaselineAnswers
<1>4. ASSUME NEW tool, NEW pat, GithubAnswers(tool, pat) PROVE Recorded
  <2>1. ASSUME NEW status \in {401, 403, 429, 500}, Record(status, FALSE) PROVE Recorded
    <3>1. status \in {200, 401, 403, 429, 500} /\ FALSE \in BOOLEAN
      BY <2>1
    <3> QED BY <1>1, <2>1, <3>1, Zenon
  <2>2. CASE ServesDirect(tool)
    BY <1>2, <2>2
  <2>3. CASE Record(401, FALSE)
    BY <2>1, <2>3
  <2>4. CASE \E status \in {403, 429, 500} : Record(status, FALSE)
    <3>1. PICK status \in {403, 429, 500} : Record(status, FALSE)
      BY <2>4, Zenon
    <3>2. status \in {401, 403, 429, 500}
      OBVIOUS
    <3> QED BY <2>1, <3>1, <3>2, Zenon
  <2> QED BY <1>4, <2>2, <2>3, <2>4, Zenon DEF GithubAnswers
<1>5. Except \/ Recorded
  BY <1>3, <1>4 DEF CallDirect
<1> QED BY <1>5 DEF Recorded

LEMMA UntouchedIsTyped ==
    ASSUME EvaluationTypeOK, UNCHANGED << step, sent, ended, hashes, verdicts >>
    PROVE  ClientTypes
  BY DEF ClientTypes, EvaluationTypeOK

\* What a probe finds out is a hash of the tool.
LEMMA ProbedIsPublished ==
    ASSUME SharedInv, program \in DOMAIN Programs, NEW i, IsProbe(i)
    PROVE  LET tool == Probes[i]
           IN  /\ tool \in Tools
               /\ catalogue[tool] \in HashesOf(tool)
               /\ UpstreamMode = "github" =>
                      /\ LocalToolSpecs[tool] \in HashesOf(tool)
                      /\ Registry!Merged(catalogue)[tool] \in HashesOf(tool)
<1> DEFINE tool == Probes[i]
<1>1. tool \in Tools
  <2>1. KnownTools \subseteq Tools
    BY EvaluationAssumption DEF KnownTools
  <2> QED BY <2>1, StepsHaveRequests
<1>2. catalogue \in Catalogues
  BY DEF SharedInv, Registry!TypeOK
<1> HIDE DEF tool
<1>3. catalogue[tool] \in HashesOf(tool)
  BY <1>2 DEF HashesOf
<1>4. UpstreamMode = "github" => LocalToolSpecs[tool] \in HashesOf(tool)
  BY DEF HashesOf
<1>5. UpstreamMode = "github" => Registry!Merged(catalogue)[tool] \in HashesOf(tool)
  BY <1>1, <1>3, <1>4 DEF Registry!Merged
<1> QED BY <1>1, <1>3, <1>4, <1>5 DEF tool

LEMMA ClientIsTyped ==
    ASSUME EInv, [EvaluationNext]_evaluationVars
    PROVE  ClientTypes
<1>1. /\ EvaluationTypeOK /\ TypeOK /\ SharedInv
      /\ program \in DOMAIN Programs /\ step \in Nat
      /\ UpstreamMode \in {"local", "github"}
  BY DEF EInv, IInv, MInv, EvaluationTypeOK, UpstreamMode
<1>2. \A tool \in Tools : HashesOf(tool) \subseteq Hashes
  BY DEF Hashes
<1>3. ASSUME NEW i, NEW specs, IsProbe(i),
             \/ specs = Registry!Current /\ Registry!Ready
             \/ i \in Requests /\ specs = Registry!Fetched(i) /\ Registry!Deliver(i)
             \/ specs = LocalToolSpecs /\ UpstreamMode = "github",
             specs[Probes[i]] # NoHash
      PROVE  specs[Probes[i]] \in Hashes
  <2>1. i \in Requests /\ Probes[i] \in Tools
    BY <1>1, <1>3, StepsHaveRequests, ProbedIsPublished
  <2> QED BY <1>1, <1>2, <1>3, <2>1, SpecsArePublished
<1>4. CASE Check
  <2>1. NextStep \/ Abort
    BY <1>4 DEF Check
  <2>2. step' \in Nat /\ sent' \in BOOLEAN
    BY <1>1, <2>1, StepIsTyped DEF Abort
  <2>3. ended' \in {"no"} \cup Suite!EndsOf(program)
    BY <1>1, <2>1, EndingsAreTyped DEF NextStep, Abort, EvaluationTypeOK
  <2> QED BY <1>1, <1>4, <2>2, <2>3 DEF Check, ClientTypes, EvaluationTypeOK
<1>5. CASE Probe
  <2>1. IsProbe(step) /\ verdicts' = verdicts
    BY <1>5 DEF Probe
  <2>2. CASE Registry!Ready /\ ProbeEnds(Registry!Current[Probes[step]])
    BY <1>1, <1>3, <2>1, <2>2, ProbeEndsIsTyped
  <2>3. CASE sent' = TRUE /\ UNCHANGED << step, ended, hashes >>
    BY <1>1, <2>1, <2>3 DEF ClientTypes, EvaluationTypeOK
  <2> QED BY <1>5, <2>2, <2>3 DEF Probe
<1>6. CASE ProbeOwn
  <2> DEFINE tool == Probes[step]
  <2>1. IsProbe(step) /\ verdicts' = verdicts
    BY <1>6 DEF ProbeOwn, vars
  <2>2. /\ catalogue[tool] \in Hashes
        /\ UpstreamMode = "github" =>
               /\ LocalToolSpecs[tool] \in Hashes
               /\ Registry!Merged(catalogue)[tool] \in Hashes
    BY <1>1, <1>2, <2>1, ProbedIsPublished
  <2>3. \E hash : ProbeEnds(hash) /\ (hash # NoHash => hash \in Hashes)
    BY <1>6, <2>2 DEF ProbeOwn
  <2> QED BY <1>1, <2>1, <2>3, ProbeEndsIsTyped
<1>7. CASE Send
  BY <1>1, <1>7, UntouchedIsTyped DEF Send, ClientTypes, EvaluationTypeOK
<1>8. CASE Judge
  <2>1. step \in Requests /\ hashes' = hashes
    BY <1>1, <1>8, StepsHaveRequests DEF Judge
  <2>2. outcome[step].status \in Nat
    BY <1>1, <2>1 DEF TypeOK
  <2> QED BY <1>1, <1>8, <2>1, <2>2, RecordIsTyped DEF Judge
<1>9. CASE CallDirect
  <2>1. IsCall(step) /\ hashes' = hashes
    BY <1>9 DEF CallDirect, Ready
  <2>2. Except \/ \E status \in Nat \ {0}, error \in BOOLEAN : Record(status, error)
    BY <1>9, DirectIsAnswered
  <2> QED BY <1>1, <2>1, <2>2, RecordIsTyped, ExceptIsTyped
<1>10. CASE GiveUp
  <2>1. CASE IsProbe(step) /\ ProbeEnds(NoHash) /\ UNCHANGED verdicts
    BY <1>1, <2>1, ProbeEndsIsTyped
  <2>2. CASE IsCall(step) /\ Except /\ UNCHANGED hashes
    BY <1>1, <2>2, ExceptIsTyped
  <2> QED BY <1>10, <2>1, <2>2 DEF GiveUp
<1>11. CASE Finish
  BY <1>1, <1>11, EndingsAreTyped DEF Finish, ClientTypes, EvaluationTypeOK
<1>12. CASE Proxying
  <2>1. ASSUME NEW i \in Requests, IsProbe(i), ProbeAnswered(i) PROVE ClientTypes
    <3>1. verdicts' = verdicts
      BY <2>1 DEF ProbeAnswered
    <3>2. ASSUME NEW hash, hash # NoHash => hash \in Hashes,
                 IF i = step /\ sent /\ ended = "no" THEN ProbeEnds(hash)
                 ELSE UNCHANGED << step, sent, ended, hashes >>
          PROVE  ClientTypes
      BY <1>1, <2>1, <3>1, <3>2, ProbeEndsIsTyped, UntouchedIsTyped
    <3>3. CASE Registry!Deliver(i)
               /\ IF i = step /\ sent /\ ended = "no"
                  THEN ProbeEnds(Registry!Fetched(i)[Probes[i]])
                  ELSE UNCHANGED << step, sent, ended, hashes >>
      BY <1>3, <2>1, <3>2, <3>3
    <3>4. CASE IF i = step /\ sent /\ ended = "no"
               THEN ProbeEnds(IF UpstreamMode = "local" THEN NoHash
                              ELSE LocalToolSpecs[Probes[i]])
               ELSE UNCHANGED << step, sent, ended, hashes >>
      BY <1>1, <1>3, <2>1, <3>2, <3>4
    <3> QED BY <2>1, <3>3, <3>4 DEF ProbeAnswered
  <2> QED BY <1>1, <1>12, <2>1, UntouchedIsTyped DEF Proxying, clientVars
<1>13. CASE UpstreamAnswers \/ World \/ UNCHANGED evaluationVars
  BY <1>1, <1>13, UntouchedIsTyped
     DEF UpstreamAnswers, World, Dies, Outage, evaluationVars, clientVars
<1> QED BY <1>4, <1>5, <1>6, <1>7, <1>8, <1>9, <1>10, <1>11, <1>12, <1>13
        DEF EvaluationNext, Client

LEMMA TypesKeep ==
    ASSUME EInv, [EvaluationNext]_evaluationVars
    PROVE  EvaluationTypeOK'
<1>1. /\ failures \in 0 .. MaxFailures /\ MaxFailures \in Nat
      /\ down \in BOOLEAN /\ forgotten \in BOOLEAN
      /\ program \in DOMAIN Programs
  BY EvaluationAssumption DEF EInv, EvaluationTypeOK
<1>2. program' = program
  BY ClientGoesOn
<1>3. failures' \in 0 .. MaxFailures
  <2>1. Fails \/ failures' = failures
    BY DEF EvaluationNext, Client, Check, Probe, ProbeOwn, Send, Judge, CallDirect,
           GithubAnswers, GiveUp, Finish, Proxying, ProbeAnswered, UpstreamAnswers, World, Dies, Outage,
           worldVars, evaluationVars
  <2> QED BY <1>1, <2>1 DEF Fails
<1>4. down' \in BOOLEAN
  BY <1>1 DEF EvaluationNext, Client, Check, Probe, ProbeOwn, Send, Judge, CallDirect,
         GiveUp, Finish, Proxying, ProbeAnswered, UpstreamAnswers, World, Dies, Outage,
         worldVars, evaluationVars
<1>5. forgotten' \in BOOLEAN
  BY <1>1, Zenon DEF EvaluationNext, evaluationVars
<1>6. ClientTypes
  BY ClientIsTyped
<1> QED BY <1>1, <1>2, <1>3, <1>4, <1>5, <1>6 DEF ClientTypes, EvaluationTypeOK

LEMMA EvaluationStarts == EvaluationInit => EInv
<1> SUFFICES ASSUME EvaluationInit PROVE EInv
  OBVIOUS
<1>1. /\ Start /\ msg = [i \in Requests |-> Unsent] /\ Unsent \in Messages
      /\ step = 0 /\ sent = FALSE
  BY EvaluationAssumption DEF EvaluationInit
<1>2. IInv /\ MInv
  <2>1. msg \in [Requests -> Messages]
    BY <1>1
  <2> QED BY <1>1, <2>1, InitEstablishes, InitMediates DEF Init
<1>3. EvaluationTypeOK
  <2>1. Suite!ZeroHash \in Hashes
    BY DEF Hashes
  <2>2. hashes \in [Tools -> Hashes]
    BY <2>1 DEF EvaluationInit
  <2>3. verdicts \in Seq([status : Nat, blocked : BOOLEAN])
    BY DEF EvaluationInit
  <2>4. failures \in 0 .. MaxFailures
    BY EvaluationAssumption DEF EvaluationInit
  <2> QED BY <2>2, <2>3, <2>4 DEF EvaluationInit, EvaluationTypeOK
<1>4. SecureInv
  BY <1>1 DEF Start, SecureInv
<1>5. SendInv
  BY <1>1 DEF Start, SendInv, Unbegun, Resolver!ResolverInit, Resolver!NoLookup
<1>6. InTime
  BY <1>1, EvaluationAssumption DEF Start, InTime
<1> QED BY <1>2, <1>3, <1>4, <1>5, <1>6 DEF EInv

LEMMA EvaluationKeeps == EInv /\ [EvaluationNext]_evaluationVars => EInv'
  BY PipelineKeeps, TypesKeep, SecureKeeps, SendKeeps, TimeKeeps DEF EInv

LEMMA EvaluationHolds == EvaluationSpec => []EInv
  BY EvaluationStarts, EvaluationKeeps, PTL DEF EvaluationSpec

\* Whatever went wrong, the client is at a step of its program, ends only in the
\* ways the program has, and was told only hashes that somebody publishes.
THEOREM EvaluationTypeCorrect == EvaluationSpec => []EvaluationTypeOK
<1>1. EInv => EvaluationTypeOK
  BY DEF EInv
<1> QED BY <1>1, EvaluationHolds, PTL
-------------------------------------------------------------------------------
\* The agents of the programs: agent1 has one key, and nobody has one for the other.
LEMMA OnlyAgent1HasAKey ==
    ASSUME NEW m, Shaped(m), m.iss \in Dids
    PROVE  /\ m.key \in KeysOf(m.iss) => m.iss = "agent1" /\ m.key = "k1"
           /\ \A key \in KeysOf(m.iss) : key \in Keys => m.iss = "agent1" /\ key = "k1"
<1>1. m.iss = "agent1" \/ (m.iss = "hacker" /\ KeysOf(m.iss) = {NoDocument})
  <2>1. m.iss = "agent1" \/ m.iss = "hacker"
    BY DEF Shaped
  <2>2. CASE m.iss = "hacker"
    BY <2>2, IdentityAssumption, Zenon
  <2> QED BY <2>1, <2>2
<1>2. NoDocument \notin Keys /\ m.key \in Keys
  BY SurroundingsAssumption, IdentityAssumption DEF Shaped
<1> QED BY <1>1, <1>2, IdentityAssumption

\* A token that was verified has none of the flaws that come before step 6.
LEMMA VerifiedIsAgent1 ==
    ASSUME NEW m, Shaped(m), Verified(m), m.exp > 0
    PROVE  /\ m.form = "jwt" /\ m.iss = "agent1" /\ m.key = "k1"
           /\ m.claims = "good" /\ m.exp # 0
  BY OnlyAgent1HasAKey DEF Verified, Shaped

\* A request that spent its jti was sent, and has none of the flaws that are found
\* before step 7.
LEMMA SpentIsBound ==
    ASSUME EInv, NEW i \in Requests, Spent(i)
    PROVE  SentAs(i) /\ Flaw(msg[i]) \in Late \cup {"none"}
<1> DEFINE m == msg[i]
<1>1. /\ Genuine(m) /\ ~ Untried(i) /\ m.exp > 0 /\ m.jti # NoJti
  BY ProxyAssumption DEF EInv, IInv, MInv, RequestInv, PlaceInv, SpentHasRow
<1>2. SentAs(i)
  BY <1>1 DEF EInv, SendInv, Unbegun, Untried
<1>3. /\ m.form = "jwt" /\ m.iss = "agent1" /\ m.key = "k1"
      /\ m.claims = "good" /\ m.exp # 0 /\ m.tool = m.asked
  BY <1>1, <1>2, VerifiedIsAgent1 DEF Genuine, Verified, SentAs
<1>4. Flaw(m) \in Late \cup {"none"}
  BY <1>1, <1>3 DEF Flaw, Late
<1> QED BY <1>2, <1>4

\* Of two requests with the same token, one at most spends its jti.
LEMMA OneUseOnly ==
    ASSUME EInv, NEW i \in Requests, NEW j \in Requests \ {i}, msg[j] = msg[i],
           Spent(i), Spent(j)
    PROVE  FALSE
<1>1. /\ IInv /\ SentAs(i) /\ msg[i].exp > 0
      /\ spentAt[i] <= clock /\ spentAt[j] <= clock
  BY SpentIsBound DEF EInv, IInv, MInv, RequestInv, PlaceInv, SpentHasRow
<1>2. msg[i].exp \in {60, 300}
  BY <1>1 DEF SentAs, Shaped
<1>3. \/ spentAt[i] >= msg[i].exp * TicksPerSecond
      \/ spentAt[j] >= msg[i].exp * TicksPerSecond
  BY <1>1 DEF IInv, NoReplayInLifetime
<1>4. /\ clock < 60 * TicksPerSecond /\ TicksPerSecond \in Nat
      /\ clock \in Nat /\ spentAt[i] \in Nat /\ spentAt[j] \in Nat
  BY <1>1, ProxyAssumption DEF EInv, InTime, IInv, TypeOK
<1>5. 60 * TicksPerSecond <= 300 * TicksPerSecond
  BY <1>4
<1>6. 60 * TicksPerSecond <= msg[i].exp * TicksPerSecond
  BY <1>2, <1>4, <1>5
<1> QED BY <1>1, <1>2, <1>3, <1>4, <1>6

\* What the upstream server was asked for had the consent of every check.
LEMMA ReachedWasSent ==
    ASSUME EInv, NEW i \in Requests, Reached(i)
    PROVE  /\ SentAs(i) /\ Consented(i)
           /\ msg[i].hash \in HashesOf(msg[i].asked)
           /\ msg[i].exp \in {60, 300} /\ spentAt[i] <= clock
<1>1. /\ SecureInv /\ SendInv /\ SpentHasRow /\ RequestInv(i)
  BY DEF EInv, IInv, MInv
<1>2. ~ InBaseline(i)
  BY <1>1, SecureIsNotBaseline
<1>3. Consented(i) /\ msg[i].hash \in HashesOf(msg[i].asked)
  BY <1>1, <1>2 DEF RequestInv, Mediated
<1>4. Spent(i) /\ spentAt[i] <= clock /\ msg[i].exp > 0
  BY <1>1, <1>3 DEF Consented, RequestInv, PlaceInv, SpentHasRow
<1>5. msg[i] # Unsent
  BY <1>1 DEF SendInv, Unbegun, RequestInv, PlaceInv, Reached
<1>6. SentAs(i)
  BY <1>1, <1>5 DEF SendInv
<1>7. msg[i].exp \in {60, 300}
  BY <1>4, <1>6 DEF SentAs, Shaped
<1> QED BY <1>3, <1>4, <1>6, <1>7

\* Only the hash and the jti are filled in.
LEMMA FilledKeepsFields ==
    ASSUME NEW n \in MessageShape, NEW hash, NEW jti, NEW m, m = Filled(n, hash, jti)
    PROVE  /\ m.form = n.form /\ m.claims = n.claims /\ m.key = n.key /\ m.exp = n.exp
           /\ m.tool = n.tool /\ m.asked = n.asked /\ m.iss = n.iss
           /\ m.params = n.params
  BY DEF Filled, MessageShape

LEMMA RemintedKeeps ==
    ASSUME NEW m, NEW c, c.message \in MessageShape, Reminted(m, c)
    PROVE  LET n == c.message
           IN  /\ m.form = n.form /\ m.claims = n.claims /\ m.key = n.key
               /\ m.exp = n.exp /\ m.tool = n.tool /\ m.asked = n.asked
               /\ m.iss = n.iss /\ m.params = n.params
               /\ m.jti = NoJti <=> n.jti = NoJti
<1> DEFINE n == c.message
<1>1. /\ m.form = n.form /\ m.claims = n.claims /\ m.key = n.key /\ m.exp = n.exp
      /\ m.tool = n.tool /\ m.asked = n.asked /\ m.iss = n.iss /\ m.params = n.params
  <2>1. PICK hash, jti : m = Filled(n, hash, jti)
    BY DEF Reminted
  <2> QED BY <2>1, FilledKeepsFields
<1>2. m.jti = NoJti <=> n.jti = NoJti
  BY DEF Reminted
<1> QED BY <1>1, <1>2

\* What is minted from a message has the flaw of the message.
LEMMA FlawIsKept ==
    ASSUME NEW m, NEW c, c.message \in MessageShape, Reminted(m, c),
           Flaw(c.message) # "none"
    PROVE  Flaw(m) = Flaw(c.message)
<1> DEFINE n == c.message
<1>1. /\ m.form = n.form /\ m.claims = n.claims /\ m.key = n.key /\ m.exp = n.exp
      /\ m.tool = n.tool /\ m.asked = n.asked /\ m.iss = n.iss /\ m.params = n.params
  BY RemintedKeeps
<1>2. m.jti = NoJti <=> n.jti = NoJti
  BY DEF Reminted
<1>3. n.hash \in {Suite!ZeroHash, "none"} => m.hash = n.hash
  BY DEF Reminted, Suite!Probed, Suite!ZeroHash
<1> HIDE DEF n
<1>4. Flaw(n) # "none"
  BY DEF n
<1>5. Flaw(m) = Flaw(n)
  BY <1>1, <1>2, <1>3, <1>4 DEF Flaw, Decision
<1> QED BY <1>5 DEF n

\* What reaches the upstream server has no flaw.
LEMMA ReachedIsFlawless ==
    ASSUME EInv, NEW i \in Requests, Reached(i)
    PROVE  Flaw(msg[i]) = "none"
<1> DEFINE m == msg[i]
<1>1. /\ Consented(i) /\ m.hash \in HashesOf(m.asked) /\ Shaped(m)
  BY ReachedWasSent DEF SentAs
<1>2. Flaw(m) \in Late \cup {"none"}
  BY <1>1, SpentIsBound DEF Consented
<1>3. Decision(m) = "allow" /\ m.hash # "none"
  BY <1>1 DEF Consented, NoHash, Registry!NoHash, Decision
<1>4. m.hash # Suite!ZeroHash
  <2>1. m.asked \in Tools
    BY <1>1, EvaluationAssumption DEF Shaped, KnownTools
  <2> QED BY <1>1, <2>1, EvaluationAssumption
<1> QED BY <1>2, <1>3, <1>4 DEF Flaw, Late

\* No attack of a program is ever executed by the upstream server, whatever the
\* handlers of calls that were given up, crashes, outages and other clients' keys
\* and specifications do, and of the uses of one token one at most is
\* (attack_runner.py:11-12, 463-473).
THEOREM EvaluationAttacksNeverExecute == EvaluationSpec => []AttacksNeverExecute
<1>1. ASSUME EInv, NEW i \in Requests, IsCall(i), Call(i).to = "proxy", Reached(i)
      PROVE  /\ Call(i).expect = "allowed" \/ IsReplay(i)
             /\ \A j \in Requests \ {i} : msg[j] = msg[i] => ~ Reached(j)
  <2>1. Call(i) \in SoundCalls
    BY <1>1, StepsHaveRequests, RequestsAreNumbers DEF EInv, EvaluationTypeOK
  <2>2. ASSUME Call(i).expect # "allowed", Call(i).reuse = 0 PROVE FALSE
    <3>1. /\ Call(i).message \in MessageShape
          /\ Flaw(Call(i).message) \in Early \cup Late
      BY <1>1, <2>1, <2>2 DEF SoundCalls
    <3>2. Reminted(msg[i], Call(i))
      BY <1>1, <2>2, ReachedWasSent DEF SentAs
    <3> QED BY <1>1, <3>1, <3>2, FlawIsKept, ReachedIsFlawless DEF Early, Late
  <2>3. ASSUME NEW j \in Requests \ {i}, msg[j] = msg[i], Reached(j) PROVE FALSE
    <3>1. Spent(i) /\ Spent(j)
      BY <1>1, <2>3, ReachedWasSent DEF Consented
    <3> QED BY <1>1, <2>3, <3>1, OneUseOnly
  <2> QED BY <1>1, <2>2, <2>3 DEF IsReplay
<1>2. EInv => AttacksNeverExecute
  BY <1>1 DEF AttacksNeverExecute
<1> QED BY <1>2, EvaluationHolds, PTL
-------------------------------------------------------------------------------
\* What an answer says of the message: an early check that refused it is the first
\* that it fails, a refusal for a replay means that it passes those, and the later
\* checks come after the jti was spent and tell what the policy decided.
Apt(m, status, stage, spent) ==
    /\ stage \notin {"none", "request_parse"}
    /\ stage \in Early => Flaw(m) = stage
    /\ stage = "replay_protection" =>
           Flaw(m) \in Late \cup {"replay_protection", "none"}
    /\ stage \in Late \cup {"rate_limit"} => spent
    /\ stage = "policy_enforcement" => Decision(m) = "refuse"
    /\ stage = "tool_integrity" => Decision(m) = "allow"
    /\ IF stage = "forwarded" THEN status = 200 ELSE status >= 400
    /\ stage = "rate_limit" => status = 429
    /\ stage = "exception" => status = 500
    /\ stage = "upstream" => status = 502

Fits(r) ==
    /\ pc[r] = "resolving" => msg[r].iss # "agent1"
    /\ pc[r] = "answered" =>
           Apt(msg[r], outcome[r].status, outcome[r].stage, Spent(r))

CourseInv == \A r \in Requests : Fits(r)

LEMMA AnswerFits ==
    ASSUME TypeOK, NEW r \in Requests, NEW status, NEW stage, NEW records,
           Answer(r, status, stage, records), msg' = msg,
           Apt(msg[r], status, stage, Spent(r)')
    PROVE  Fits(r)'
<1>1. /\ pc'[r] = "answered"
      /\ outcome'[r].status = status /\ outcome'[r].stage = stage
  BY AnswerEffect
<1> QED BY <1>1 DEF Fits

LEMMA AwaitFits ==
    ASSUME TypeOK, NEW r \in Requests, NEW place, NEW records,
           Await(r, place, records), msg' = msg, place # "answered",
           place = "resolving" => msg[r].iss # "agent1"
    PROVE  Fits(r)'
<1>1. pc'[r] = place
  BY AwaitEffect
<1> QED BY <1>1 DEF Fits

LEMMA RaiseFits ==
    ASSUME TypeOK, NEW r \in Requests, NEW records, Raise(r, records), msg' = msg
    PROVE  Fits(r)'
  BY AnswerFits DEF Raise, Apt, Early, Late

LEMMA ForwardFits ==
    ASSUME TypeOK, NEW r \in Requests, NEW records, Forward(r, records), msg' = msg
    PROVE  Fits(r)'
<1>1. CASE Answer(r, 502, "upstream", records)
  BY <1>1, AnswerFits DEF Apt, Early, Late
<1>2. CASE Await(r, "forwarding", records)
  BY <1>2, AwaitFits
<1> QED BY <1>1, <1>2 DEF Forward

LEMMA VerifyFits ==
    ASSUME TypeOK, InTime, NEW r \in Requests, Shaped(msg[r]), msg[r].form = "jwt",
           msg[r].iss = "agent1", Verify(r, "k1"), msg' = msg
    PROVE  Fits(r)'
<1> DEFINE m == msg[r]
           stage == Stage(m, "k1")
<1>1. Unexpired(m.exp) <=> m.exp # 0
  <2>1. /\ m.exp \in {0, 60, 300} /\ TicksPerSecond \in Nat /\ clock \in Nat
        /\ clock < 60 * TicksPerSecond
    BY ProxyAssumption DEF Shaped, InTime, TypeOK
  <2>2. 60 * TicksPerSecond <= 300 * TicksPerSecond
    BY <2>1
  <2> QED BY <2>1, <2>2 DEF Unexpired
<1>2. stage # "ok" => /\ stage = Flaw(m)
                      /\ stage \in {"signature_verification", "jwt_verification",
                                    "token_expiry", "audience_validation"}
  BY <1>1 DEF Stage, Flaw
<1>3. CASE stage = "ok" /\ Await(r, "body", << >>)
  BY <1>3, AwaitFits
<1>4. CASE stage # "ok" /\ _deny(r, 401, stage)
  <2>1. Apt(m, 401, stage, Spent(r)')
    BY <1>2, <1>4 DEF Apt, Early, Late
  <2> QED BY <1>4, <2>1, AnswerFits DEF _deny
<1> QED BY <1>3, <1>4 DEF Verify

\* A refusal by the check that the message fails first.
LEMMA DenyFits ==
    ASSUME TypeOK, NEW r \in Requests, NEW status \in {400, 401}, NEW stage,
           _deny(r, status, stage),
           stage \in Early \cup {"replay_protection"}, Flaw(msg[r]) = stage, msg' = msg
    PROVE  Fits(r)'
<1>1. Apt(msg[r], status, stage, Spent(r)')
  BY DEF Apt, Early, Late
<1> QED BY <1>1, AnswerFits DEF _deny

LEMMA ReceiveFits ==
    ASSUME TypeOK, SharedInv, InTime, NEW r \in Requests, Shaped(msg[r]), Receive(r)
    PROVE  Fits(r)'
<1> DEFINE m == msg[r]
<1>1. msg' = msg /\ LocalDids \subseteq Dids
  BY SurroundingsAssumption DEF Receive
<1>2. CASE m.form = "none" /\ _deny(r, 401, "token_presence")
  BY <1>1, <1>2, DenyFits DEF Flaw, Early
<1>3. CASE m.form = "malformed" /\ _deny(r, 401, "jwt_decode")
  BY <1>1, <1>3, DenyFits DEF Flaw, Early
<1>4. CASE m.form = "jwt" /\ Resolver!Cached(m.iss) /\ Verify(r, keyCache[m.iss])
  <2>1. m.iss \in Dids /\ keyCache[m.iss] \in KeysOf(m.iss) /\ keyCache[m.iss] \in Keys
    BY <1>4 DEF Resolver!Cached, SharedInv, KeysInv, Resolver!TypeOK
  <2>2. m.iss = "agent1" /\ keyCache[m.iss] = "k1"
    BY <2>1, OnlyAgent1HasAKey
  <2> QED BY <1>1, <1>4, <2>2, VerifyFits
<1>5. CASE /\ m.form = "jwt" /\ Resolver!ReadFile(m.iss)
           /\ IF Resolver!LocalDocument(m.iss) \in Keys
              THEN Verify(r, Resolver!LocalDocument(m.iss))
              ELSE _deny(r, 401, "did_resolution")
  <2> DEFINE doc == Resolver!LocalDocument(m.iss)
  <2>1. m.iss \in Dids /\ doc \in KeysOf(m.iss)
    BY <1>1, <1>5 DEF Resolver!ReadFile, Resolver!FromFile, Resolver!LocalDocument,
                      SharedInv, KeysInv
  <2>2. CASE doc \in Keys
    BY <1>1, <1>5, <2>1, <2>2, OnlyAgent1HasAKey, VerifyFits
  <2>3. CASE doc \notin Keys
    <3>1. m.iss = "hacker"
      BY <2>1, <2>3, IdentityAssumption DEF Shaped
    <3> QED BY <1>1, <1>5, <2>3, <3>1, DenyFits DEF Flaw, Early
  <2> QED BY <2>2, <2>3
<1>6. CASE m.form = "jwt" /\ Resolver!Ask(r, m.iss) /\ Await(r, "resolving", << >>)
  <2>1. m.iss # "agent1"
    <3>1. "agent1" \in LocalDids => published["agent1"] # NoDocument
      BY <1>1, SurroundingsAssumption, IdentityAssumption DEF SharedInv, KeysInv
    <3> QED BY <1>6, <3>1, IdentityAssumption
            DEF Resolver!Ask, Resolver!FromWeb, Resolver!FromFile
  <2> QED BY <1>1, <1>6, <2>1, AwaitFits
<1>7. CASE m.form = "jwt" /\ m.iss \notin Dids /\ _deny(r, 401, "did_resolution")
  <2>1. m.iss = "hacker"
    BY <1>1, <1>7, IdentityAssumption DEF Shaped
  <2> QED BY <1>1, <1>7, <2>1, DenyFits DEF Flaw, Early
<1> QED BY <1>2, <1>3, <1>4, <1>5, <1>6, <1>7 DEF Receive

LEMMA KeyArrivesFits ==
    ASSUME TypeOK, SharedInv, NEW r \in Requests, RequestInv(r), Fits(r),
           Shaped(msg[r]), KeyArrives(r)
    PROVE  Fits(r)'
<1>1. /\ msg' = msg /\ msg[r].iss = "hacker" /\ msg[r].form = "jwt"
  BY DEF KeyArrives, Fits, RequestInv, PlaceInv, Shaped
<1>2. CASE Resolver!Deliver(r)
  <2>1. /\ lookup[r].did = msg[r].iss /\ msg[r].iss \in Dids
        /\ lookup[r].doc \in Keys /\ lookup[r].doc \in KeysOf(msg[r].iss)
    BY <1>2 DEF Resolver!Deliver, SharedInv, KeysInv, LookupInv
  <2> QED BY <1>1, <2>1, OnlyAgent1HasAKey
<1>3. CASE _deny(r, 401, "did_resolution")
  BY <1>1, <1>3, DenyFits DEF Flaw, Early
<1> QED BY <1>2, <1>3 DEF KeyArrives

LEMMA RefuseBodyFits ==
    ASSUME IInv, NEW r \in Requests, RequestInv(r), Shaped(msg[r]), RefuseBody(r)
    PROVE  Fits(r)'
<1> DEFINE m == msg[r]
<1>1. /\ msg' = msg /\ TypeOK /\ Verified(m) /\ m.exp > 0
      /\ m.body = "json" /\ m.asked # NoTool
  BY EvaluationAssumption
     DEF RefuseBody, RequestInv, PlaceInv, IInv, BodyHasExpiry, Shaped, KnownTools
<1>2. /\ m.form = "jwt" /\ m.iss = "agent1" /\ m.key = "k1"
      /\ m.claims = "good" /\ m.exp # 0
  BY <1>1, VerifiedIsAgent1
<1>3. CASE m.tool # m.asked /\ _deny(r, 401, "tool_binding")
  <2>1. Flaw(m) = "tool_binding"
    BY <1>2, <1>3 DEF Flaw
  <2> QED BY <1>1, <1>3, <2>1, DenyFits DEF Early
<1>4. CASE m.tool = m.asked /\ m.jti = NoJti /\ _deny(r, 401, "replay_protection")
  <2>1. Flaw(m) = "replay_protection"
    BY <1>2, <1>4 DEF Flaw
  <2> QED BY <1>1, <1>4, <2>1, DenyFits
<1> QED BY <1>1, <1>3, <1>4 DEF RefuseBody

LEMMA RefuseReplayFits ==
    ASSUME IInv, NEW r \in Requests, RequestInv(r), Shaped(msg[r]), RefuseReplay(r)
    PROVE  Fits(r)'
<1> DEFINE m == msg[r]
<1>1. /\ msg' = msg /\ TypeOK /\ Verified(m) /\ m.exp > 0
      /\ m.tool = m.asked /\ m.jti # NoJti
  BY DEF RefuseReplay, Bound, RequestInv, PlaceInv, IInv, BodyHasExpiry
<1>2. Flaw(m) \in Late \cup {"none"}
  BY <1>1, VerifiedIsAgent1 DEF Flaw, Late
<1>3. Apt(m, 401, "replay_protection", Spent(r)')
  BY <1>2 DEF Apt, Early, Late
<1> QED BY <1>1, <1>3, AnswerFits DEF RefuseReplay, _deny

LEMMA CheckHashFits ==
    ASSUME TypeOK, NEW r \in Requests, Spent(r)', Decision(msg[r]) = "allow", msg' = msg,
           NEW specs, NEW records, CheckHash(r, specs, records)
    PROVE  Fits(r)'
<1>1. ASSUME NEW status \in {401, 403}, NEW rs,
             Answer(r, status, "tool_integrity", rs)
      PROVE  Fits(r)'
  <2>1. Apt(msg[r], status, "tool_integrity", Spent(r)')
    BY DEF Apt, Early, Late
  <2> QED BY <1>1, <2>1, AnswerFits
<1> QED BY <1>1, ForwardFits DEF CheckHash

LEMMA AuthoriseFits ==
    ASSUME TypeOK, NEW r \in Requests, Spent(r)', msg' = msg, Authorise(r)
    PROVE  Fits(r)'
<1>1. CASE Raise(r, << >>)
  BY <1>1, RaiseFits
<1>2. ASSUME NEW status \in {401, 403}, NEW stage, NEW records,
             Answer(r, status, stage, records),
             \/ stage = "policy_enforcement" /\ Decision(msg[r]) = "refuse"
             \/ stage = "tool_integrity" /\ Decision(msg[r]) = "allow"
      PROVE  Fits(r)'
  <2>1. Apt(msg[r], status, stage, Spent(r)')
    BY <1>2 DEF Apt, Early, Late
  <2> QED BY <1>2, <2>1, AnswerFits
<1>3. CASE Decision(msg[r]) = "allow"
           /\ CheckHash(r, Registry!Current, << "POLICY_DECISION" >>)
  BY <1>3, CheckHashFits
<1>4. CASE Await(r, "registry", << "POLICY_DECISION" >>)
  BY <1>4, AwaitFits
<1> QED BY <1>1, <1>2, <1>3, <1>4 DEF Authorise, Decision

LEMMA AdmitFits ==
    ASSUME TypeOK, clock > 0, NEW r \in Requests, Admit(r)
    PROVE  Fits(r)'
<1>1. msg' = msg /\ Spent(r)'
  BY DEF Admit, Spent, TypeOK
<1>2. CASE _deny(r, 429, "rate_limit")
  <2>1. Apt(msg[r], 429, "rate_limit", Spent(r)')
    BY <1>1 DEF Apt, Early, Late
  <2> QED BY <1>1, <1>2, <2>1, AnswerFits DEF _deny
<1>3. CASE Authorise(r)
  BY <1>1, <1>3, AuthoriseFits
<1> QED BY <1>2, <1>3 DEF Admit

LEMMA SpecsArriveFits ==
    ASSUME TypeOK, NEW r \in Requests, RequestInv(r), SpecsArrive(r)
    PROVE  Fits(r)'
<1>1. msg' = msg /\ Spent(r)' /\ Decision(msg[r]) = "allow"
  BY DEF SpecsArrive, RequestInv, PlaceInv, Consented, Spent, Decision
<1>2. Raise(r, << >>) \/ \E specs : CheckHash(r, specs, << >>)
  BY DEF SpecsArrive
<1> QED BY <1>1, <1>2, RaiseFits, CheckHashFits

LEMMA ForwardEndsFits ==
    ASSUME TypeOK, NEW r \in Requests, ForwardEnds(r)
    PROVE  Fits(r)'
<1>1. msg' = msg
  BY DEF ForwardEnds
<1>2. CASE Answer(r, 200, "forwarded", << "REQUEST_FORWARDED" >>)
  BY <1>1, <1>2, AnswerFits DEF Apt, Early, Late
<1>3. CASE Answer(r, 502, "upstream", << >>)
  BY <1>1, <1>3, AnswerFits DEF Apt, Early, Late
<1>4. CASE Raise(r, << >>)
  BY <1>1, <1>4, RaiseFits
<1> QED BY <1>2, <1>3, <1>4 DEF ForwardEnds

LEMMA HandlerFits ==
    ASSUME EInv, NEW r \in Requests, msg[r] # Unsent, Fits(r), Handler(r)
    PROVE  Fits(r)'
<1>1. /\ IInv /\ TypeOK /\ SharedInv /\ RequestInv(r) /\ InTime /\ clock > 0
      /\ dztMode # "baseline" /\ Shaped(msg[r])
  BY EvaluationAssumption DEF EInv, IInv, MInv, TypeOK, SendInv, SentAs
<1> QED BY <1>1, ReceiveFits, KeyArrivesFits, RefuseBodyFits, RefuseReplayFits, AdmitFits,
           SpecsArriveFits, ForwardEndsFits DEF Handler, PassThrough

\* While one handler goes on, what the other requests spent stays.
LEMMA SpentStays ==
    ASSUME TypeOK, NEW r \in Requests, NEW i \in Requests \ {r}, Handler(r)
    PROVE  spentAt'[i] = spentAt[i]
  BY DEF TypeOK, Handler, PassThrough, Receive, KeyArrives, RefuseBody, RefuseReplay,
         Admit, SpecsArrive, ForwardEnds

\* A request that has its answer keeps it, and what it tells of the message.
LEMMA CourseKeeps ==
    ASSUME EInv, CourseInv, [EvaluationNext]_evaluationVars
    PROVE  /\ CourseInv'
           /\ \A i \in Requests :
                  /\ pc[i] = "answered" =>
                         pc'[i] = "answered" /\ outcome'[i] = outcome[i]
                  /\ pc[i] = "lost" => pc'[i] = "lost"
<1>1. /\ IInv /\ MInv /\ TypeOK /\ program \in DOMAIN Programs /\ step \in Nat
  BY DEF EInv, IInv, EvaluationTypeOK
<1> SUFFICES ASSUME NEW i \in Requests
             PROVE  /\ Fits(i)'
                    /\ pc[i] = "answered" =>
                           pc'[i] = "answered" /\ outcome'[i] = outcome[i]
                    /\ pc[i] = "lost" => pc'[i] = "lost"
  BY DEF CourseInv
<1>2. Fits(i)
  BY DEF CourseInv
<1>3. ASSUME NEW r \in WithProxy, Handler(r)
      PROVE  /\ Fits(i)'
             /\ pc[i] = "answered" => pc'[i] = "answered" /\ outcome'[i] = outcome[i]
             /\ pc[i] = "lost" => pc'[i] = "lost"
  <2>1. r \in Requests /\ msg[r] # Unsent /\ pc[r] \notin {"answered", "lost"}
    BY DEF WithProxy
  <2>2. CASE i = r
    BY <1>2, <1>3, <2>1, <2>2, HandlerFits
  <2>3. CASE i # r
    <3>1. /\ pc'[i] = pc[i] /\ outcome'[i] = outcome[i] /\ msg' = msg
          /\ spentAt'[i] = spentAt[i]
      BY <1>1, <1>3, <2>1, <2>3, HandlerIsLocal, SpentStays DEF OthersStay
    <3> QED BY <1>2, <3>1 DEF Fits, Spent
  <2> QED BY <2>2, <2>3
<1>4. CASE Crash
  BY <1>2, <1>4 DEF Crash, Fits, Spent
<1>5. CASE Send
  <2>1. /\ step \in Requests /\ pc[step] = "idle" /\ UNCHANGED requestVars
        /\ msg' = [msg EXCEPT ![step] = Minted(Call(step))]
    BY <1>5, SendReadies DEF Unbegun
  <2>2. pc[i] # "idle" => msg'[i] = msg[i]
    BY <1>1, <2>1 DEF TypeOK
  <2> QED BY <1>2, <2>1, <2>2 DEF Fits, Spent, requestVars
<1>6. CASE \/ Publish \/ Tick \/ UNCHANGED vars
           \/ \E r \in Requests : Serve(r) \/ Probing(r)
  <2>1. UNCHANGED << msg, requestVars >>
    BY <1>6 DEF Publish, Tick, vars, Serve, Probing
  <2> QED BY <1>2, <2>1 DEF Fits, Spent, requestVars
<1> QED BY <1>1, <1>3, <1>4, <1>5, <1>6, StepsOfProxy
-------------------------------------------------------------------------------
\* An answer of the proxy: a good request is not taken for a replay.
OfProxy(status, call, i) ==
    /\ pc[i] = "answered" /\ status = outcome[i].status
    /\ call.expect = "allowed" => outcome[i].stage # "replay_protection"

\* A verdict with a status is about an answer to its call, of the proxy or of the
\* server; an error status is reported as blocked, and so is an exception.
OnAnswer(verdict, call, i) ==
    /\ verdict.status = 0 => verdict.blocked
    /\ verdict.status # 0 =>
        /\ verdict.status >= 400 => verdict.blocked
        /\ call.to = "proxy" => OfProxy(verdict.status, call, i)

\* The verdicts are about the calls so far.
VerdictOn(k) == OnAnswer(verdicts[k], Calls[k], StepOf(k))

VerdictInv ==
    /\ Len(verdicts) = (IF step > Len(Probes) THEN step - Len(Probes) - 1 ELSE 0)
    /\ Len(verdicts) <= Len(Calls)
    /\ \A k \in 1 .. Len(verdicts) : VerdictOn(k)

\* The call in hand has no answer of the proxy, since the proxy or the client failed.
HasFailed == Call(step).to = "proxy" => pc[step] = "lost" \/ failures' = failures + 1

\* What a call is given as its verdict.
Verdict(verdict) ==
    /\ IsCall(step) /\ step' = step + 1 /\ verdicts' = Append(verdicts, verdict)
    /\ OnAnswer(verdict, Call(step), step)
    /\ verdict.status = 0 => HasFailed

ProbeGoesOn ==
    /\ step = 0 \/ IsProbe(step)
    /\ step' = step + 1 /\ verdicts' = verdicts

LEMMA ExceptIsVerdict ==
    ASSUME IsCall(step), Except, HasFailed
    PROVE  UNCHANGED << step, verdicts >> \/ \E verdict : Verdict(verdict)
<1> DEFINE verdict == [status |-> 0, blocked |-> TRUE]
<1>1. CASE NextStep /\ verdicts' = Append(verdicts, verdict)
  <2>1. verdict.status = 0 /\ verdict.blocked
    BY Zenon
  <2> HIDE DEF verdict
  <2>2. Verdict(verdict)
    BY <1>1, <2>1 DEF Verdict, OnAnswer, NextStep
  <2> QED BY <2>2
<1>2. CASE Raises /\ UNCHANGED verdicts
  BY <1>2 DEF Raises
<1> QED BY <1>1, <1>2 DEF Except

LEMMA RecordIsVerdict ==
    ASSUME IsCall(step), NEW status, NEW error, Record(status, error), status # 0,
           Call(step).to = "proxy" => OfProxy(status, Call(step), step)
    PROVE  \E verdict : Verdict(verdict)
<1> DEFINE verdict == [status |-> status, blocked |-> status >= 400 \/ error]
<1>1. verdict.status = status /\ (status >= 400 => verdict.blocked)
  BY Zenon
<1>2. verdicts' = Append(verdicts, verdict) /\ step' = step + 1
  BY DEF Record, NextStep
<1> HIDE DEF verdict
<1>3. Verdict(verdict)
  BY <1>1, <1>2 DEF Verdict, OnAnswer
<1> QED BY <1>3

\* While the program waits for the answer to a good request, nobody else has sent
\* its jti: it is that of a later call, if of any.
LEMMA NoReplayInHand ==
    ASSUME EInv, step \in Requests, IsCall(step), Call(step).to = "proxy",
           Call(step).expect = "allowed", pc[step] = "answered"
    PROVE  outcome[step].stage # "replay_protection"
<1> DEFINE m == msg[step]
           c == Call(step)
<1>1. /\ MInv /\ SendInv /\ program \in DOMAIN Programs
      /\ step \in Int /\ c \in SoundCalls
  BY StepsHaveRequests DEF EInv, EvaluationTypeOK
<1>2. c.reuse = 0 /\ c.message \in GoodMessages
  BY <1>1 DEF SoundCalls
<1>3. SentAs(step)
  BY <1>1 DEF SendInv, Unbegun
<1>4. c.message.jti = Fresh
  BY <1>2 DEF GoodMessages, Suite!Token
<1>5. m.jti = step /\ m.jti # NoJti
  BY <1>2, <1>3, <1>4, FreshIsAJti DEF SentAs, Reminted, Origin
<1>6. ASSUME NEW q \in Requests \ {step}, Spent(q), msg[q].jti = m.jti PROVE FALSE
  <2>1. SentAs(q) /\ q \in Int
    BY <1>6, SpentIsBound, RequestsAreNumbers
  <2>2. step <= q
    BY <1>5, <1>6, <2>1 DEF SentAs
  <2>3. msg[q] = Unsent
    BY <1>1, <1>6, <2>1, <2>2 DEF SendInv, IsAhead
  <2>4. Unbegun(q)
    BY <1>1, <1>6, <2>3 DEF SendInv
  <2> QED BY <1>1, <1>6, <2>4 DEF MInv, RequestInv, PlaceInv, Untried, Unbegun
<1> QED BY <1>1, <1>5, <1>6 DEF MInv, OnlyGenuineTokensCost, ReplayIsReal

LEMMA VerdictsGrow ==
    ASSUME EInv, CourseInv, [EvaluationNext]_evaluationVars
    PROVE  \/ UNCHANGED << step, verdicts >>
           \/ ProbeGoesOn
           \/ \E verdict : Verdict(verdict)
<1>1. ASSUME NEW hash, ProbeEnds(hash), verdicts' = verdicts, IsProbe(step)
      PROVE  UNCHANGED << step, verdicts >> \/ ProbeGoesOn
  BY <1>1 DEF ProbeEnds, Raises, Abort, NextStep, ProbeGoesOn
<1>2. CASE Check
  BY <1>2 DEF Check, NextStep, Abort, ProbeGoesOn
<1>3. CASE Probe \/ ProbeOwn
  BY <1>1, <1>3 DEF Probe, ProbeOwn
<1>4. CASE Judge
  <2>1. /\ IsCall(step) /\ pc[step] = "answered"
        /\ \E error : Record(outcome[step].status, error)
    BY <1>4 DEF Judge
  <2>2. step \in Requests
    BY <2>1, StepsHaveRequests DEF EInv, EvaluationTypeOK
  <2>3. Call(step).to = "proxy"
    BY <2>1, <2>2 DEF EInv, SendInv, Unbegun, SentAs
  <2>4. OfProxy(outcome[step].status, Call(step), step)
    BY <2>1, <2>2, <2>3, NoReplayInHand DEF OfProxy
  <2>5. outcome[step].status # 0
    BY <2>1, <2>2 DEF CourseInv, Fits, Apt
  <2> QED BY <2>1, <2>3, <2>4, <2>5, RecordIsVerdict
<1>5. CASE CallDirect
  <2>1. IsCall(step) /\ Call(step).to # "proxy"
    BY <1>5 DEF CallDirect, Ready
  <2>2. CASE Except
    BY <2>1, <2>2, ExceptIsVerdict DEF HasFailed
  <2>3. ASSUME NEW status \in Nat \ {0}, NEW error, Record(status, error)
        PROVE  \E verdict : Verdict(verdict)
    BY <2>1, <2>3, RecordIsVerdict
  <2>4. Except \/ \E status \in Nat \ {0}, error \in BOOLEAN : Record(status, error)
    BY <1>5, DirectIsAnswered
  <2> QED BY <2>2, <2>3, <2>4
<1>6. CASE GiveUp
  <2>1. CASE IsProbe(step)
    <3>1. ~ IsCall(step)
      BY <2>1, StepsHaveRequests DEF EInv, EvaluationTypeOK, IsProbe, IsCall
    <3> QED BY <1>1, <1>6, <2>1, <3>1 DEF GiveUp
  <2>2. CASE ~ IsProbe(step)
    <3>1. /\ IsCall(step) /\ Except
          /\ pc[step] = "lost" \/ failures' = failures + 1
      BY <1>6, <2>2 DEF GiveUp, Fails
    <3> QED BY <3>1, ExceptIsVerdict DEF HasFailed
  <2> QED BY <2>1, <2>2
<1>7. CASE Send \/ Finish
  BY <1>7 DEF Send, Finish
<1>8. CASE Proxying
  <2>1. ASSUME NEW i, IsProbe(i), ProbeAnswered(i)
        PROVE  UNCHANGED << step, verdicts >> \/ ProbeGoesOn
    <3>1. verdicts' = verdicts
      BY <2>1 DEF ProbeAnswered
    <3>2. \/ UNCHANGED << step, sent, ended, hashes >>
          \/ i = step /\ \E hash : ProbeEnds(hash)
      BY <2>1, Zenon DEF ProbeAnswered
    <3> QED BY <1>1, <2>1, <3>1, <3>2
  <2> QED BY <1>8, <2>1 DEF Proxying, clientVars
<1>9. CASE UpstreamAnswers \/ World \/ UNCHANGED evaluationVars
  BY <1>9 DEF UpstreamAnswers, World, Dies, Outage, clientVars, evaluationVars
<1> QED BY <1>2, <1>3, <1>4, <1>5, <1>6, <1>7, <1>8, <1>9 DEF EvaluationNext, Client

LEMMA VerdictKeeps ==
    ASSUME EInv, CourseInv, VerdictInv, [EvaluationNext]_evaluationVars
    PROVE  VerdictInv'
<1>1. /\ program \in DOMAIN Programs /\ step \in Nat
      /\ verdicts \in Seq([status : Nat, blocked : BOOLEAN])
  BY DEF EInv, EvaluationTypeOK
<1>2. program' = program
  BY ClientGoesOn
<1>3. Probes' = Probes /\ Calls' = Calls /\ \A k : StepOf(k)' = StepOf(k)
  BY <1>2 DEF Probes, Calls, StepOf
<1>4. /\ Len(Probes) \in Nat /\ Len(Calls) \in Nat /\ Len(verdicts) \in Nat
      /\ \A k \in 1 .. Len(Calls) : StepOf(k) \in Requests
  BY <1>1, StepsHaveRequests
<1>5. \A i \in Requests : pc[i] = "answered" =>
          pc'[i] = "answered" /\ outcome'[i] = outcome[i]
  BY CourseKeeps
<1>6. ASSUME NEW k \in 1 .. Len(verdicts), verdicts'[k] = verdicts[k]
      PROVE  VerdictOn(k)'
  <2>1. StepOf(k) \in Requests /\ VerdictOn(k)
    BY <1>4 DEF VerdictInv
  <2> QED BY <1>3, <1>5, <1>6, <2>1 DEF VerdictOn, OnAnswer, OfProxy
<1>7. CASE UNCHANGED << step, verdicts >>
  BY <1>2, <1>3, <1>6, <1>7 DEF VerdictInv
<1>8. CASE ProbeGoesOn
  <2>1. Len(verdicts) = 0 /\ Len(verdicts') = 0
    BY <1>1, <1>4, <1>8 DEF ProbeGoesOn, IsProbe, VerdictInv
  <2>2. ~ (step' > Len(Probes)) \/ step' = Len(Probes) + 1
    BY <1>1, <1>4, <1>8 DEF ProbeGoesOn, IsProbe
  <2> QED BY <1>1, <1>3, <1>4, <2>1, <2>2 DEF VerdictInv
<1>9. ASSUME NEW verdict, Verdict(verdict) PROVE VerdictInv'
  <2>1. PICK n \in Nat : n = Len(verdicts) + 1
    BY <1>4
  <2>2. /\ step - Len(Probes) \in 1 .. Len(Calls) /\ step' = step + 1
        /\ verdicts' = Append(verdicts, verdict)
    BY <1>9 DEF Verdict, IsCall
  <2>3. n = step - Len(Probes) /\ n \in 1 .. Len(Calls) /\ StepOf(n) = step
    BY <1>1, <1>4, <2>1, <2>2 DEF VerdictInv, StepOf
  <2>4. /\ Len(verdicts') = n /\ verdicts'[n] = verdict
        /\ \A k \in 1 .. Len(verdicts) : verdicts'[k] = verdicts[k]
    BY <1>1, <2>1, <2>2
  <2>5. VerdictOn(n)'
    <3>1. Calls[n] = Call(step) /\ step \in Requests
      BY <1>4, <2>3 DEF Call
    <3> QED BY <1>3, <1>5, <1>9, <2>3, <2>4, <3>1 DEF Verdict, VerdictOn,
            OnAnswer, OfProxy
  <2>6. \A k \in 1 .. n : VerdictOn(k)'
    <3>1. \A k \in 1 .. n : k = n \/ k \in 1 .. Len(verdicts)
      BY <1>4, <2>1
    <3> QED BY <1>6, <2>4, <2>5, <3>1
  <2> QED BY <1>1, <1>3, <1>4, <2>2, <2>3, <2>4, <2>6 DEF VerdictInv
<1> QED BY <1>7, <1>8, <1>9, VerdictsGrow

DInv == EInv /\ CourseInv /\ VerdictInv

LEMMA DefencesHold == EvaluationSpec => []DInv
<1>1. EvaluationInit => CourseInv /\ VerdictInv
  <2> SUFFICES ASSUME EvaluationInit PROVE CourseInv /\ VerdictInv
    OBVIOUS
  <2>1. EInv
    BY EvaluationStarts
  <2>2. Len(Probes) \in Nat /\ Len(Calls) \in Nat
    BY <2>1, StepsHaveRequests DEF EInv, EvaluationTypeOK
  <2>3. CourseInv
    BY DEF EvaluationInit, Start, CourseInv, Fits
  <2>4. VerdictInv
    BY <2>2 DEF EvaluationInit, VerdictInv
  <2> QED BY <2>3, <2>4
<1>2. DInv /\ [EvaluationNext]_evaluationVars => DInv'
  BY EvaluationKeeps, CourseKeeps, VerdictKeeps DEF DInv
<1> QED BY <1>1, <1>2, EvaluationStarts, PTL DEF EvaluationSpec, DInv
-------------------------------------------------------------------------------
\* The upstream server publishes the same tools as long as a program runs: those of
\* the baseline server are constants, and a program is over in seconds.
OneCatalogue == \A c, d \in Catalogues : c = d

\* The specifications by which the proxy judges a hash.
Expected ==
    IF UpstreamMode = "local" THEN catalogue
    ELSE IF HasPat THEN Registry!Merged(catalogue) ELSE LocalToolSpecs

\* What a program was told about a tool is the hash that the proxy expects, or that
\* of LOCAL_TOOL_SPECS, by which a registry answers that has not learnt GitHub's.
Told(tool, hash) ==
    \/ hash = Suite!ZeroHash
    \/ /\ hash # NoHash
       /\ hash = Expected[tool] \/ (UpstreamMode # "local" /\ hash = LocalToolSpecs[tool])

\* A good request has the hash that the program was told.
SentHash(i) ==
    msg[i] # Unsent /\ Call(i).reuse = 0 /\ Call(i).message.hash = Suite!Probed =>
        msg[i].hash = hashes[Call(i).message.tool]

\* A hash is refused only if it is not the expected one, as long as the proxy has
\* not failed to learn GitHub's tools.
HashRefusal(r) ==
    ~ forgotten /\ pc[r] = "answered" /\ outcome[r].stage = "tool_integrity" =>
        Expected[msg[r].asked] = NoHash \/ Expected[msg[r].asked] # msg[r].hash

HashInv ==
    /\ FetchesAreMeant
    /\ ~ forgotten => cacheRemote # Registry!NoTools
    /\ \A tool \in Tools : Told(tool, hashes[tool])
    /\ \A r \in Requests : SentHash(r) /\ HashRefusal(r)

LEMMA CatalogueStays ==
    ASSUME OneCatalogue, SharedInv, SharedInv'
    PROVE  /\ \A cat \in Catalogues : cat = catalogue
           /\ catalogue' = catalogue /\ Expected' = Expected
<1>1. catalogue \in Catalogues /\ catalogue' \in Catalogues
  BY DEF SharedInv, Registry!TypeOK
<1>2. catalogue' = catalogue
  BY <1>1 DEF OneCatalogue
<1> QED BY <1>1, <1>2 DEF OneCatalogue, Expected, Registry!Merged, UpstreamMode

\* What the registry answers with, unless it failed to learn GitHub's tools.
LEMMA SpecsAreExpected ==
    ASSUME OneCatalogue, SharedInv, FetchesAreMeant, NEW specs,
           \/ /\ specs = Registry!Current /\ Registry!Ready
              /\ cacheRemote # Registry!NoTools
           \/ \E r \in Requests : specs = Registry!Fetched(r) /\ Registry!Deliver(r)
    PROVE  specs = Expected
<1>1. UpstreamMode \in {"local", "github"} /\ catalogue \in Catalogues
  BY DEF UpstreamMode, SharedInv, Registry!TypeOK
<1>2. \A cat \in Catalogues : cat = catalogue
  BY <1>1 DEF OneCatalogue
<1>3. CASE /\ specs = Registry!Current /\ Registry!Ready
           /\ cacheRemote # Registry!NoTools
  <2>1. /\ cacheLocal \in Catalogues \cup {NoSpecs}
        /\ cacheRemote \in Catalogues \cup {NoSpecs, Registry!NoTools}
    BY DEF SharedInv, Registry!TypeOK
  <2>2. /\ UpstreamMode = "local" => cacheLocal = catalogue
        /\ UpstreamMode = "github" /\ HasPat => cacheRemote = catalogue
    BY <1>2, <1>3, <2>1 DEF Registry!Ready
  <2> QED BY <1>1, <1>3, <2>2 DEF Registry!Current, Expected
<1>4. ASSUME NEW r \in Requests, specs = Registry!Fetched(r), Registry!Deliver(r)
      PROVE  specs = Expected
  <2>1. fetch[r].specs = catalogue /\ (UpstreamMode = "local" \/ HasPat)
    BY <1>2, <1>4 DEF Registry!Deliver, SharedInv, SpecsInv, FetchesAreMeant
  <2> QED BY <1>1, <1>4, <2>1 DEF Registry!Fetched, Expected
<1> QED BY <1>3, <1>4

\* What a program may be told.
LEMMA HashesAreTold ==
    ASSUME OneCatalogue, SharedInv, FetchesAreMeant, NEW tool \in Tools, NEW specs,
           \/ specs = Registry!Current /\ Registry!Ready
           \/ \E r \in Requests : specs = Registry!Fetched(r) /\ Registry!Deliver(r)
           \/ specs = LocalToolSpecs /\ UpstreamMode = "github",
           specs[tool] # NoHash
    PROVE  Told(tool, specs[tool])
<1>1. UpstreamMode \in {"local", "github"}
  BY DEF UpstreamMode
<1>2. CASE \/ /\ specs = Registry!Current /\ Registry!Ready
              /\ cacheRemote # Registry!NoTools
           \/ \E r \in Requests : specs = Registry!Fetched(r) /\ Registry!Deliver(r)
  BY <1>2, SpecsAreExpected DEF Told
<1>3. CASE /\ specs = Registry!Current /\ Registry!Ready
           /\ cacheRemote = Registry!NoTools
  <2>1. CASE UpstreamMode = "local"
    <3>1. cacheLocal \in Catalogues
      BY <1>3, <2>1 DEF Registry!Ready, SharedInv, Registry!TypeOK
    <3>2. cacheLocal = catalogue
      BY <3>1 DEF OneCatalogue, SharedInv, Registry!TypeOK
    <3> QED BY <1>3, <2>1, <3>2 DEF Registry!Current, Expected, Told
  <2>2. CASE UpstreamMode = "github"
    <3>1. specs[tool] = LocalToolSpecs[tool]
      BY <1>3, <2>2 DEF Registry!Current, Registry!Merged, Registry!NoTools
    <3> QED BY <2>2, <3>1 DEF Told
  <2> QED BY <1>1, <2>1, <2>2
<1>4. CASE specs = LocalToolSpecs /\ UpstreamMode = "github"
  BY <1>4 DEF Told
<1> QED BY <1>2, <1>3, <1>4

\* A step changes what the program knows of the tools only if a probe has ended.
LEMMA ProbesTell ==
    ASSUME OneCatalogue, EInv, HashInv, [EvaluationNext]_evaluationVars
    PROVE  \/ hashes' = hashes
           \/ /\ IsProbe(step)
              /\ \E hash : ProbeEnds(hash) /\ (hash # NoHash => Told(Probes[step], hash))
<1> DEFINE tool == Probes[step]
           Goal ==
               \/ hashes' = hashes
               \/ /\ IsProbe(step)
                  /\ \E hash : ProbeEnds(hash) /\ (hash # NoHash => Told(tool, hash))
<1>1. /\ SharedInv /\ FetchesAreMeant /\ program \in DOMAIN Programs /\ step \in Nat
      /\ UpstreamMode \in {"local", "github"}
  BY DEF EInv, MInv, EvaluationTypeOK, HashInv, UpstreamMode
<1>2. ASSUME NEW specs, IsProbe(step),
             \/ specs = Registry!Current /\ Registry!Ready
             \/ \E r \in Requests : specs = Registry!Fetched(r) /\ Registry!Deliver(r)
             \/ specs = LocalToolSpecs /\ UpstreamMode = "github",
             specs[tool] # NoHash
      PROVE  Told(tool, specs[tool])
  <2>1. tool \in Tools
    BY <1>1, <1>2, ProbedIsPublished
  <2> QED BY <1>1, <1>2, <2>1, HashesAreTold
<1>3. ASSUME NEW hash, IsProbe(step), ProbeEnds(hash), hash # NoHash => Told(tool, hash)
      PROVE  Goal
  BY <1>3
<1>4. ASSUME hashes' = hashes PROVE Goal
  BY <1>4
<1> SUFFICES Goal
  OBVIOUS
<1> HIDE DEF Goal
<1>5. CASE Probe
  <2>1. IsProbe(step)
    BY <1>5 DEF Probe
  <2>2. CASE Registry!Ready /\ ProbeEnds(Registry!Current[tool])
    <3>1. Registry!Current[tool] # NoHash => Told(tool, Registry!Current[tool])
      BY <1>2, <2>1, <2>2
    <3> QED BY <1>3, <2>1, <2>2, <3>1
  <2> QED BY <1>4, <1>5, <2>2 DEF Probe
<1>6. CASE ProbeOwn
  <2>1. IsProbe(step)
    BY <1>6 DEF ProbeOwn
  <2>2. /\ UpstreamMode = "local" => (catalogue[tool] # NoHash =>
                                         Told(tool, catalogue[tool]))
        /\ UpstreamMode = "github" => (LocalToolSpecs[tool] # NoHash =>
                                          Told(tool, LocalToolSpecs[tool]))
        /\ UpstreamMode = "github" /\ HasPat =>
               (Registry!Merged(catalogue)[tool] # NoHash =>
                   Told(tool, Registry!Merged(catalogue)[tool]))
    BY DEF Told, Expected
  <2>3. \E hash : ProbeEnds(hash) /\ (hash # NoHash => Told(tool, hash))
    BY <1>6, <2>2 DEF ProbeOwn
  <2> QED BY <1>3, <2>1, <2>3
<1>7. CASE GiveUp
  BY <1>3, <1>4, <1>7 DEF GiveUp
<1>8. CASE Proxying
  <2>1. ASSUME NEW i \in Requests, IsProbe(i), ProbeAnswered(i) PROVE Goal
    <3>1. CASE hashes' = hashes
      BY <1>4, <3>1
    <3>2. CASE i = step /\ Registry!Deliver(i) /\ ProbeEnds(Registry!Fetched(i)[tool])
      <4>1. Registry!Fetched(i)[tool] # NoHash => Told(tool, Registry!Fetched(i)[tool])
        BY <1>2, <2>1, <3>2
      <4> QED BY <1>3, <2>1, <3>2, <4>1
    <3>3. CASE i = step /\ ProbeEnds(IF UpstreamMode = "local" THEN NoHash
                                     ELSE LocalToolSpecs[tool])
      <4>1. UpstreamMode = "github" =>
                (LocalToolSpecs[tool] # NoHash => Told(tool, LocalToolSpecs[tool]))
        BY <1>2, <2>1, <3>3
      <4> QED BY <1>1, <1>3, <2>1, <3>3, <4>1
    <3> QED BY <2>1, <3>1, <3>2, <3>3 DEF ProbeAnswered
  <2> QED BY <1>4, <1>8, <2>1 DEF Proxying, clientVars
<1>9. CASE \/ Check \/ Send \/ Judge \/ CallDirect \/ Finish \/ UpstreamAnswers
           \/ World \/ UNCHANGED evaluationVars
  BY <1>4, <1>9 DEF Check, Send, Judge, CallDirect, Finish, UpstreamAnswers, World,
                    Dies, Outage, clientVars, evaluationVars
<1> QED BY <1>5, <1>6, <1>7, <1>8, <1>9 DEF EvaluationNext, Client

LEMMA ToldKeeps ==
    ASSUME OneCatalogue, EInv, HashInv, SharedInv', [EvaluationNext]_evaluationVars,
           NEW tool \in Tools
    PROVE  Told(tool, hashes[tool])'
<1>1. /\ Expected' = Expected /\ Told(tool, hashes[tool])
      /\ hashes \in [Tools -> Hashes]
  BY CatalogueStays DEF EInv, MInv, HashInv, EvaluationTypeOK
<1>2. ASSUME NEW hash, ProbeEnds(hash), hash # NoHash => Told(Probes[step], hash)
      PROVE  Told(tool, hashes'[tool])
  <2>1. Told(tool, Suite!ZeroHash)
    BY DEF Told
  <2> QED BY <1>1, <1>2, <2>1 DEF ProbeEnds
<1>3. Told(tool, hashes'[tool])
  BY <1>1, <1>2, ProbesTell
<1> QED BY <1>1, <1>3 DEF Told, UpstreamMode

LEMMA SentHashKeeps ==
    ASSUME OneCatalogue, EInv, HashInv, [EvaluationNext]_evaluationVars,
           NEW i \in Requests
    PROVE  SentHash(i)'
<1>1. /\ program \in DOMAIN Programs /\ step \in Nat /\ msg \in [Requests -> Messages]
      /\ SendInv /\ SentHash(i) /\ i \in Nat /\ program' = program
  BY ClientGoesOn, RequestsAreNumbers DEF EInv, EvaluationTypeOK, IInv, TypeOK, HashInv
<1>2. Call(i)' = Call(i)
  BY <1>1 DEF Call, Calls, Probes
<1>3. CASE Send
  <2>1. /\ msg' = [msg EXCEPT ![step] = Minted(Call(step))] /\ step \in Requests
        /\ hashes' = hashes /\ IsCall(step) /\ Call(step).to = "proxy"
    BY <1>3, MintedIsMessage DEF Send, Ready
  <2>2. CASE i # step
    BY <1>1, <1>2, <2>1, <2>2 DEF SentHash
  <2>3. CASE i = step
    <3> DEFINE c == Call(step)
               m == c.message
    <3>1. ASSUME c.reuse = 0, m.hash = Suite!Probed
          PROVE  Minted(c).hash = hashes[m.tool]
      <4>1. m \in MessageShape
        BY <1>1, <2>1, <3>1, StepsHaveRequests DEF SoundCalls
      <4> QED BY <3>1, <4>1 DEF Minted, Filled, MessageShape
    <3>2. msg'[i] = Minted(c)
      BY <1>1, <2>1, <2>3
    <3> QED BY <1>2, <2>1, <2>3, <3>1, <3>2 DEF SentHash
  <2> QED BY <2>2, <2>3
<1>4. CASE msg' = msg /\ hashes' = hashes
  BY <1>1, <1>2, <1>4 DEF SentHash
<1>5. CASE msg' = msg /\ IsProbe(step)
  <2>1. ASSUME msg[i] # Unsent PROVE FALSE
    <3>1. IsCall(i) /\ ~ IsAhead(i)
      BY <1>1, <2>1 DEF SendInv, SentAs
    <3> QED BY <1>1, <1>5, <3>1, StepsHaveRequests DEF IsCall, IsProbe, IsAhead
  <2> QED BY <1>1, <1>2, <1>5, <2>1 DEF SentHash
<1> QED BY <1>3, <1>4, <1>5, ProbesTell, MessagesStay

\* One stretch of a handler after the other: who refuses a hash.
LEMMA OtherAnswerRefuses ==
    ASSUME TypeOK, NEW r \in Requests, NEW status, NEW stage, NEW records,
           Answer(r, status, stage, records), stage # "tool_integrity"
    PROVE  HashRefusal(r)'
<1>1. outcome'[r].stage = stage
  BY AnswerEffect
<1> QED BY <1>1 DEF HashRefusal

LEMMA AwaitRefuses ==
    ASSUME TypeOK, NEW r \in Requests, NEW place, NEW records,
           Await(r, place, records), place # "answered"
    PROVE  HashRefusal(r)'
<1>1. pc'[r] = place
  BY AwaitEffect
<1> QED BY <1>1 DEF HashRefusal

LEMMA CheckHashRefuses ==
    ASSUME TypeOK, NEW r \in Requests, NEW specs, NEW records,
           CheckHash(r, specs, records), msg' = msg, forgotten' \/ specs = Expected'
    PROVE  HashRefusal(r)'
<1>1. CASE forgotten'
  BY <1>1 DEF HashRefusal
<1>2. CASE specs = Expected' /\ specs[msg[r].asked] \in {NoHash}
  BY <1>2 DEF HashRefusal
<1>3. CASE specs = Expected' /\ specs[msg[r].asked] # msg[r].hash
  BY <1>3 DEF HashRefusal
<1>4. CASE Forward(r, records \o << "VERIFICATION_PASSED" >>)
  BY <1>4, OtherAnswerRefuses, AwaitRefuses DEF Forward
<1> QED BY <1>1, <1>2, <1>3, <1>4 DEF CheckHash

LEMMA AuthoriseRefuses ==
    ASSUME TypeOK, NEW r \in Requests, Authorise(r), msg' = msg,
           Registry!Ready => forgotten' \/ Registry!Current = Expected'
    PROVE  HashRefusal(r)'
<1>1. CASE Raise(r, << >>)
  BY <1>1, OtherAnswerRefuses DEF Raise
<1>2. CASE Answer(r, 403, "policy_enforcement",
                  << "POLICY_DECISION", "VERIFICATION_FAILED" >>)
  BY <1>2, OtherAnswerRefuses
<1>3. CASE msg[r].hash = NoHash
  BY <1>3 DEF HashRefusal
<1>4. CASE Registry!Ready /\ CheckHash(r, Registry!Current, << "POLICY_DECISION" >>)
  BY <1>4, CheckHashRefuses
<1>5. CASE Await(r, "registry", << "POLICY_DECISION" >>)
  BY <1>5, AwaitRefuses
<1> QED BY <1>1, <1>2, <1>3, <1>4, <1>5 DEF Authorise

LEMMA VerifyRefuses ==
    ASSUME TypeOK, NEW r \in Requests, NEW key, Verify(r, key)
    PROVE  HashRefusal(r)'
<1>1. Stage(msg[r], key) # "tool_integrity"
  BY DEF Stage
<1> QED BY <1>1, OtherAnswerRefuses, AwaitRefuses DEF Verify, _deny

LEMMA HandlerRefuses ==
    ASSUME TypeOK, dztMode # "baseline", NEW r \in Requests, Handler(r), msg' = msg,
           Registry!Ready /\ UNCHANGED registryVars =>
               forgotten' \/ Registry!Current = Expected',
           Registry!Deliver(r) => Registry!Fetched(r) = Expected',
           UpstreamMode = "github" /\ Registry!Fail(r) => forgotten'
    PROVE  HashRefusal(r)'
<1>1. ASSUME NEW status, NEW stage, _deny(r, status, stage), stage # "tool_integrity"
      PROVE  HashRefusal(r)'
  BY <1>1, OtherAnswerRefuses DEF _deny
<1>2. ASSUME Raise(r, << >>) PROVE HashRefusal(r)'
  BY <1>2, OtherAnswerRefuses DEF Raise
<1>3. CASE Receive(r)
  <2>1. \/ \E stage \in {"token_presence", "jwt_decode", "did_resolution"} :
               _deny(r, 401, stage)
        \/ \E key : Verify(r, key)
        \/ Await(r, "resolving", << >>)
    BY <1>3 DEF Receive
  <2> QED BY <1>1, <2>1, VerifyRefuses, AwaitRefuses
<1>4. CASE KeyArrives(r)
  <2>1. _deny(r, 401, "did_resolution") \/ \E key : Verify(r, key)
    BY <1>4 DEF KeyArrives
  <2> QED BY <1>1, <2>1, VerifyRefuses
<1>5. CASE RefuseBody(r)
  BY <1>1, <1>2, <1>5 DEF RefuseBody
<1>6. CASE RefuseReplay(r)
  BY <1>1, <1>6 DEF RefuseReplay
<1>7. CASE Admit(r)
  <2>1. CASE _deny(r, 429, "rate_limit")
    BY <1>1, <2>1
  <2>2. CASE Authorise(r)
    <3>1. CASE UNCHANGED registryVars
      BY <2>2, <3>1, AuthoriseRefuses
    <3>2. CASE Await(r, "registry", << "POLICY_DECISION" >>)
      BY <3>2, AwaitRefuses
    <3> QED BY <2>2, <3>1, <3>2 DEF Authorise
  <2> QED BY <1>7, <2>1, <2>2 DEF Admit
<1>8. CASE SpecsArrive(r)
  <2>1. CASE Registry!Deliver(r) /\ CheckHash(r, Registry!Fetched(r), << >>)
    BY <2>1, CheckHashRefuses
  <2>2. CASE /\ Registry!Fail(r) /\ UpstreamMode = "github"
             /\ CheckHash(r, LocalToolSpecs, << >>)
    BY <2>2, CheckHashRefuses
  <2> QED BY <1>2, <1>8, <2>1, <2>2 DEF SpecsArrive
<1>9. CASE ForwardEnds(r)
  BY <1>2, <1>9, OtherAnswerRefuses DEF ForwardEnds
<1> QED BY <1>3, <1>4, <1>5, <1>6, <1>7, <1>8, <1>9 DEF Handler, PassThrough

LEMMA HashRefusalKeeps ==
    ASSUME OneCatalogue, EInv, HashInv, SharedInv', [EvaluationNext]_evaluationVars,
           forgotten \/ cacheRemote' = Registry!NoTools => forgotten',
           NEW i \in Requests
    PROVE  HashRefusal(i)'
<1>1. /\ IInv /\ MInv /\ TypeOK /\ SharedInv /\ FetchesAreMeant /\ HashRefusal(i)
      /\ program \in DOMAIN Programs /\ step \in Nat /\ dztMode # "baseline"
  BY EvaluationAssumption DEF EInv, IInv, MInv, TypeOK, EvaluationTypeOK, HashInv
<1>2. Expected' = Expected
  BY <1>1, CatalogueStays
<1>3. forgotten => forgotten'
  OBVIOUS
<1>4. CASE pc'[i] = "answered" =>
               pc[i] = "answered" /\ outcome'[i] = outcome[i] /\ msg'[i] = msg[i]
  BY <1>1, <1>2, <1>3, <1>4 DEF HashRefusal
<1>5. ASSUME NEW r \in WithProxy, Handler(r) PROVE HashRefusal(i)'
  <2>1. r \in Requests /\ OthersStay(r) /\ msg' = msg
    BY <1>1, <1>5, HandlerIsLocal DEF WithProxy
  <2>2. CASE i # r
    BY <1>4, <2>1, <2>2 DEF OthersStay
  <2>3. CASE i = r
    <3>1. /\ Registry!Ready /\ cacheRemote # Registry!NoTools =>
                 Registry!Current = Expected
          /\ Registry!Deliver(r) => Registry!Fetched(r) = Expected
      BY <1>1, <2>1, SpecsAreExpected
    <3>2. Registry!Ready /\ UNCHANGED registryVars =>
              forgotten' \/ Registry!Current = Expected'
      BY <1>2, <3>1 DEF registryVars
    <3>3. UpstreamMode = "github" /\ Registry!Fail(r) => forgotten'
      BY DEF Registry!Fail
    <3> QED BY <1>1, <1>2, <1>5, <2>1, <2>3, <3>1, <3>2, <3>3, HandlerRefuses
  <2> QED BY <2>2, <2>3
<1>6. CASE Send
  <2>1. /\ step \in Requests /\ pc[step] = "idle" /\ UNCHANGED requestVars
        /\ msg' = [msg EXCEPT ![step] = Minted(Call(step))]
    BY <1>6, SendReadies DEF Unbegun
  <2>2. pc'[i] = "answered" => i # step /\ msg'[i] = msg[i]
    BY <1>1, <2>1 DEF TypeOK, requestVars
  <2> QED BY <1>4, <2>1, <2>2 DEF requestVars
<1>7. CASE \/ Crash \/ Publish \/ Tick \/ UNCHANGED vars
           \/ \E r \in Requests : Serve(r) \/ Probing(r)
  BY <1>4, <1>7 DEF Crash, Publish, Tick, vars, Serve, Probing, requestVars
<1> QED BY <1>1, <1>5, <1>6, <1>7, StepsOfProxy

LEMMA MeantKeeps ==
    ASSUME EInv, FetchesAreMeant, [EvaluationNext]_evaluationVars
    PROVE  FetchesAreMeant'
<1>1. /\ Registry!TypeOK /\ program \in DOMAIN Programs /\ step \in Nat
  BY DEF EInv, MInv, SharedInv, EvaluationTypeOK
<1>2. CASE [Next]_vars
  BY <1>1, <1>2, FetchesStayMeant
<1>3. ASSUME NEW i \in Requests, Probing(i) PROVE FetchesAreMeant'
  <2>1. Registry!Ask(i) => UpstreamMode = "local" \/ HasPat
    BY DEF Registry!Ask, Registry!Ready
  <2> QED BY <1>1, <1>3, <2>1
          DEF Probing, Registry!Ask, Registry!Deliver, Registry!Fail, Registry!NoFetch,
              Registry!TypeOK, FetchesAreMeant
<1>4. CASE Send
  BY <1>4 DEF Send, registryVars, FetchesAreMeant
<1>5. \A r \in WithProxy : r \in Requests
  BY DEF WithProxy
<1> QED BY <1>1, <1>2, <1>3, <1>4, <1>5, StepsOfProxy DEF Next

LEMMA HashKeeps ==
    ASSUME OneCatalogue, EInv, HashInv, [EvaluationNext]_evaluationVars
    PROVE  HashInv'
<1>1. SharedInv'
  BY EvaluationKeeps DEF EInv, MInv
<1>2. FetchesAreMeant'
  BY MeantKeeps DEF HashInv
<1>3. /\ forgotten \/ cacheRemote' = Registry!NoTools =>
             forgotten' \/ UNCHANGED << forgotten, cacheRemote >>
      /\ ~ forgotten => cacheRemote # Registry!NoTools
  BY Zenon DEF EvaluationNext, evaluationVars, vars, registryVars, HashInv
<1>4. forgotten \/ cacheRemote' = Registry!NoTools => forgotten'
  BY <1>3
<1>5. \A tool \in Tools : Told(tool, hashes[tool])'
  BY <1>1, ToldKeeps
<1>6. \A i \in Requests : SentHash(i)' /\ HashRefusal(i)'
  BY <1>1, <1>4, SentHashKeeps, HashRefusalKeeps
<1> QED BY <1>2, <1>4, <1>5, <1>6, Zenon DEF HashInv
-------------------------------------------------------------------------------
\* A request that the limiter refused finds the quota of a window used up.
LEMMA RefusedForQuota ==
    ASSUME MInv, NEW i \in Requests, Spent(i), outcome[i].stage = "rate_limit"
    PROVE  QuotaIsUsed
<1> DEFINE d == msg[i].iss
           entry == [call |-> i, at |-> spentAt[i]]
           Q == {q \in Requests : /\ spentAt[q] > 0 /\ msg[q].iss = d
                                  /\ (outcome[q].stage = "rate_limit") = FALSE}
           U == {r \in Requests : Spent(r) /\ outcome[r].stage # "rate_limit"}
           f == [q \in Q |-> [call |-> q, at |-> spentAt[q]]]
           T == {f[q] : q \in Q}
           G == Rate!GrantedIn(d, entry.at)
<1>1. d \in Dids /\ Rate!RefusalIsDeserved
  BY DEF MInv, OnlyGenuineTokensCost, Genuine
<1>2. entry \in RateHistory(TRUE)[d]
  BY <1>1 DEF RateHistory, Spent
<1>3. Cardinality(G) >= MaxRequestsPerWindow
  BY <1>1, <1>2, SameCardinality DEF Rate!RefusalIsDeserved
<1>4. G \in SUBSET (RateHistory(FALSE)[d])
  BY DEF Rate!GrantedIn
<1>5. RateHistory(FALSE)[d] = T
  BY <1>1 DEF RateHistory
<1>6. Q \in SUBSET U /\ U \in SUBSET Requests
  BY DEF Spent
<1>7. f \in Surjection(Q, T)
  BY DEF Surjection
<1> HIDE DEF Q, U, f, T, G
<1>8. IsFiniteSet(U) /\ IsFiniteSet(Q) /\ Cardinality(Q) <= Cardinality(U)
  BY <1>6, FS_Subset, SurroundingsAssumption
<1>9. IsFiniteSet(T) /\ Cardinality(T) <= Cardinality(Q)
  BY <1>7, <1>8, FS_Surjection
<1>10. IsFiniteSet(G) /\ Cardinality(G) <= Cardinality(T)
  BY <1>4, <1>5, <1>9, FS_Subset
<1>11. /\ Cardinality(G) \in Nat /\ Cardinality(T) \in Nat
       /\ Cardinality(Q) \in Nat /\ Cardinality(U) \in Nat
       /\ MaxRequestsPerWindow \in Nat
  BY <1>8, <1>9, <1>10, FS_CardinalityType, ProxyAssumption
<1>12. Cardinality(U) >= MaxRequestsPerWindow
  BY <1>3, <1>8, <1>9, <1>10, <1>11
<1> QED BY <1>12 DEF U, QuotaIsUsed

\* The jti of a call that is not replayed was spent by that call or by nobody.
LEMMA NobodySpentIt ==
    ASSUME EInv, NEW i \in Requests, SentAs(i),
           Call(i).reuse = 0, Call(i).expect # "allowed", msg[i].jti # NoJti,
           NEW q \in Requests \ {i}, Spent(q), msg[q].jti = msg[i].jti
    PROVE  FALSE
<1>1. /\ SentAs(q) /\ program \in DOMAIN Programs /\ q \in Int /\ i \in Int
  BY SpentIsBound, RequestsAreNumbers DEF EInv, EvaluationTypeOK
<1>2. Origin(i) = i /\ Origin(q) = i
  BY <1>1 DEF SentAs, Origin
<1>3. Call(q).reuse # 0 /\ StepOf(Call(q).reuse) = i
  BY <1>2 DEF Origin
<1>4. Call(i) \in FirstUses
  BY <1>1, <1>3, ReplaysAreOfFirstUses DEF SentAs
<1> QED BY <1>4, FirstUsesAreGood

\* The answer that a verdict is about, if the call went as it was meant.
LEMMA AnswerAsMeant ==
    ASSUME DInv, NEW k \in 1 .. Len(verdicts), AsMeant(k), Calls[k].to = "proxy"
    PROVE  LET i == StepOf(k)
               stage == outcome[i].stage
           IN  /\ i \in Requests /\ i \in Int /\ k \in 1 .. Len(Calls)
               /\ IsCall(i) /\ Call(i) = Calls[k] /\ Call(i) \in SoundCalls
               /\ SentAs(i) /\ pc[i] = "answered"
               /\ OfProxy(verdicts[k].status, Calls[k], i)
               /\ Apt(msg[i], verdicts[k].status, stage, Spent(i))
               /\ stage \in Early \cup Late \cup {"replay_protection", "forwarded"}
<1> DEFINE i == StepOf(k)
           stage == outcome[i].stage
           m == msg[i]
<1>1. /\ EInv /\ CourseInv /\ VerdictInv /\ IInv /\ MInv /\ TypeOK /\ SecureInv
      /\ SendInv /\ InTime /\ program \in DOMAIN Programs
      /\ Len(verdicts) <= Len(Calls) /\ VerdictOn(k)
  BY DEF DInv, EInv, EvaluationTypeOK, IInv, VerdictInv
<1>2. /\ Len(Probes) \in Nat /\ Len(Calls) \in Nat /\ Len(verdicts) \in Nat
      /\ k \in 1 .. Len(Calls) /\ i \in Requests
  BY <1>1, StepsHaveRequests DEF EInv, EvaluationTypeOK
<1>3. i \in Int /\ IsCall(i) /\ Call(i) = Calls[k] /\ Call(i) \in SoundCalls
  <2>1. i \in Int /\ i - Len(Probes) = k
    BY <1>2 DEF StepOf
  <2>2. IsCall(i) /\ Call(i) = Calls[k]
    BY <1>2, <2>1 DEF IsCall, Call
  <2> QED BY <1>1, <2>1, <2>2, StepsHaveRequests
<1>4. /\ OfProxy(verdicts[k].status, Calls[k], i) /\ pc[i] = "answered"
      /\ outcome[i].status = verdicts[k].status /\ outcome[i].status \in 1 .. 499
  <2>1. verdicts[k].status \in 1 .. 499
    BY Zenon DEF AsMeant
  <2>2. 0 \notin 1 .. 499
    OBVIOUS
  <2>3. VerdictOn(k)
    BY <1>1
  <2>4. Calls[k].to = "proxy"
    OBVIOUS
  <2> QED BY <2>1, <2>2, <2>3, <2>4, Zenon DEF VerdictOn, OnAnswer, OfProxy
<1>5. Apt(m, outcome[i].status, stage, Spent(i)) /\ stage \in Stages
  BY <1>1, <1>2, <1>4 DEF CourseInv, Fits, TypeOK
<1>6. SentAs(i)
  BY <1>1, <1>2, <1>4 DEF SendInv, Unbegun
<1>7. stage # "rate_limit"
  <2>1. ASSUME stage = "rate_limit" PROVE FALSE
    <3>1. Spent(i) /\ outcome[i].status = 429
      BY <1>5, <2>1 DEF Apt
    <3>2. QuotaIsUsed
      BY <1>1, <1>2, <2>1, <3>1, RefusedForQuota
    <3> QED BY <1>4, <3>1, <3>2 DEF AsMeant
  <2> QED BY <2>1
<1>8. stage \in Early \cup Late \cup {"replay_protection", "forwarded"}
  <2>1. stage # "request"
    BY <1>1, <1>2 DEF SecureInv
  <2>2. /\ stage \notin {"none", "request_parse"}
        /\ stage = "exception" => outcome[i].status = 500
        /\ stage = "upstream" => outcome[i].status = 502
    BY <1>5 DEF Apt
  <2>3. 500 \notin 1 .. 499 /\ 502 \notin 1 .. 499
    OBVIOUS
  <2>4. stage \notin {"exception", "upstream"}
    BY <1>4, <2>2, <2>3, Zenon
  <2>5. stage \in Stages
    BY <1>5
  <2> HIDE DEF stage
  <2> QED BY <1>7, <2>1, <2>2, <2>4, <2>5 DEF Stages, Early, Late
<1> QED BY <1>2, <1>3, <1>4, <1>5, <1>6, <1>8

\* An attack of which the program could judge the defence: the one it is aimed at.
LEMMA DefenceIsTheOneMeant ==
    ASSUME DInv, NEW k \in 1 .. Len(verdicts), AsMeant(k), Calls[k].to = "proxy",
           Calls[k].expect = "blocked"
    PROVE  outcome[StepOf(k)].stage = Calls[k].aim
<1> DEFINE i == StepOf(k)
           stage == outcome[i].stage
           m == msg[i]
<1>1. /\ EInv /\ IInv /\ MInv /\ SendInv
      /\ program \in DOMAIN Programs /\ Len(verdicts) <= Len(Calls)
  BY DEF DInv, EInv, EvaluationTypeOK, IInv, VerdictInv
<1>2. /\ Len(Probes) \in Nat /\ Len(Calls) \in Nat /\ Len(verdicts) \in Nat
      /\ k \in 1 .. Len(Calls) /\ i \in Requests
  BY <1>1, StepsHaveRequests DEF EInv, EvaluationTypeOK
<1>3. i \in Int /\ IsCall(i) /\ Call(i) = Calls[k] /\ Call(i) \in SoundCalls
  BY AnswerAsMeant
<1>4. Apt(m, verdicts[k].status, stage, Spent(i))
  BY AnswerAsMeant
<1>5. SentAs(i)
  BY AnswerAsMeant
<1>6. stage \in Early \cup Late \cup {"replay_protection", "forwarded"}
  BY AnswerAsMeant
<1>7. stage = "forwarded" => Reached(i) /\ Spent(i)
  <2>1. stage = "forwarded" => Reached(i)
    BY DEF Reached
  <2> QED BY <1>1, <1>2, <2>1, ReachedWasSent DEF Consented
<1>8. CASE Call(i).reuse = 0
  <2>1. /\ Reminted(m, Call(i)) /\ Call(i).message \in MessageShape
        /\ Flaw(Call(i).message) = Calls[k].aim /\ Calls[k].aim \in Early \cup Late
    BY <1>3, <1>5, <1>8 DEF SentAs, SoundCalls
  <2>2. Flaw(m) = Calls[k].aim
    BY <2>1, FlawIsKept DEF Early, Late
  <2>3. stage # "forwarded"
    BY <1>1, <1>2, <1>7, <2>1, <2>2, ReachedIsFlawless DEF Early, Late
  <2>4. stage # "replay_protection"
    <3>1. ASSUME stage = "replay_protection" PROVE FALSE
      <4>1. Flaw(m) \in Late
        BY <1>4, <2>1, <2>2, <3>1 DEF Apt, Early, Late
      <4>2. m.jti # NoJti
        BY <4>1 DEF Flaw, Late
      <4>3. PICK q \in Requests \ {i} : Spent(q) /\ msg[q].jti = m.jti
        BY <1>1, <1>2, <3>1, <4>2 DEF MInv, OnlyGenuineTokensCost, ReplayIsReal
      <4>4. Call(i).expect # "allowed"
        BY <1>3
      <4> QED BY <1>1, <1>2, <1>5, <1>8, <4>2, <4>3, <4>4, NobodySpentIt
    <3> QED BY <3>1
  <2>5. CASE stage \in Early
    BY <1>4, <2>2, <2>5 DEF Apt
  <2>6. CASE stage \in Late
    <3>1. Spent(i) /\ stage \in {"policy_enforcement", "tool_integrity"}
      BY <1>4, <2>6 DEF Apt, Late
    <3>2. Flaw(m) \in Late
      BY <1>1, <1>2, <2>1, <2>2, <3>1, SpentIsBound DEF Early, Late
    <3>3. Flaw(m) = "policy_enforcement" <=> Decision(m) # "allow"
      BY <3>2 DEF Flaw, Late
    <3> QED BY <1>4, <2>2, <3>1, <3>2, <3>3 DEF Apt, Late
  <2> QED BY <1>6, <2>3, <2>4, <2>5, <2>6
<1>9. CASE Call(i).reuse # 0
  <2>1. Calls[k].aim = "replay_protection"
    BY <1>3, <1>9 DEF SoundCalls
  <2>2. PICK j \in 1 .. k - 1 : msg[StepOf(j)] = m /\ Spent(StepOf(j))
    BY <1>3, <1>9 DEF AsMeant, IsReplay
  <2> DEFINE p == StepOf(j)
  <2>3. p \in Requests \ {i}
    <3>1. j \in 1 .. Len(Calls) /\ j # k
      BY <1>2
    <3> QED BY <1>1, <1>2, <3>1, StepsHaveRequests DEF StepOf
  <2>4. Flaw(m) \in Late \cup {"none"}
    BY <1>1, <2>2, <2>3, SpentIsBound
  <2>5. ~ Spent(i)
    BY <1>1, <1>2, <2>2, <2>3, OneUseOnly
  <2>6. stage \notin Late /\ stage # "forwarded" /\ stage \notin Early
    BY <1>4, <1>7, <2>4, <2>5 DEF Apt, Early, Late
  <2> QED BY <1>6, <2>1, <2>6
<1> QED BY <1>8, <1>9

\* "Every rejection includes machine-readable fields so eval scripts can validate
\* the specific defense that triggered" (app.py:94-95): an attack is stopped by
\* the check it is aimed at, so that no check seems to work because another one
\* stops its attack first.
THEOREM EvaluationEachByItsDefence == EvaluationSpec => []EachByItsDefence
<1>1. DInv => EachByItsDefence
  BY DefenceIsTheOneMeant DEF EachByItsDefence
<1> QED BY <1>1, DefencesHold, PTL
-------------------------------------------------------------------------------
\* A good request that was answered as meant has no flaw, and the hash that the proxy
\* expects.
LEMMA GoodRequestIsFlawless ==
    ASSUME DInv, HashInv, HashesAreCurrent, NEW i \in Requests, i \in Int,
           SentAs(i), Call(i).expect = "allowed", msg[i] # Unsent
    PROVE  /\ Flaw(msg[i]) = "none" /\ Decision(msg[i]) = "allow"
           /\ msg[i].hash # NoHash /\ Expected[msg[i].asked] = msg[i].hash
<1> DEFINE c == Call(i)
           m == msg[i]
<1>1. /\ program \in DOMAIN Programs /\ IsCall(i) /\ c.to = "proxy"
      /\ c \in SoundCalls /\ c.reuse = 0 /\ c.message \in GoodMessages
  <2>1. program \in DOMAIN Programs /\ IsCall(i) /\ c.to = "proxy"
    BY DEF DInv, EInv, EvaluationTypeOK, SentAs
  <2>2. c \in SoundCalls
    BY <2>1, StepsHaveRequests
  <2> QED BY <2>1, <2>2 DEF SoundCalls
<1>2. SoundProgram(program, Programs[program])
  BY <1>1, ProgramsAreSound
<1>3. Len(Probes) > 0 /\ Probes[1] = GoodTool /\ Len(Probes) \in Nat
  <2>1. ~ (Calls \in Seq(DirectCalls))
    <3>1. ASSUME Calls \in Seq(DirectCalls) PROVE c \in DirectCalls
      BY <1>1, <3>1 DEF IsCall, Call
    <3> QED BY <1>1, <3>1 DEF DirectCalls
  <2> QED BY <1>1, <1>2, <2>1, StepsHaveRequests DEF SoundProgram, Probes, Calls
<1>4. GoodTool \in Tools
  BY GoodIsShaped, EvaluationAssumption DEF KnownTools
<1>5. hashes[GoodTool] = Registry!Merged(catalogue)[GoodTool]
  BY <1>3 DEF HashesAreCurrent
<1>6. hashes[GoodTool] # Suite!ZeroHash
  <2>1. catalogue \in Catalogues
    BY DEF DInv, EInv, MInv, SharedInv, Registry!TypeOK
  <2>2. catalogue[GoodTool] \in HashesOf(GoodTool)
    BY <2>1 DEF HashesOf
  <2>3. \A tool \in Tools : Suite!ZeroHash \notin HashesOf(tool) \cup {LocalToolSpecs[tool]}
    BY EvaluationAssumption
  <2> QED BY <1>4, <1>5, <2>2, <2>3 DEF Registry!Merged
<1>7. hashes[GoodTool] # NoHash /\ Expected[GoodTool] = hashes[GoodTool]
  <2>1. Told(GoodTool, hashes[GoodTool])
    BY <1>4 DEF HashInv
  <2>2. UpstreamMode \in {"local", "github"}
    BY DEF UpstreamMode
  <2> QED BY <1>5, <1>6, <2>1, <2>2 DEF Told, Expected
<1>8. /\ c.message.form = "jwt" /\ c.message.iss = "agent1" /\ c.message.key = "k1"
      /\ c.message.claims = "good" /\ c.message.exp # 0 /\ c.message.params = "pass"
      /\ c.message.tool = GoodTool /\ c.message.asked = GoodTool
      /\ c.message.jti = Fresh /\ c.message.hash = Suite!Probed
      /\ c.message \in MessageShape
  BY <1>1, GoodIsShaped DEF GoodMessages, Suite!Token
<1>9. Reminted(m, c) /\ m.hash = hashes[GoodTool]
  BY <1>1, <1>8 DEF SentAs, HashInv, SentHash
<1> HIDE DEF c
<1>10. /\ m.form = "jwt" /\ m.iss = "agent1" /\ m.key = "k1"
       /\ m.claims = "good" /\ m.exp # 0 /\ m.params = "pass"
       /\ m.tool = GoodTool /\ m.asked = GoodTool /\ m.jti # NoJti
  BY <1>8, <1>9, FreshIsAJti, RemintedKeeps
<1> HIDE DEF m
<1>11. Decision(m) = "allow"
  BY <1>10 DEF Decision, is_allowed, AGENT_POLICIES, GLOBAL_BLOCKLIST, DynamicTools,
               GoodTool, UpstreamMode
<1>12. Flaw(m) = "none"
  BY <1>6, <1>7, <1>9, <1>10, <1>11 DEF Flaw, NoHash, Registry!NoHash
<1> QED BY <1>7, <1>9, <1>10, <1>11, <1>12 DEF m

\* A good request that was answered as meant was executed.
LEMMA GoodRequestIsServed ==
    ASSUME DInv, HashInv, NEW k \in 1 .. Len(verdicts), AsMeant(k),
           Calls[k].to = "proxy", Calls[k].expect = "allowed"
    PROVE  verdicts[k].status = 200
<1> DEFINE i == StepOf(k)
           stage == outcome[i].stage
           m == msg[i]
<1>1. /\ i \in Requests /\ i \in Int /\ Call(i) = Calls[k]
      /\ SentAs(i) /\ pc[i] = "answered"
      /\ OfProxy(verdicts[k].status, Calls[k], i)
      /\ Apt(m, verdicts[k].status, stage, Spent(i))
      /\ stage \in Early \cup Late \cup {"replay_protection", "forwarded"}
  BY AnswerAsMeant
<1>2. HashesAreCurrent
  BY DEF AsMeant
<1>3. msg[i] # Unsent
  BY <1>1 DEF DInv, EInv, SendInv, Unbegun
<1>4. /\ Flaw(m) = "none" /\ Decision(m) = "allow"
      /\ m.hash # NoHash /\ Expected[m.asked] = m.hash
  BY <1>1, <1>2, <1>3, GoodRequestIsFlawless
<1>5. stage # "tool_integrity"
  BY <1>1, <1>2, <1>4 DEF HashInv, HashRefusal, HashesAreCurrent
<1>6. stage # "replay_protection"
  BY <1>1 DEF OfProxy
<1>7. stage = "forwarded"
  BY <1>1, <1>4, <1>5, <1>6 DEF Apt, Early, Late
<1> QED BY <1>1, <1>7 DEF Apt

LEMMA VerdictIsTyped ==
    ASSUME EvaluationTypeOK, NEW k \in 1 .. Len(verdicts)
    PROVE  verdicts[k].status \in Nat /\ verdicts[k].blocked \in BOOLEAN
<1> DEFINE V == [status : Nat, blocked : BOOLEAN]
<1>1. verdicts \in Seq(V)
  BY DEF EvaluationTypeOK
<1> HIDE DEF V
<1>2. verdicts[k] \in V
  BY <1>1
<1> QED BY <1>2 DEF V

LEMMA VerdictIsRight ==
    ASSUME DInv, HashInv, NEW k \in 1 .. Len(verdicts), AsMeant(k), Calls[k].to = "proxy"
    PROVE  verdicts[k].blocked = (Calls[k].expect = "blocked")
<1>1. verdicts[k].blocked \in BOOLEAN /\ verdicts[k].status \in Nat
  BY VerdictIsTyped DEF DInv, EInv
<1>2. CASE Calls[k].expect = "allowed"
  <2>1. verdicts[k].blocked = FALSE
    BY <1>1, <1>2, GoodRequestIsServed DEF AsMeant
  <2> QED BY <1>2, <2>1
<1>3. CASE Calls[k].expect # "allowed"
  <2> DEFINE i == StepOf(k)
  <2>1. /\ Call(i) = Calls[k] /\ Call(i) \in SoundCalls
        /\ Apt(msg[i], verdicts[k].status, outcome[i].stage, Spent(i))
    BY AnswerAsMeant
  <2>2. /\ Calls[k].expect = "blocked"
        /\ Calls[k].aim \in Early \cup Late \cup {"replay_protection"}
    BY <1>3, <2>1 DEF SoundCalls
  <2>3. outcome[i].stage # "forwarded"
    BY <1>3, <2>2, DefenceIsTheOneMeant DEF Early, Late
  <2>4. verdicts[k].status >= 400
    BY <2>1, <2>3 DEF Apt
  <2>5. verdicts[k].status # 0
    BY <1>1, <2>4
  <2>6. verdicts[k].status >= 400 => verdicts[k].blocked
    BY <2>5 DEF DInv, VerdictInv, VerdictOn, OnAnswer
  <2>7. verdicts[k].blocked = TRUE
    BY <1>1, <2>4, <2>6
  <2> QED BY <2>2, <2>7
<1> QED BY <1>2, <1>3

\* The proxy does to every attack, and to every valid call, what the program
\* expects, whatever became of the calls before it: late handlers of calls the
\* client gave up, outages and restarts turn no verdict around
\* (attack_runner.py:201-271, 335-414, 421-473; benign_test.py:10-12, 65-76;
\* latency_benchmark.py:76-90).
THEOREM EvaluationVerdictsCorrect ==
    ASSUME OneCatalogue
    PROVE  EvaluationSpec => []VerdictsAreCorrect
<1>1. EvaluationInit => HashInv
  <2> SUFFICES ASSUME EvaluationInit PROVE HashInv
    OBVIOUS
  <2>1. cacheRemote # Registry!NoTools
    BY CachesAssumption DEF EvaluationInit, Start, Registry!RegistryInit
  <2> QED BY <2>1 DEF EvaluationInit, Start, Registry!RegistryInit, Registry!NoFetch,
                      HashInv, FetchesAreMeant, Told, SentHash, HashRefusal
<1>2. DInv /\ HashInv /\ [EvaluationNext]_evaluationVars => HashInv'
  BY HashKeeps DEF DInv
<1>3. EvaluationSpec => []HashInv
  BY <1>1, <1>2, DefencesHold, PTL DEF EvaluationSpec
<1>4. DInv /\ HashInv => VerdictsAreCorrect
  BY VerdictIsRight DEF VerdictsAreCorrect
<1> QED BY <1>3, <1>4, DefencesHold, PTL
-------------------------------------------------------------------------------
\* The calls that the client gave up while the proxy lived.
GivenUp ==
    {k \in 1 .. Len(verdicts) : /\ Calls[k].to = "proxy" /\ verdicts[k].status = 0
                               /\ pc[StepOf(k)] # "lost"}

ReportInv ==
    /\ ended = "finished" => Len(verdicts) = Len(Calls)
    /\ Cardinality(GivenUp) <= failures

\* One element more makes a finite set larger by one at most.
LEMMA OneMoreAtMost ==
    ASSUME NEW S, IsFiniteSet(S), NEW x
    PROVE  /\ IsFiniteSet(S \cup {x})
           /\ Cardinality(S \cup {x}) <= Cardinality(S) + 1
<1>1. Cardinality(S) \in Nat
  BY FS_CardinalityType
<1>2. IsFiniteSet(S \cup {x})
  BY FS_AddElement
<1>3. CASE x \in S
  <2>1. Cardinality(S \cup {x}) = Cardinality(S)
    BY <1>3, FS_AddElement
  <2> QED BY <1>1, <1>2, <2>1
<1>4. CASE x \notin S
  <2>1. Cardinality(S \cup {x}) = Cardinality(S) + 1
    BY <1>4, FS_AddElement
  <2> QED BY <1>1, <1>2, <2>1
<1> QED BY <1>3, <1>4

LEMMA FailuresGrow ==
    ASSUME EInv, [EvaluationNext]_evaluationVars
    PROVE  failures \in Nat /\ failures' \in {failures, failures + 1}
<1>1. failures \in Nat
  BY EvaluationAssumption DEF EInv, EvaluationTypeOK
<1>2. CASE Check \/ Probe \/ ProbeOwn \/ Send \/ Judge \/ Finish
  <2>1. UNCHANGED worldVars
    BY <1>2 DEF Check, Probe, ProbeOwn, Send, Judge, Finish
  <2> QED BY <1>1, <2>1 DEF worldVars
<1>3. CASE GiveUp \/ CallDirect
  <2>1. UNCHANGED failures \/ Fails
    BY <1>3, Zenon DEF GiveUp, CallDirect, GithubAnswers
  <2> QED BY <1>1, <2>1 DEF Fails
<1>4. CASE Proxying
  <2>1. \A i : ProbeAnswered(i) => UNCHANGED worldVars
    BY DEF ProbeAnswered
  <2>2. UNCHANGED worldVars
    BY <1>4, <2>1 DEF Proxying
  <2> QED BY <1>1, <2>2 DEF worldVars
<1>5. CASE UpstreamAnswers \/ World \/ UNCHANGED evaluationVars
  <2>1. UNCHANGED worldVars \/ Fails
    BY <1>5 DEF UpstreamAnswers, World, Dies, Outage, evaluationVars
  <2> QED BY <1>1, <2>1 DEF worldVars, Fails
<1> QED BY <1>2, <1>3, <1>4, <1>5 DEF EvaluationNext, Client

\* A program that has finished makes no more calls.
LEMMA FinishIsLast ==
    ASSUME [EvaluationNext]_evaluationVars, ended' = "finished"
    PROVE  Finish \/ UNCHANGED << verdicts, ended >>
<1>1. ASSUME NEW hash, ProbeEnds(hash) PROVE ended' \in {ended, "aborted", "failed"}
  BY <1>1 DEF ProbeEnds, NextStep, Abort, Raises
<1>2. CASE Check \/ Probe \/ ProbeOwn
  <2>1. ended = "no" /\ ended' \in {ended, "aborted", "failed"}
    BY <1>1, <1>2 DEF Check, Probe, ProbeOwn, NextStep, Abort
  <2> QED BY <2>1
<1>3. CASE Judge \/ CallDirect \/ GiveUp
  <2>1. ended = "no"
    BY <1>3 DEF Judge, CallDirect, Ready, GiveUp
  <2>2. \A status, error : Record(status, error) => ended' = ended
    BY DEF Record, NextStep
  <2>3. Except => ended' \in {ended, "failed"}
    BY DEF Except, NextStep, Raises
  <2>4. ended' \in {ended, "aborted", "failed"}
    BY <1>1, <1>3, <2>2, <2>3, DirectIsAnswered DEF Judge, GiveUp
  <2> QED BY <2>1, <2>4
<1>4. CASE Send \/ Finish
  BY <1>4 DEF Send
<1>5. CASE Proxying
  <2>1. ASSUME NEW i, ProbeAnswered(i) PROVE UNCHANGED << verdicts, ended >>
    <3>1. \/ UNCHANGED << step, sent, ended, hashes >>
          \/ ended = "no" /\ \E hash : ProbeEnds(hash)
      BY <2>1, Zenon DEF ProbeAnswered
    <3>2. verdicts' = verdicts
      BY <2>1 DEF ProbeAnswered
    <3> QED BY <1>1, <3>1, <3>2
  <2> QED BY <1>5, <2>1 DEF Proxying, clientVars
<1>6. CASE UpstreamAnswers \/ World \/ UNCHANGED evaluationVars
  BY <1>6 DEF UpstreamAnswers, World, Dies, Outage, clientVars, evaluationVars
<1> QED BY <1>2, <1>3, <1>4, <1>5, <1>6 DEF EvaluationNext, Client

LEMMA ReportKeeps ==
    ASSUME DInv, ReportInv, DInv', [EvaluationNext]_evaluationVars
    PROVE  ReportInv'
<1>1. /\ EInv /\ CourseInv /\ VerdictInv /\ VerdictInv'
      /\ program \in DOMAIN Programs /\ step \in Nat
      /\ verdicts \in Seq([status : Nat, blocked : BOOLEAN])
  BY DEF DInv, EInv, EvaluationTypeOK
<1>2. program' = program
  BY <1>1, ClientGoesOn
<1>3. Probes' = Probes /\ Calls' = Calls /\ \A k : StepOf(k)' = StepOf(k)
  BY <1>2 DEF Probes, Calls, StepOf
<1>4. /\ Len(Probes) \in Nat /\ Len(Calls) \in Nat /\ Len(verdicts) \in Nat
      /\ \A k \in 1 .. Len(Calls) : StepOf(k) \in Requests
  BY <1>1, StepsHaveRequests
<1>5. \A r \in Requests : pc[r] = "lost" => pc'[r] = "lost"
  BY <1>1, CourseKeeps
<1>6. (ended = "finished" => Len(verdicts) = Len(Calls))'
  <2>1. CASE Finish
    <3>1. step > Len(Calls) + Len(Probes) /\ verdicts' = verdicts
      BY <2>1 DEF Finish, StepOf
    <3>2. /\ Len(verdicts) = (IF step > Len(Probes) THEN step - Len(Probes) - 1 ELSE 0)
          /\ Len(verdicts) <= Len(Calls)
      BY <1>1 DEF VerdictInv
    <3>3. Len(verdicts) = step - Len(Probes) - 1
      <4>1. step > Len(Probes)
        BY <1>1, <1>4, <3>1
      <4> QED BY <3>2, <4>1
    <3>4. Len(verdicts) = Len(Calls)
      BY <1>1, <1>4, <3>1, <3>2, <3>3
    <3> QED BY <1>3, <3>1, <3>4
  <2>2. CASE UNCHANGED << verdicts, ended >>
    BY <1>3, <2>2 DEF ReportInv
  <2> QED BY <2>1, <2>2, FinishIsLast
<1>7. failures \in Nat /\ failures' \in {failures, failures + 1}
  BY <1>1, FailuresGrow
<1>8. IsFiniteSet(GivenUp) /\ Cardinality(GivenUp) \in Nat
  <2>1. GivenUp \in SUBSET (1 .. Len(verdicts)) /\ IsFiniteSet(1 .. Len(verdicts))
    BY <1>4, FS_Interval DEF GivenUp
  <2> QED BY <2>1, FS_Subset, FS_CardinalityType
<1>9. ASSUME NEW S, IsFiniteSet(S), Cardinality(S) <= failures', GivenUp' \subseteq S
      PROVE  Cardinality(GivenUp') <= failures'
  <2>1. Cardinality(S) \in Nat /\ Cardinality(GivenUp') <= Cardinality(S)
        /\ Cardinality(GivenUp') \in Nat
    BY <1>9, FS_Subset, FS_CardinalityType
  <2> QED BY <1>7, <1>9, <2>1
<1>10. Cardinality(GivenUp) <= failures'
  BY <1>7, <1>8 DEF ReportInv
<1>11. CASE verdicts' = verdicts
  <2>1. GivenUp' \subseteq GivenUp
    BY <1>1, <1>3, <1>4, <1>5, <1>11 DEF GivenUp, VerdictInv
  <2> QED BY <1>6, <1>8, <1>9, <1>10, <2>1 DEF ReportInv
<1>12. ASSUME NEW verdict, Verdict(verdict) PROVE ReportInv'
  <2>1. PICK n \in Nat : n = Len(verdicts) + 1
    BY <1>4
  <2>2. /\ step - Len(Probes) \in 1 .. Len(Calls) /\ verdicts' = Append(verdicts, verdict)
        /\ verdict.status = 0 => HasFailed
    BY <1>12 DEF Verdict, IsCall
  <2>3. n = step - Len(Probes) /\ n \in 1 .. Len(Calls) /\ StepOf(n) = step
    BY <1>1, <1>4, <2>1, <2>2 DEF VerdictInv, StepOf
  <2>4. /\ Len(verdicts') = n /\ verdicts'[n] = verdict
        /\ \A k \in 1 .. Len(verdicts) : verdicts'[k] = verdicts[k]
        /\ \A k \in 1 .. n : k = n \/ k \in 1 .. Len(verdicts)
    BY <1>1, <1>4, <2>1, <2>2
  <2>5. ASSUME NEW k \in GivenUp', k # n PROVE k \in GivenUp
    <3>1. k \in 1 .. Len(verdicts) /\ verdicts'[k] = verdicts[k]
      BY <2>4, <2>5 DEF GivenUp
    <3>2. StepOf(k)' = StepOf(k) /\ StepOf(k) \in Requests
      BY <1>1, <1>3, <1>4, <3>1 DEF VerdictInv
    <3> QED BY <1>3, <1>5, <2>5, <3>1, <3>2 DEF GivenUp
  <2>6. CASE failures' = failures + 1
    <3>1. /\ IsFiniteSet(GivenUp \cup {n})
          /\ Cardinality(GivenUp \cup {n}) <= Cardinality(GivenUp) + 1
      BY <1>8, OneMoreAtMost
    <3>2. Cardinality(GivenUp \cup {n}) \in Nat
      BY <3>1, FS_CardinalityType
    <3>3. Cardinality(GivenUp \cup {n}) <= failures'
      BY <1>7, <1>8, <2>6, <3>1, <3>2 DEF ReportInv
    <3>4. GivenUp' \subseteq GivenUp \cup {n}
      BY <2>5
    <3> QED BY <1>6, <1>9, <3>1, <3>3, <3>4 DEF ReportInv
  <2>7. CASE failures' # failures + 1
    <3>1. n \notin GivenUp'
      <4>1. ASSUME Calls[n].to = "proxy", verdict.status = 0 PROVE pc'[step] = "lost"
        <5>1. Call(step) = Calls[n] /\ step \in Requests
          BY <1>4, <2>3 DEF Call
        <5> QED BY <1>5, <2>2, <2>7, <4>1, <5>1 DEF HasFailed
      <4> QED BY <1>3, <2>3, <2>4, <4>1 DEF GivenUp
    <3>2. GivenUp' \subseteq GivenUp
      BY <2>5, <3>1
    <3> QED BY <1>6, <1>8, <1>9, <1>10, <3>2 DEF ReportInv
  <2> QED BY <2>6, <2>7
<1> QED BY <1>1, <1>11, <1>12, VerdictsGrow DEF ProbeGoesOn

LEMMA PartsAddUp ==
    ASSUME NEW S, IsFiniteSet(S), NEW T, T \subseteq S
    PROVE  /\ IsFiniteSet(T) /\ IsFiniteSet(S \ T)
           /\ Cardinality(S) \in Nat /\ Cardinality(T) \in Nat
           /\ Cardinality(S \ T) \in Nat
           /\ Cardinality(S) = Cardinality(T) + Cardinality(S \ T)
<1>1. S \cap T = T /\ T \in SUBSET S
  OBVIOUS
<1>2. /\ IsFiniteSet(T) /\ IsFiniteSet(S \ T)
      /\ Cardinality(S \ T) = Cardinality(S) - Cardinality(T)
  <2>1. IsFiniteSet(T)
    BY <1>1, FS_Subset
  <2>2. /\ IsFiniteSet(S \ T)
        /\ Cardinality(S \ T) = Cardinality(S) - Cardinality(S \cap T)
    BY FS_Difference
  <2> QED BY <1>1, <2>1, <2>2
<1>3. /\ Cardinality(S) \in Nat /\ Cardinality(T) \in Nat
      /\ Cardinality(S \ T) \in Nat
  BY <1>2, FS_CardinalityType
<1> QED BY <1>2, <1>3

LEMMA UnionIsNoLarger ==
    ASSUME NEW S, IsFiniteSet(S), NEW T, IsFiniteSet(T)
    PROVE  /\ IsFiniteSet(S \cup T)
           /\ Cardinality(S \cup T) <= Cardinality(S) + Cardinality(T)
<1>1. /\ IsFiniteSet(S \cup T)
      /\ Cardinality(S \cup T) =
             Cardinality(S) + Cardinality(T) - Cardinality(S \cap T)
  BY FS_Union
<1>2. S \cap T \in SUBSET S
  OBVIOUS
<1>3. IsFiniteSet(S \cap T)
  BY <1>2, FS_Subset
<1>4. /\ Cardinality(S) \in Nat /\ Cardinality(T) \in Nat
      /\ Cardinality(S \cap T) \in Nat
  BY <1>3, FS_CardinalityType
<1> QED BY <1>1, <1>4

\* The calls of a program that attacks the proxy: an attack is what is to be blocked,
\* and there is one.
LEMMA AttackRunIsSound ==
    ASSUME program \in {"local_proxy", "github_proxy"}, EvaluationTypeOK
    PROVE  /\ Len(Calls) \in Nat /\ Len(Calls) >= 4 /\ Calls[3].expect = "blocked"
           /\ \A k \in 1 .. Len(Calls) :
                  /\ Calls[k].to = "proxy"
                  /\ Calls[k].expect \in {"allowed", "blocked"}
                  /\ is_attack_result(Calls[k].name) <=> Calls[k].expect = "blocked"
<1>1. program \in DOMAIN Programs
  BY DEF EvaluationTypeOK
<1>2. PICK first \in {2, 4} : AttacksTheProxy(Calls, first)
  BY <1>1, ProgramsAreSound DEF SoundProgram, Calls
<1>3. Calls \in Seq(CallsAgain(first)) /\ Len(Calls) >= 4 /\ Calls[3].expect = "blocked"
  BY <1>2 DEF AttacksTheProxy
<1>4. ASSUME NEW k \in 1 .. Len(Calls)
      PROVE  /\ Calls[k].to = "proxy"
             /\ Calls[k].expect \in {"allowed", "blocked"}
             /\ is_attack_result(Calls[k].name) <=> Calls[k].expect = "blocked"
  <2>1. Calls[k] \in CallsAgain(first)
    BY <1>3
  <2>2. Calls[k] \in CallShape
    BY <2>1 DEF CallsAgain, CatchingCalls, SoundCalls
  <2>3. Calls[k].expect \in {"allowed", "blocked"}
    BY <2>2 DEF CallShape
  <2> QED BY <2>1, <2>3 DEF CallsAgain
<1>5. Len(Calls) \in Nat
  BY <1>1, StepsHaveRequests
<1> QED BY <1>3, <1>4, <1>5

\* The attacks of a run, those that the report counts as successful, and those that
\* were executed but reported as blocked for an error in the answer.
Attacks == {k \in 1 .. Len(verdicts) : is_attack_result(Calls[k].name)}
Missed == {k \in Attacks : ~ verdicts[k].blocked}
WithError == {k \in Executed("blocked") : verdicts[k].blocked /\ verdicts[k].status = 200}

LEMMA AttacksAreCalls ==
    ASSUME DInv, program \in {"local_proxy", "github_proxy"},
           NEW k \in 1 .. Len(verdicts)
    PROVE  /\ Calls[k].to = "proxy" /\ Calls[k].expect \in {"allowed", "blocked"}
           /\ is_attack_result(Calls[k].name) <=> Calls[k].expect = "blocked"
<1>1. EvaluationTypeOK /\ Len(verdicts) <= Len(Calls) /\ Len(verdicts) \in Nat
  BY DEF DInv, EInv, EvaluationTypeOK, VerdictInv
<1>2. Len(Calls) \in Nat /\ k \in 1 .. Len(Calls)
  BY <1>1, AttackRunIsSound
<1> QED BY <1>1, <1>2, AttackRunIsSound

LEMMA AnswerOfAttack ==
    ASSUME DInv, program \in {"local_proxy", "github_proxy"},
           NEW k \in 1 .. Len(verdicts)
    PROVE  /\ StepOf(k) \in Requests /\ Calls[k].to = "proxy"
           /\ verdicts[k].status \in Nat /\ verdicts[k].blocked \in BOOLEAN
           /\ verdicts[k].status = 0 => verdicts[k].blocked
           /\ verdicts[k].status # 0 =>
                  /\ verdicts[k].status >= 400 => verdicts[k].blocked
                  /\ Apt(msg[StepOf(k)], verdicts[k].status, outcome[StepOf(k)].stage,
                         Spent(StepOf(k)))
<1>1. /\ EvaluationTypeOK /\ CourseInv /\ VerdictInv /\ Len(verdicts) <= Len(Calls)
      /\ VerdictOn(k) /\ program \in DOMAIN Programs
  BY DEF DInv, EInv, EvaluationTypeOK, VerdictInv
<1>2. Len(Calls) \in Nat /\ Len(verdicts) \in Nat
  BY <1>1, AttackRunIsSound DEF EvaluationTypeOK
<1>3. k \in 1 .. Len(Calls)
  BY <1>1, <1>2
<1>4. StepOf(k) \in Requests /\ Calls[k].to = "proxy"
  BY <1>1, <1>3, StepsHaveRequests, AttackRunIsSound
<1>5. verdicts[k].status \in Nat /\ verdicts[k].blocked \in BOOLEAN
  BY <1>1, VerdictIsTyped
<1>6. /\ verdicts[k].status = 0 => verdicts[k].blocked
      /\ verdicts[k].status # 0 => /\ verdicts[k].status >= 400 => verdicts[k].blocked
                                   /\ OfProxy(verdicts[k].status, Calls[k], StepOf(k))
  BY <1>1, <1>4, Zenon DEF VerdictOn, OnAnswer
<1>7. ASSUME OfProxy(verdicts[k].status, Calls[k], StepOf(k))
      PROVE  Apt(msg[StepOf(k)], verdicts[k].status, outcome[StepOf(k)].stage,
                 Spent(StepOf(k)))
  BY <1>1, <1>4, <1>7 DEF OfProxy, CourseInv, Fits
<1> QED BY <1>4, <1>5, <1>6, <1>7

\* What the report counts as successful was executed.
LEMMA MissedWasExecuted ==
    ASSUME DInv, program \in {"local_proxy", "github_proxy"}
    PROVE  Missed \subseteq Executed("blocked")
<1> SUFFICES ASSUME NEW k \in Missed PROVE k \in Executed("blocked")
  OBVIOUS
<1>1. /\ k \in 1 .. Len(verdicts) /\ ~ verdicts[k].blocked
      /\ Calls[k].expect = "blocked" /\ Calls[k].to = "proxy"
  BY AttacksAreCalls DEF Missed, Attacks
<1>2. /\ verdicts[k].status # 0 /\ ~ (verdicts[k].status >= 400)
      /\ Apt(msg[StepOf(k)], verdicts[k].status, outcome[StepOf(k)].stage,
             Spent(StepOf(k)))
  BY <1>1, AnswerOfAttack
<1>3. outcome[StepOf(k)].stage = "forwarded"
  BY <1>2 DEF Apt
<1> QED BY <1>1, <1>3 DEF Executed

\* What was executed is counted, unless it was given up or answered with an error.
LEMMA ExecutedIsAccountedFor ==
    ASSUME DInv, program \in {"local_proxy", "github_proxy"}
    PROVE  Executed("blocked") \subseteq (Missed \cup GivenUp) \cup WithError
<1> SUFFICES ASSUME NEW k \in Executed("blocked"), k \notin Missed, k \notin WithError
             PROVE  k \in GivenUp
  OBVIOUS
<1>1. /\ k \in 1 .. Len(verdicts) /\ is_attack_result(Calls[k].name)
      /\ outcome[StepOf(k)].stage = "forwarded"
  BY AttacksAreCalls DEF Executed
<1>2. /\ StepOf(k) \in Requests /\ Calls[k].to = "proxy"
      /\ verdicts[k].blocked
      /\ verdicts[k].status # 0 =>
             Apt(msg[StepOf(k)], verdicts[k].status, outcome[StepOf(k)].stage,
                 Spent(StepOf(k)))
  BY <1>1, AnswerOfAttack DEF Missed, Attacks
<1>3. verdicts[k].status = 0
  <2>1. verdicts[k].status # 200
    BY <1>2 DEF WithError
  <2> QED BY <1>1, <1>2, <2>1 DEF Apt
<1>4. pc[StepOf(k)] = "answered"
  BY <1>1, <1>2 DEF DInv, EInv, MInv, RequestInv, PlaceInv
<1> QED BY <1>1, <1>2, <1>3, <1>4 DEF GivenUp

\* A run that is over has all its attacks, and their parts are finite.
LEMMA AttacksAddUp ==
    ASSUME EvaluationTypeOK, program \in {"local_proxy", "github_proxy"},
           Len(verdicts) = Len(Calls)
    PROVE  LET stopped == {k \in Attacks : verdicts[k].blocked}
           IN  /\ Len(verdicts) \in Nat /\ Attacks # {} /\ Attacks \subseteq 1 .. Len(verdicts)
               /\ IsFiniteSet(1 .. Len(verdicts)) /\ IsFiniteSet(Missed)
               /\ Cardinality(1 .. Len(verdicts)) = Len(verdicts)
               /\ Cardinality(Attacks) \in Nat /\ Cardinality(stopped) \in Nat
               /\ Cardinality(Missed) \in Nat
               /\ Cardinality(Attacks) = Cardinality(stopped) + Cardinality(Missed)
<1> DEFINE stopped == {k \in Attacks : verdicts[k].blocked}
<1>1. Len(verdicts) \in Nat /\ Len(verdicts) >= 4 /\ is_attack_result(Calls[3].name)
  <2>1. Len(verdicts) \in Nat /\ Len(verdicts) >= 4 /\ 3 \in 1 .. Len(Calls)
    BY AttackRunIsSound
  <2> QED BY <2>1, AttackRunIsSound
<1>2. 3 \in Attacks /\ Attacks \subseteq 1 .. Len(verdicts)
  BY <1>1 DEF Attacks
<1>3. IsFiniteSet(1 .. Len(verdicts)) /\ Cardinality(1 .. Len(verdicts)) = Len(verdicts)
  <2>1. PICK n \in Int : n = Len(verdicts) /\ n >= 4
    BY <1>1
  <2>2. /\ IsFiniteSet(1 .. n)
        /\ Cardinality(1 .. n) = IF 1 > n THEN 0 ELSE n - 1 + 1
    BY FS_Interval
  <2> QED BY <2>1, <2>2
<1>4. IsFiniteSet(Attacks)
  BY <1>2, <1>3, PartsAddUp
<1>5. stopped \subseteq Attacks /\ Attacks \ stopped = Missed
  BY DEF Missed
<1>6. /\ IsFiniteSet(Missed) /\ Cardinality(Attacks) \in Nat
      /\ Cardinality(stopped) \in Nat /\ Cardinality(Missed) \in Nat
      /\ Cardinality(Attacks) = Cardinality(stopped) + Cardinality(Missed)
  <2> HIDE DEF stopped
  <2> QED BY <1>4, <1>5, PartsAddUp
<1> QED BY <1>1, <1>2, <1>3, <1>6

LEMMA ResultsAreOfCalls ==
    ASSUME EvaluationTypeOK
    PROVE  /\ DOMAIN Results = 1 .. Len(verdicts)
           /\ \A k \in 1 .. Len(verdicts) : /\ Results[k].name = Calls[k].name
                                           /\ Results[k].blocked = verdicts[k].blocked
           /\ {k \in DOMAIN Results : is_attack_result(Results[k].name)} = Attacks
           /\ {k \in Attacks : Results[k].blocked} = {k \in Attacks : verdicts[k].blocked}
<1>1. /\ DOMAIN Results = 1 .. Len(verdicts)
      /\ \A k \in 1 .. Len(verdicts) : /\ Results[k].name = Calls[k].name
                                      /\ Results[k].blocked = verdicts[k].blocked
  BY DEF Results
<1>2. {k \in DOMAIN Results : is_attack_result(Results[k].name)} = Attacks
  BY <1>1 DEF Attacks
<1>3. {k \in Attacks : Results[k].blocked} = {k \in Attacks : verdicts[k].blocked}
  BY <1>1 DEF Attacks
<1> QED BY <1>1, <1>2, <1>3

\* The summary counts the attacks that were missed.
LEMMA SummaryIsOfAttacks ==
    ASSUME EvaluationTypeOK, program \in {"local_proxy", "github_proxy"},
           Len(verdicts) = Len(Calls)
    PROVE  summarize_attacks(Results).succeeded = Cardinality(Missed)
<1> DEFINE stopped == {k \in Attacks : verdicts[k].blocked}
<1>1. summarize_attacks(Results) =
          [total |-> Cardinality(Attacks), blocked |-> Cardinality(stopped),
           succeeded |-> Cardinality(Attacks) - Cardinality(stopped)]
  BY ResultsAreOfCalls, AttacksAddUp DEF summarize_attacks
<1> QED BY <1>1, AttacksAddUp

\* The true negatives are the valid calls of the run that were let through, and those
\* of the benign test.
LEMMA ServedWereExecuted ==
    ASSUME DInv, program \in {"local_proxy", "github_proxy"},
           Len(verdicts) = Len(Calls),
           NEW benign \in [total_calls : {BenignCalls}, failures : 0 .. BenignCalls]
    PROVE  calculate_ml_metrics(Results, benign).tn <=
               Cardinality(Executed("allowed")) + BenignCalls - benign.failures
<1> DEFINE all == 1 .. Len(verdicts)
           stopped == {k \in Attacks : verdicts[k].blocked}
           served == {k \in all \ Attacks : ~ verdicts[k].blocked}
           executed == Executed("allowed")
<1>1. EvaluationTypeOK
  BY DEF DInv, EInv
<1>2. {k \in DOMAIN Results \ Attacks : ~ Results[k].blocked} = served
  BY <1>1, ResultsAreOfCalls
<1>3. calculate_ml_metrics(Results, benign) =
          [tp |-> Cardinality(stopped), fn |-> Cardinality(Attacks) - Cardinality(stopped),
           fp |-> benign.failures,
           tn |-> Cardinality(served) + (benign.total_calls - benign.failures)]
  BY <1>1, <1>2, ResultsAreOfCalls DEF calculate_ml_metrics
<1>4. served \subseteq executed
  <2> SUFFICES ASSUME NEW k \in served PROVE k \in executed
    OBVIOUS
  <2>1. /\ k \in all /\ ~ verdicts[k].blocked
        /\ Calls[k].expect = "allowed" /\ Calls[k].to = "proxy"
    BY AttacksAreCalls DEF Attacks
  <2>2. /\ verdicts[k].status # 0 /\ ~ (verdicts[k].status >= 400)
        /\ Apt(msg[StepOf(k)], verdicts[k].status, outcome[StepOf(k)].stage,
               Spent(StepOf(k)))
    BY <2>1, AnswerOfAttack
  <2>3. outcome[StepOf(k)].stage = "forwarded"
    BY <2>2 DEF Apt
  <2> QED BY <2>1, <2>3 DEF Executed
<1>5. IsFiniteSet(executed)
  <2>1. IsFiniteSet(all) /\ executed \subseteq all
    BY <1>1, AttacksAddUp DEF Executed
  <2> QED BY <2>1, FS_Subset
<1>6. BenignCalls \in Nat /\ benign.failures \in 0 .. BenignCalls
      /\ benign.total_calls = BenignCalls
  BY EvaluationAssumption
<1> HIDE DEF stopped, served, executed
<1>7. /\ Cardinality(served) \in Nat /\ Cardinality(executed) \in Nat
      /\ Cardinality(served) <= Cardinality(executed)
  BY <1>4, <1>5, FS_Subset, FS_CardinalityType
<1>8. calculate_ml_metrics(Results, benign).tn
          = Cardinality(served) + (benign.total_calls - benign.failures)
  BY <1>3
<1>9. calculate_ml_metrics(Results, benign).tn
          <= Cardinality(executed) + BenignCalls - benign.failures
  BY <1>6, <1>7, <1>8
<1> QED BY <1>9 DEF executed

LEMMA ReportIsRight ==
    ASSUME DInv, ReportInv
    PROVE  ReportErrsByFailures
<1> SUFFICES ASSUME program \in {"local_proxy", "github_proxy"}, ended = "finished"
             PROVE  ReportErrsByFailures
  BY DEF ReportErrsByFailures
<1> DEFINE executed == Executed("blocked")
<1>1. EvaluationTypeOK /\ Len(verdicts) = Len(Calls)
  BY DEF DInv, EInv, ReportInv
<1>2. failures \in Nat /\ Cardinality(GivenUp) <= failures
  BY <1>1, EvaluationAssumption DEF EvaluationTypeOK, ReportInv
<1>3. /\ IsFiniteSet(1 .. Len(verdicts)) /\ IsFiniteSet(Missed)
      /\ Cardinality(Missed) \in Nat
  BY <1>1, AttacksAddUp
<1>4. /\ IsFiniteSet(executed) /\ IsFiniteSet(GivenUp) /\ IsFiniteSet(WithError)
      /\ Cardinality(executed) \in Nat /\ Cardinality(GivenUp) \in Nat
      /\ Cardinality(WithError) \in Nat
  <2>1. /\ executed \subseteq 1 .. Len(verdicts) /\ GivenUp \subseteq 1 .. Len(verdicts)
        /\ WithError \subseteq 1 .. Len(verdicts)
    BY DEF Executed, GivenUp, WithError
  <2> QED BY <1>3, <2>1, PartsAddUp
<1>5. Cardinality(Missed) <= Cardinality(executed)
  BY <1>4, MissedWasExecuted, FS_Subset
<1>6. Cardinality(executed) <= Cardinality(Missed) + failures + Cardinality(WithError)
  <2> DEFINE both == Missed \cup GivenUp
  <2>1. IsFiniteSet(both) /\ Cardinality(both) <= Cardinality(Missed) + Cardinality(GivenUp)
    BY <1>3, <1>4, UnionIsNoLarger
  <2>2. /\ IsFiniteSet(both \cup WithError)
        /\ Cardinality(both \cup WithError) <= Cardinality(both) + Cardinality(WithError)
    BY <1>4, <2>1, UnionIsNoLarger
  <2>3. Cardinality(executed) <= Cardinality(both \cup WithError)
    BY <2>2, ExecutedIsAccountedFor, FS_Subset
  <2>4. Cardinality(both) \in Nat /\ Cardinality(both \cup WithError) \in Nat
    BY <2>1, <2>2, FS_CardinalityType
  <2> QED BY <1>2, <1>3, <1>4, <2>1, <2>2, <2>3, <2>4
<1>7. summarize_attacks(Results).succeeded = Cardinality(Missed)
  BY <1>1, SummaryIsOfAttacks
<1> QED BY <1>1, <1>5, <1>6, <1>7, ServedWereExecuted DEF ReportErrsByFailures, WithError

\* What the report makes of a run through the proxy is off by no more than what went
\* wrong in it: every attack it counts as successful was executed, of those
\* executed it misses only as many as had a failure or an answer with an error, and
\* a valid call of the run adds to the true negatives only if it was executed
\* (attack_runner.py:435-473, generate_tables.py:47-80, 115-132).
THEOREM EvaluationReportErrsByFailures == EvaluationSpec => []ReportErrsByFailures
<1>1. EvaluationInit => ReportInv
  <2> SUFFICES ASSUME EvaluationInit PROVE ReportInv
    OBVIOUS
  <2>1. /\ GivenUp = {} /\ failures = 0 /\ ended = "no"
    BY DEF EvaluationInit, GivenUp
  <2> QED BY <2>1, FS_EmptySet DEF ReportInv
<1>2. DInv /\ ReportInv /\ DInv' /\ [EvaluationNext]_evaluationVars => ReportInv'
  BY ReportKeeps
<1>3. EvaluationSpec => []ReportInv
  BY <1>1, <1>2, DefencesHold, PTL DEF EvaluationSpec
<1>4. DInv /\ ReportInv => ReportErrsByFailures
  BY ReportIsRight
<1> QED BY <1>3, <1>4, DefencesHold, PTL
===============================================================================
