------------------------------- MODULE MenuProofs -------------------------------
(***************************************************************************)
(* The menu, for any number of options and of polls, and whatever is       *)
(* interrupted, times out, fails, dies or comes up late: no server is left *)
(* behind, programs run against the servers of their own option, and with  *)
(* an empty table of nonces; but for what a compose down or an rm left.    *)
(*                                                                         *)
(* What makes this so is the order of the commands.  The invariant says of *)
(* the commands that are left what is ahead in them: a stop, a cleanup, a  *)
(* program that expects a mode.                                            *)
(***************************************************************************)
EXTENDS Menu, SequenceTheorems, TLAPS

Services == {"baseline", "proxy"}

ProgramNames ==
    {"local_direct", "local_proxy", "github_direct", "github_proxy", "benign", "latency"}

CommandRecords ==
    [do : {"cleanup", "note", "stop", "pat", "pat or skip", "report", "exit", "choose"}]
        \cup [do : {"start"}, svc : Services, mode : {"none", "local", "github"}]
        \cup [do : {"wait"}, svc : Services]
        \cup [do : {"run"}, mode : {"local", "github"}, name : ProgramNames]

\* A program that makes sure of a proxy.
IsProxyRun(c) ==
    c.do = "run" /\ "proxy" \in Suite!ProgramsOf(c.mode)[c.name].needs

\* The places of t after b, and those of them before k.
After(t, b) == {k \in 1 .. Len(t) : b < k}
NoneBetween(t, b, k, what) == \A j \in After(t, b) : j < k => t[j].do \notin what

\* A stop comes before the option can come back to the menu.
StopAhead(t, b) ==
    \E k \in After(t, b) :
        t[k].do = "stop" /\ NoneBetween(t, b, k, {"pat or skip", "choose"})

\* The programs before the next stop measure this mode.
ModeAhead(t, b, mode) ==
    \A k \in After(t, b) :
        IsProxyRun(t[k]) /\ NoneBetween(t, b, k, {"stop"}) => t[k].mode = mode

\* A cleanup comes before the next program.
CleanupAhead(t, b) ==
    \A k \in After(t, b) : IsProxyRun(t[k]) => ~ NoneBetween(t, b, k, {"cleanup"})

\* What a command asks of those after place b.
Follows(c, t, b) ==
    /\ c.do \in {"start", "note"} => StopAhead(t, b)
    /\ c.do = "start" => b + 1 \in After(t, b) /\ t[b + 1].do = "note"
    /\ c.do = "start" /\ c.svc = "proxy" => ModeAhead(t, b, c.mode)
    /\ IsProxyRun(c) => CleanupAhead(t, b)

\* The commands of an option, or what is left of them.
Sound(t) ==
    /\ t \in Seq(CommandRecords)
    /\ \A i \in 1 .. Len(t) : Follows(t[i], t, i)
-------------------------------------------------------------------------------
\* One command more at the front.
LEMMA FirstAndRest ==
    ASSUME NEW t \in Seq(CommandRecords), t # << >>
    PROVE  /\ Len(t) \in Nat \ {0} /\ Tail(t) \in Seq(CommandRecords)
           /\ Head(t) = t[1] /\ Head(t) \in CommandRecords
           /\ Len(Tail(t)) = Len(t) - 1
           /\ \A i \in 1 .. Len(t) - 1 : Tail(t)[i] = t[i + 1]
<1>1. Len(t) \in Nat \ {0}
  BY EmptySeq
<1> QED BY <1>1, HeadTailProperties

LEMMA PlacesShift ==
    ASSUME NEW t \in Seq(CommandRecords), t # << >>, NEW b \in Nat
    PROVE  /\ \A k \in After(Tail(t), b) : k + 1 \in After(t, b + 1)
                                         /\ t[k + 1] = Tail(t)[k]
           /\ \A k \in After(t, b + 1) : k - 1 \in After(Tail(t), b)
                                         /\ Tail(t)[k - 1] = t[k]
  BY FirstAndRest DEF After

LEMMA NoneShifts ==
    ASSUME NEW t \in Seq(CommandRecords), t # << >>, NEW b \in Nat,
           NEW k \in After(Tail(t), b), NEW what
    PROVE  NoneBetween(Tail(t), b, k, what) <=> NoneBetween(t, b + 1, k + 1, what)
<1>1. ASSUME NoneBetween(Tail(t), b, k, what), NEW j \in After(t, b + 1), j < k + 1
      PROVE  t[j].do \notin what
  <2>1. j - 1 \in After(Tail(t), b) /\ Tail(t)[j - 1] = t[j] /\ j - 1 < k
    BY <1>1, PlacesShift DEF After
  <2> QED BY <1>1, <2>1 DEF NoneBetween
<1>2. ASSUME NoneBetween(t, b + 1, k + 1, what), NEW j \in After(Tail(t), b), j < k
      PROVE  Tail(t)[j].do \notin what
  <2>1. j + 1 \in After(t, b + 1) /\ t[j + 1] = Tail(t)[j] /\ j + 1 < k + 1
    BY <1>2, PlacesShift DEF After
  <2> QED BY <1>2, <2>1 DEF NoneBetween
<1> QED BY <1>1, <1>2 DEF NoneBetween

LEMMA AheadShifts ==
    ASSUME NEW t \in Seq(CommandRecords), t # << >>, NEW b \in Nat
    PROVE  /\ StopAhead(Tail(t), b) <=> StopAhead(t, b + 1)
           /\ \A mode : ModeAhead(Tail(t), b, mode) <=> ModeAhead(t, b + 1, mode)
           /\ CleanupAhead(Tail(t), b) <=> CleanupAhead(t, b + 1)
<1> DEFINE rest == Tail(t)
           next == b + 1
<1>1. ASSUME NEW k \in After(rest, b)
      PROVE  \E l \in After(t, next) :
                 /\ t[l] = rest[k]
                 /\ \A what : NoneBetween(t, next, l, what) <=> NoneBetween(rest, b, k, what)
  BY PlacesShift, NoneShifts, Zenon
<1>2. ASSUME NEW l \in After(t, next)
      PROVE  \E k \in After(rest, b) :
                 /\ rest[k] = t[l]
                 /\ \A what : NoneBetween(rest, b, k, what) <=> NoneBetween(t, next, l, what)
  <2>1. l - 1 \in After(rest, b) /\ rest[l - 1] = t[l]
    BY PlacesShift
  <2>2. l - 1 + 1 = l
    BY DEF After
  <2>3. \A what : NoneBetween(rest, b, l - 1, what) <=> NoneBetween(t, next, l - 1 + 1, what)
    BY <2>1, NoneShifts, Zenon
  <2> QED BY <2>1, <2>2, <2>3, Zenon
<1> HIDE DEF rest, next
<1>3. StopAhead(rest, b) <=> StopAhead(t, next)
  BY <1>1, <1>2, Zenon DEF StopAhead
<1>4. ASSUME NEW mode PROVE ModeAhead(rest, b, mode) <=> ModeAhead(t, next, mode)
  <2>1. ASSUME ModeAhead(rest, b, mode), NEW l \in After(t, next),
               IsProxyRun(t[l]), NoneBetween(t, next, l, {"stop"})
        PROVE  t[l].mode = mode
    <3>1. PICK k \in After(rest, b) :
              rest[k] = t[l] /\ NoneBetween(rest, b, k, {"stop"})
      BY <1>2, <2>1, Zenon
    <3> QED BY <2>1, <3>1, Zenon DEF ModeAhead
  <2>2. ASSUME ModeAhead(t, next, mode), NEW k \in After(rest, b),
               IsProxyRun(rest[k]), NoneBetween(rest, b, k, {"stop"})
        PROVE  rest[k].mode = mode
    <3>1. PICK l \in After(t, next) :
              t[l] = rest[k] /\ NoneBetween(t, next, l, {"stop"})
      BY <1>1, <2>2, Zenon
    <3> QED BY <2>2, <3>1, Zenon DEF ModeAhead
  <2> QED BY <2>1, <2>2, Zenon DEF ModeAhead
<1>5. CleanupAhead(rest, b) <=> CleanupAhead(t, next)
  BY <1>1, <1>2, Zenon DEF CleanupAhead
<1> QED BY <1>3, <1>4, <1>5 DEF rest, next

\* What the first command does to what is ahead.
LEMMA AheadOfFirst ==
    ASSUME NEW t \in Seq(CommandRecords), t # << >>
    PROVE  /\ StopAhead(t, 0) <=>
                  \/ Head(t).do = "stop"
                  \/ /\ Head(t).do \notin {"pat or skip", "choose"}
                     /\ StopAhead(Tail(t), 0)
           /\ \A mode : ModeAhead(t, 0, mode) <=>
                  /\ IsProxyRun(Head(t)) => Head(t).mode = mode
                  /\ Head(t).do = "stop" \/ ModeAhead(Tail(t), 0, mode)
           /\ CleanupAhead(t, 0) <=>
                  /\ ~ IsProxyRun(Head(t))
                  /\ Head(t).do = "cleanup" \/ CleanupAhead(Tail(t), 0)
<1>1. /\ Head(t) = t[1] /\ 1 \in After(t, 0)
      /\ \A k \in After(t, 0) : k = 1 \/ k \in After(t, 1)
      /\ \A k \in After(t, 1) : k \in After(t, 0)
  BY FirstAndRest DEF After
<1>2. \A what : NoneBetween(t, 0, 1, what)
  BY DEF After, NoneBetween
<1>3. \A what : \A k \in After(t, 1) :
          NoneBetween(t, 0, k, what) <=> t[1].do \notin what /\ NoneBetween(t, 1, k, what)
  BY <1>1 DEF After, NoneBetween
<1>4. /\ StopAhead(Tail(t), 0) <=> StopAhead(t, 1)
      /\ \A mode : ModeAhead(Tail(t), 0, mode) <=> ModeAhead(t, 1, mode)
      /\ CleanupAhead(Tail(t), 0) <=> CleanupAhead(t, 1)
  <2>1. 0 + 1 = 1 /\ 0 \in Nat
    OBVIOUS
  <2> QED BY <2>1, AheadShifts, Zenon
<1>5. StopAhead(t, 0) <=>
          \/ t[1].do = "stop"
          \/ t[1].do \notin {"pat or skip", "choose"} /\ StopAhead(t, 1)
  BY <1>1, <1>2, <1>3, Zenon DEF StopAhead
<1>6. ASSUME NEW mode
      PROVE  ModeAhead(t, 0, mode) <=>
                 /\ IsProxyRun(t[1]) => t[1].mode = mode
                 /\ t[1].do \in {"stop"} \/ ModeAhead(t, 1, mode)
  BY <1>1, <1>2, <1>3, Zenon DEF ModeAhead
<1>7. CleanupAhead(t, 0) <=>
          /\ ~ IsProxyRun(t[1])
          /\ t[1].do \in {"cleanup"} \/ CleanupAhead(t, 1)
  BY <1>1, <1>2, <1>3, Zenon DEF CleanupAhead
<1> QED BY <1>1, <1>4, <1>5, <1>6, <1>7

LEMMA FollowsShifts ==
    ASSUME NEW t \in Seq(CommandRecords), t # << >>, NEW b \in Nat, NEW c
    PROVE  Follows(c, Tail(t), b) <=> Follows(c, t, b + 1)
<1>1. b + 1 \in Nat
  OBVIOUS
<1>2. /\ b + 1 \in After(Tail(t), b) <=> b + 1 + 1 \in After(t, b + 1)
      /\ b + 1 \in After(Tail(t), b) => Tail(t)[b + 1] = t[b + 1 + 1]
  BY FirstAndRest DEF After
<1> QED BY <1>1, <1>2, AheadShifts, Zenon DEF Follows

LEMMA SoundFirst ==
    ASSUME NEW t \in Seq(CommandRecords), t # << >>
    PROVE  Sound(t) <=> Sound(Tail(t)) /\ Follows(Head(t), Tail(t), 0)
<1>1. /\ Tail(t) \in Seq(CommandRecords) /\ Head(t) = t[1]
      /\ Len(t) \in Nat \ {0} /\ Len(Tail(t)) = Len(t) - 1
      /\ \A i \in 1 .. Len(t) - 1 : Tail(t)[i] = t[i + 1]
  BY FirstAndRest
<1>2. ASSUME NEW c PROVE Follows(c, Tail(t), 0) <=> Follows(c, t, 1)
  <2>1. 0 + 1 = 1 /\ 0 \in Nat
    OBVIOUS
  <2> QED BY <2>1, FollowsShifts, Zenon
<1>3. ASSUME NEW i \in 1 .. Len(Tail(t))
      PROVE  Follows(Tail(t)[i], Tail(t), i) <=> Follows(t[i + 1], t, i + 1)
  <2>1. i \in Nat /\ Tail(t)[i] = t[i + 1]
    BY <1>1
  <2> QED BY <2>1, FollowsShifts, Zenon
<1>4. /\ \A i \in 1 .. Len(Tail(t)) : i + 1 \in 1 .. Len(t)
      /\ \A i \in 1 .. Len(t) : i = 1 \/ (i - 1 \in 1 .. Len(Tail(t)) /\ i - 1 + 1 = i)
      /\ 1 \in 1 .. Len(t)
  BY <1>1
<1>5. ASSUME Sound(t) PROVE Sound(Tail(t)) /\ Follows(Head(t), Tail(t), 0)
  BY <1>1, <1>2, <1>3, <1>4, <1>5, Zenon DEF Sound
<1>6. ASSUME Sound(Tail(t)), Follows(Head(t), Tail(t), 0), NEW i \in 1 .. Len(t)
      PROVE  Follows(t[i], t, i)
  <2>1. CASE i = 1
    BY <1>1, <1>2, <1>6, <2>1, Zenon
  <2>2. CASE i # 1
    BY <1>3, <1>4, <1>6, <2>2, Zenon DEF Sound
  <2> QED BY <2>1, <2>2
<1> QED BY <1>5, <1>6 DEF Sound

\* The commands that are left when one is done.
LEMMA StepOn ==
    ASSUME Sound(todo), todo # << >>
    PROVE  /\ Sound(Tail(todo)) /\ Follows(Head(todo), Tail(todo), 0)
           /\ Head(todo) \in CommandRecords
  BY SoundFirst, FirstAndRest DEF Sound
-------------------------------------------------------------------------------
\* The options, from the last command to the first.
LEMMA Prefixed ==
    ASSUME NEW c \in CommandRecords, NEW t \in Seq(CommandRecords)
    PROVE  /\ << c >> \o t \in Seq(CommandRecords) /\ << c >> \o t # << >>
           /\ Head(<< c >> \o t) = c /\ Tail(<< c >> \o t) = t
<1> DEFINE s == << c >> \o t
<1>1. /\ << c >> \in Seq(CommandRecords) /\ Len(<< c >>) = 1 /\ << c >>[1] = c
      /\ Len(t) \in Nat
  OBVIOUS
<1>2. /\ s \in Seq(CommandRecords) /\ Len(s) = 1 + Len(t) /\ s[1] = c
      /\ \A i \in 1 .. Len(t) : s[i + 1] = t[i]
  BY <1>1
<1> HIDE DEF s
<1>3. s # << >>
  BY <1>1, <1>2, EmptySeq
<1>4. /\ Head(s) = s[1] /\ Tail(s) \in Seq(CommandRecords)
      /\ Len(Tail(s)) = Len(t) /\ \A i \in 1 .. Len(t) : Tail(s)[i] = s[i + 1]
  BY <1>1, <1>2, <1>3, FirstAndRest
<1>5. Tail(s) = t
  BY <1>2, <1>4, SeqEqual
<1> QED BY <1>2, <1>3, <1>4, <1>5 DEF s

\* What one command more at the front asks of the rest, and does to it.
LEMMA PrefixedSound ==
    ASSUME NEW c \in CommandRecords, NEW t, Sound(t), Follows(c, t, 0)
    PROVE  Sound(<< c >> \o t)
  BY Prefixed, SoundFirst DEF Sound

LEMMA PrefixedAhead ==
    ASSUME NEW c \in CommandRecords, NEW t, Sound(t)
    PROVE  /\ StopAhead(<< c >> \o t, 0) <=>
                  \/ c.do = "stop"
                  \/ c.do \notin {"pat or skip", "choose"} /\ StopAhead(t, 0)
           /\ \A mode : ModeAhead(<< c >> \o t, 0, mode) <=>
                  /\ IsProxyRun(c) => c.mode = mode
                  /\ c.do = "stop" \/ ModeAhead(t, 0, mode)
           /\ CleanupAhead(<< c >> \o t, 0) <=>
                  /\ ~ IsProxyRun(c)
                  /\ c.do = "cleanup" \/ CleanupAhead(t, 0)
<1>1. /\ << c >> \o t \in Seq(CommandRecords) /\ << c >> \o t # << >>
      /\ Head(<< c >> \o t) = c /\ Tail(<< c >> \o t) = t
  BY Prefixed DEF Sound
<1> DEFINE s == << c >> \o t
<1> HIDE DEF s
<1>2. s \in Seq(CommandRecords) /\ s # << >> /\ Head(s) = c /\ Tail(s) = t
  BY <1>1 DEF s
<1>3. /\ StopAhead(s, 0) <=>
             \/ c.do = "stop"
             \/ c.do \notin {"pat or skip", "choose"} /\ StopAhead(t, 0)
      /\ \A mode : ModeAhead(s, 0, mode) <=>
             /\ IsProxyRun(c) => c.mode = mode
             /\ c.do = "stop" \/ ModeAhead(t, 0, mode)
      /\ CleanupAhead(s, 0) <=>
             /\ ~ IsProxyRun(c)
             /\ c.do = "cleanup" \/ CleanupAhead(t, 0)
  BY <1>2, AheadOfFirst
<1> QED BY <1>3 DEF s

LEMMA CommandsAreCommands ==
    /\ \A what \in {"cleanup", "note", "stop", "pat", "pat or skip", "report",
                    "exit", "choose"} :
           Do(what) \in CommandRecords /\ Do(what).do = what
    /\ \A svc \in Services, mode \in {"none", "local", "github"} :
           /\ Start(svc, mode) \in CommandRecords /\ Start(svc, mode).do = "start"
           /\ Start(svc, mode).svc = svc /\ Start(svc, mode).mode = mode
    /\ \A svc \in Services : Wait(svc) \in CommandRecords /\ Wait(svc).do = "wait"
    /\ \A mode \in {"local", "github"}, name \in ProgramNames :
           /\ Run(mode, name) \in CommandRecords
           /\ Run(mode, name).do = "run" /\ Run(mode, name).mode = mode
  BY DEF CommandRecords, Do, Start, Wait, Run

LEMMA PairIsTwo ==
    ASSUME NEW a \in CommandRecords, NEW b \in CommandRecords
    PROVE  << a, b >> = << a >> \o << b >>
<1>1. /\ << a, b >> \in Seq(CommandRecords) /\ << b >> \in Seq(CommandRecords)
      /\ << a, b >> # << >> /\ Len(<< a, b >>) = 2 /\ << a, b >>[1] = a
      /\ << a, b >>[2] = b
  OBVIOUS
<1>2. /\ << a >> \o << b >> \in Seq(CommandRecords)
      /\ Len(<< a >> \o << b >>) = 2
      /\ (<< a >> \o << b >>)[1] = a /\ (<< a >> \o << b >>)[2] = b
  BY <1>1
<1>3. \A i \in 1 .. 2 : (<< a >> \o << b >>)[i] = << a, b >>[i]
  BY <1>1, <1>2
<1> QED BY <1>1, <1>2, <1>3, SeqEqual, Zenon

LEMMA TripleIsThree ==
    ASSUME NEW a \in CommandRecords, NEW b \in CommandRecords, NEW c \in CommandRecords
    PROVE  << a, b, c >> = << a >> \o << b, c >>
<1>1. /\ << a, b, c >> \in Seq(CommandRecords) /\ << b, c >> \in Seq(CommandRecords)
      /\ Len(<< a, b, c >>) = 3 /\ << a, b, c >>[1] = a
      /\ << a, b, c >>[2] = b /\ << a, b, c >>[3] = c
  OBVIOUS
<1>2. /\ << a >> \o << b, c >> \in Seq(CommandRecords)
      /\ Len(<< a >> \o << b, c >>) = 3
      /\ (<< a >> \o << b, c >>)[1] = a /\ (<< a >> \o << b, c >>)[2] = b
      /\ (<< a >> \o << b, c >>)[3] = c
  BY <1>1
<1>3. \A i \in 1 .. 3 : (<< a >> \o << b, c >>)[i] = << a, b, c >>[i]
  BY <1>1, <1>2
<1> QED BY <1>1, <1>2, <1>3, SeqEqual, Zenon

LEMMA PairInFront ==
    ASSUME NEW a \in CommandRecords, NEW b \in CommandRecords,
           NEW t \in Seq(CommandRecords)
    PROVE  << a, b >> \o t = << a >> \o (<< b >> \o t)
<1>1. << a >> \in Seq(CommandRecords) /\ << b >> \in Seq(CommandRecords)
  OBVIOUS
<1> QED BY <1>1, PairIsTwo, ConcatAssociative

LEMMA SoundAlone ==
    ASSUME NEW c \in CommandRecords, c.do \notin {"start", "note"}
    PROVE  Sound(<< c >>)
<1>1. << c >> \in Seq(CommandRecords) /\ Len(<< c >>) = 1 /\ << c >>[1] = c
  OBVIOUS
<1>2. CleanupAhead(<< c >>, 1)
  BY <1>1 DEF CleanupAhead, After
<1> QED BY <1>1, <1>2 DEF Sound, Follows

\* stop at the end.
LEMMA StopSound ==
    /\ Sound(<< Do("stop") >>) /\ StopAhead(<< Do("stop") >>, 0)
    /\ \A mode : ModeAhead(<< Do("stop") >>, 0, mode)
    /\ CleanupAhead(<< Do("stop") >>, 0) /\ Do("stop").do = "stop"
    /\ << Do("stop") >> # << >> /\ Head(<< Do("stop") >>) = Do("stop")
    /\ Tail(<< Do("stop") >>) = << >>
<1> DEFINE c == Do("stop")
<1>1. c \in CommandRecords /\ c.do = "stop" /\ ~ IsProxyRun(c)
  BY CommandsAreCommands DEF IsProxyRun
<1> HIDE DEF c
<1>2. Sound(<< c >>)
  BY <1>1, SoundAlone
<1>3. Sound(<< >>) /\ CleanupAhead(<< >>, 0)
  BY DEF Sound, CleanupAhead, After
<1>4. << c >> = << c >> \o << >>
  OBVIOUS
<1>5. /\ StopAhead(<< c >>, 0) /\ CleanupAhead(<< c >>, 0)
      /\ \A mode : ModeAhead(<< c >>, 0, mode)
  <2>1. /\ StopAhead(<< c >> \o << >>, 0) /\ CleanupAhead(<< c >> \o << >>, 0)
        /\ \A mode : ModeAhead(<< c >> \o << >>, 0, mode)
    BY <1>1, <1>3, PrefixedAhead
  <2> QED BY <1>4, <2>1
<1>6. << c >> # << >> /\ Head(<< c >>) = c /\ Tail(<< c >>) = << >>
  OBVIOUS
<1> QED BY <1>1, <1>2, <1>5, <1>6 DEF c

\* A program, and the servers are stopped.
LEMMA RunSound ==
    ASSUME NEW mode \in {"local", "github"}, NEW name \in ProgramNames
    PROVE  LET t == << Run(mode, name), Do("stop") >>
           IN  Sound(t) /\ StopAhead(t, 0) /\ ModeAhead(t, 0, mode)
<1> DEFINE c == Run(mode, name)
           u == << Do("stop") >>
<1>1. c \in CommandRecords /\ c.do = "run" /\ c.mode = mode /\ Do("stop") \in CommandRecords
  BY CommandsAreCommands
<1>2. /\ Sound(u) /\ StopAhead(u, 0) /\ CleanupAhead(u, 0) /\ ModeAhead(u, 0, mode)
      /\ Do("stop").do = "stop"
  BY StopSound
<1>3. << c, Do("stop") >> = << c >> \o u
  BY <1>1, PairIsTwo
<1> HIDE DEF c, u
<1>4. Sound(<< c >> \o u)
  BY <1>1, <1>2, PrefixedSound DEF Follows
<1>5. StopAhead(<< c >> \o u, 0) /\ ModeAhead(<< c >> \o u, 0, mode)
  BY <1>1, <1>2, PrefixedAhead
<1> QED BY <1>3, <1>4, <1>5 DEF c, u

\* Two commands that start a server, a stop being ahead.
LEMMA StartSound ==
    ASSUME NEW svc \in Services, NEW mode \in {"none", "local", "github"},
           NEW t, Sound(t), StopAhead(t, 0), svc = "proxy" => ModeAhead(t, 0, mode)
    PROVE  LET u == << Start(svc, mode), Do("note") >> \o t
           IN  /\ Sound(u) /\ StopAhead(u, 0)
               /\ \A m : ModeAhead(t, 0, m) => ModeAhead(u, 0, m)
<1> DEFINE c == Start(svc, mode)
           n == Do("note")
           v == << n >> \o t
<1>1. /\ c \in CommandRecords /\ c.do = "start" /\ c.svc = svc /\ c.mode = mode
      /\ n \in CommandRecords /\ n.do = "note" /\ t \in Seq(CommandRecords)
  BY CommandsAreCommands DEF Sound
<1>2. << c, n >> \o t = << c >> \o v
  BY <1>1, PairInFront
<1> HIDE DEF c, n
<1>3. ~ IsProxyRun(c) /\ ~ IsProxyRun(n)
  BY <1>1 DEF IsProxyRun
<1>4. Sound(v)
  BY <1>1, <1>3, PrefixedSound DEF Follows
<1>5. StopAhead(v, 0) /\ \A m : ModeAhead(t, 0, m) => ModeAhead(v, 0, m)
  BY <1>1, <1>3, PrefixedAhead
<1>6. 1 \in After(v, 0) /\ v[1] = n
  BY <1>1, Prefixed, FirstAndRest DEF After
<1> HIDE DEF v
<1>7. Follows(c, v, 0)
  <2>1. 0 + 1 = 1
    OBVIOUS
  <2> QED BY <1>1, <1>3, <1>5, <1>6, <2>1 DEF Follows
<1>8. Sound(<< c >> \o v)
  BY <1>1, <1>4, <1>7, PrefixedSound
<1>9. /\ StopAhead(<< c >> \o v, 0)
      /\ \A m : ModeAhead(v, 0, m) => ModeAhead(<< c >> \o v, 0, m)
  BY <1>1, <1>3, <1>4, <1>5, PrefixedAhead
<1> QED BY <1>2, <1>5, <1>8, <1>9 DEF c, n

\* A command that only goes before the others.
LEMMA PlainSound ==
    ASSUME NEW c \in CommandRecords, c.do \in {"wait", "cleanup", "stop", "pat"},
           NEW t, Sound(t), StopAhead(t, 0)
    PROVE  LET u == << c >> \o t
           IN  /\ Sound(u) /\ StopAhead(u, 0) /\ u # << >>
               /\ \A m : ModeAhead(t, 0, m) => ModeAhead(u, 0, m)
               /\ c.do = "cleanup" => CleanupAhead(u, 0)
<1>1. ~ IsProxyRun(c)
  BY DEF IsProxyRun
<1>2. Sound(<< c >> \o t)
  BY <1>1, PrefixedSound DEF Follows
<1>3. << c >> \o t # << >>
  BY Prefixed DEF Sound
<1> QED BY <1>1, <1>2, <1>3, PrefixedAhead

\* The provers take Cat where they lose themselves in the axioms of \o.
Cat(s, t) == s \o t

LEMMA CatIsAssociative ==
    \A S : \A p \in Seq(S), q \in Seq(S), r \in Seq(S) :
        Cat(Cat(p, q), r) = Cat(p, Cat(q, r))
  BY ConcatAssociative, Zenon DEF Cat

LEMMA CatIsSequence ==
    \A S : \A p \in Seq(S), q \in Seq(S) : Cat(p, q) \in Seq(S)
  BY ConcatProperties, Zenon DEF Cat

LEMMA FiveInARow ==
    ASSUME NEW S, NEW a \in Seq(S), NEW b \in Seq(S), NEW c \in Seq(S),
           NEW d \in Seq(S), NEW t \in Seq(S)
    PROVE  Cat(Cat(Cat(Cat(a, b), c), d), t) = Cat(a, Cat(b, Cat(c, Cat(d, t))))
<1>1. /\ Cat(a, b) \in Seq(S) /\ Cat(Cat(a, b), c) \in Seq(S)
      /\ Cat(d, t) \in Seq(S) /\ Cat(c, Cat(d, t)) \in Seq(S)
  BY CatIsSequence
<1> QED BY <1>1, CatIsAssociative

LEMMA ProxiesAreCommands ==
    LocalProxy \in Seq(CommandRecords) /\ GithubProxy \in Seq(CommandRecords)
<1>1. /\ << Do("cleanup") >> \in Seq(CommandRecords)
      /\ start_baseline \in Seq(CommandRecords)
      /\ \A mode \in {"local", "github"} : start_proxy(mode) \in Seq(CommandRecords)
      /\ << Wait("baseline"), Wait("proxy") >> \in Seq(CommandRecords)
      /\ << Wait("proxy") >> \in Seq(CommandRecords)
  BY DEF CommandRecords, Do, Wait, Start, Services, start_baseline, start_proxy
<1>2. \A p \in Seq(CommandRecords), q \in Seq(CommandRecords) :
          p \o q \in Seq(CommandRecords)
  BY ConcatProperties
<1> QED BY <1>1, <1>2 DEF LocalProxy, GithubProxy

LEMMA LocalProxySound ==
    ASSUME NEW t, Sound(t), StopAhead(t, 0), ModeAhead(t, 0, "local")
    PROVE  LET u == LocalProxy \o t
           IN  Sound(u) /\ StopAhead(u, 0) /\ CleanupAhead(u, 0) /\ u # << >>
<1> DEFINE cleanup == Do("cleanup")
           waits == << Wait("baseline"), Wait("proxy") >>
           t1 == << Wait("proxy") >> \o t
           t2 == << Wait("baseline") >> \o t1
           t3 == start_proxy("local") \o t2
           t4 == start_baseline \o t3
<1>1. /\ cleanup \in CommandRecords /\ cleanup.do = "cleanup"
      /\ \A svc \in Services : Wait(svc) \in CommandRecords /\ Wait(svc).do = "wait"
      /\ \A svc \in Services, mode \in {"none", "local", "github"} :
             Start(svc, mode) \in CommandRecords
      /\ Do("note") \in CommandRecords
      /\ "baseline" \in Services /\ "proxy" \in Services
  BY CommandsAreCommands DEF Services
<1>2. Sound(t1) /\ StopAhead(t1, 0) /\ ModeAhead(t1, 0, "local")
  BY <1>1, PlainSound
<1>3. Sound(t2) /\ StopAhead(t2, 0) /\ ModeAhead(t2, 0, "local")
  BY <1>1, <1>2, PlainSound
<1> HIDE DEF t1
<1>4. Sound(t3) /\ StopAhead(t3, 0)
  BY <1>1, <1>3, StartSound DEF start_proxy
<1> HIDE DEF t2
<1>5. Sound(t4) /\ StopAhead(t4, 0)
  BY <1>1, <1>4, StartSound DEF start_baseline
<1> HIDE DEF t3
<1>6. LET u == << cleanup >> \o t4
      IN  Sound(u) /\ StopAhead(u, 0) /\ CleanupAhead(u, 0) /\ u # << >>
  BY <1>1, <1>5, PlainSound
<1>7. LocalProxy \o t = << cleanup >> \o t4
  <2> DEFINE first == << cleanup >>
             proxy == start_proxy("local")
  <2>1. /\ first \in Seq(CommandRecords) /\ start_baseline \in Seq(CommandRecords)
        /\ proxy \in Seq(CommandRecords) /\ waits \in Seq(CommandRecords)
        /\ t \in Seq(CommandRecords)
    BY <1>1 DEF start_baseline, start_proxy, Sound
  <2>2. t2 = waits \o t
    <3>1. Wait("baseline") \in CommandRecords /\ Wait("proxy") \in CommandRecords
      BY <1>1
    <3> QED BY <2>1, <3>1, PairInFront, Zenon DEF t1, t2
  <2>3. LocalProxy = Cat(Cat(Cat(first, start_baseline), proxy), waits)
    BY DEF LocalProxy, Cat
  <2> HIDE DEF first, proxy, waits
  <2>4. Cat(LocalProxy, t) = Cat(first, Cat(start_baseline, Cat(proxy, Cat(waits, t))))
    <3>1. Cat(Cat(Cat(Cat(first, start_baseline), proxy), waits), t)
              = Cat(first, Cat(start_baseline, Cat(proxy, Cat(waits, t))))
      BY <2>1, FiveInARow
    <3> QED BY <2>3, <3>1, Zenon
  <2> QED BY <2>2, <2>4 DEF t3, t4, Cat, first, proxy
<1> QED BY <1>6, <1>7

LEMMA GithubProxySound ==
    ASSUME NEW t, Sound(t), StopAhead(t, 0), ModeAhead(t, 0, "github")
    PROVE  LET u == GithubProxy \o t
           IN  Sound(u) /\ StopAhead(u, 0) /\ CleanupAhead(u, 0)
<1> DEFINE cleanup == Do("cleanup")
           wait == << Wait("proxy") >>
           t1 == wait \o t
           t2 == start_proxy("github") \o t1
<1>1. /\ cleanup \in CommandRecords /\ cleanup.do = "cleanup"
      /\ Wait("proxy") \in CommandRecords /\ Wait("proxy").do = "wait"
      /\ Start("proxy", "github") \in CommandRecords /\ Do("note") \in CommandRecords
      /\ "proxy" \in Services
  BY CommandsAreCommands DEF Services
<1>2. Sound(t1) /\ StopAhead(t1, 0) /\ ModeAhead(t1, 0, "github")
  BY <1>1, PlainSound
<1>3. Sound(t2) /\ StopAhead(t2, 0)
  BY <1>1, <1>2, StartSound DEF start_proxy
<1>4. LET u == << cleanup >> \o t2
      IN  Sound(u) /\ StopAhead(u, 0) /\ CleanupAhead(u, 0)
  BY <1>1, <1>3, PlainSound
<1>5. GithubProxy \o t = << cleanup >> \o t2
  <2>1. /\ << cleanup >> \in Seq(CommandRecords)
        /\ start_proxy("github") \in Seq(CommandRecords) /\ wait \in Seq(CommandRecords)
        /\ t \in Seq(CommandRecords)
    BY <1>1 DEF start_proxy, Sound
  <2>2. GithubProxy = (<< cleanup >> \o start_proxy("github")) \o wait
    BY DEF GithubProxy
  <2> HIDE DEF cleanup, wait
  <2>3. << cleanup >> \o start_proxy("github") \in Seq(CommandRecords)
    BY <2>1, ConcatProperties
  <2>4. wait \o t \in Seq(CommandRecords)
    BY <2>1, ConcatProperties
  <2> QED BY <2>1, <2>2, <2>3, <2>4, ConcatAssociative
<1> QED BY <1>4, <1>5

\* Option 1.
LEMMA DirectSound ==
    LET t == << Do("cleanup") >> \o start_baseline
                 \o << Wait("baseline"), Run("local", "local_direct"),
                       Do("stop") >>
    IN  Sound(t) /\ CleanupAhead(t, 0) /\ t # << >>
<1> DEFINE cleanup == Do("cleanup")
           wait == Wait("baseline")
           run == Run("local", "local_direct")
           stop == Do("stop")
           t1 == << wait >> \o << run, stop >>
           t2 == start_baseline \o t1
<1>1. /\ cleanup \in CommandRecords /\ cleanup.do = "cleanup"
      /\ wait \in CommandRecords /\ wait.do = "wait"
      /\ run \in CommandRecords /\ stop \in CommandRecords
      /\ Start("baseline", "none") \in CommandRecords /\ Do("note") \in CommandRecords
      /\ "baseline" \in Services
  BY DEF CommandRecords, Do, Wait, Run, Start, Services, ProgramNames
<1>2. Sound(<< run, stop >>) /\ StopAhead(<< run, stop >>, 0)
  <2>1. "local" \in {"local", "github"} /\ "local_direct" \in ProgramNames
    BY DEF ProgramNames
  <2> QED BY <2>1, RunSound, Zenon
<1> HIDE DEF cleanup, run, stop, wait
<1>3. Sound(t1) /\ StopAhead(t1, 0)
  BY <1>1, <1>2, PlainSound
<1>4. t1 = << wait, run, stop >>
  BY <1>1, TripleIsThree
<1> HIDE DEF t1
<1>5. Sound(t2) /\ StopAhead(t2, 0)
  BY <1>1, <1>3, StartSound DEF start_baseline
<1>6. LET u == << cleanup >> \o t2 IN Sound(u) /\ CleanupAhead(u, 0) /\ u # << >>
  BY <1>1, <1>5, PlainSound
<1>7. (<< cleanup >> \o start_baseline) \o t1 = << cleanup >> \o t2
  <2>1. /\ << cleanup >> \in Seq(CommandRecords) /\ t1 \in Seq(CommandRecords)
        /\ start_baseline \in Seq(CommandRecords)
    BY <1>1, <1>3 DEF start_baseline, Sound
  <2> QED BY <2>1, ConcatAssociative
<1> QED BY <1>4, <1>6, <1>7 DEF cleanup, run, stop, wait

\* Option 4.
LEMMA GithubSound ==
    LET t == << Do("pat") >> \o GithubProxy
                 \o << Run("github", "github_proxy"), Do("stop") >>
    IN  Sound(t) /\ CleanupAhead(t, 0) /\ t # << >>
<1> DEFINE pat == Do("pat")
           end == << Run("github", "github_proxy"), Do("stop") >>
           t1 == GithubProxy \o end
<1>1. pat \in CommandRecords /\ pat.do = "pat" /\ ~ IsProxyRun(pat)
  BY CommandsAreCommands DEF IsProxyRun
<1>2. Sound(end) /\ StopAhead(end, 0) /\ ModeAhead(end, 0, "github")
  <2>1. "github" \in {"local", "github"} /\ "github_proxy" \in ProgramNames
    BY DEF ProgramNames
  <2> QED BY <2>1, RunSound, Zenon
<1> HIDE DEF pat, end
<1>3. Sound(t1) /\ StopAhead(t1, 0) /\ CleanupAhead(t1, 0)
  BY <1>2, GithubProxySound
<1>4. (<< pat >> \o GithubProxy) \o end = << pat >> \o t1
  <2>1. << pat >> \in Seq(CommandRecords) /\ end \in Seq(CommandRecords)
    BY <1>1, <1>2 DEF Sound
  <2>2. GithubProxy \in Seq(CommandRecords)
    BY ProxiesAreCommands
  <2> QED BY <2>1, <2>2, ConcatAssociative
<1> HIDE DEF t1
<1>5. LET u == << pat >> \o t1 IN Sound(u) /\ CleanupAhead(u, 0) /\ u # << >>
  BY <1>1, <1>3, PlainSound, PrefixedAhead
<1> QED BY <1>4, <1>5 DEF pat, end

\* Options 2 and 5, and the end of option 6.
LEMMA LocalSound ==
    ASSUME NEW name \in ProgramNames
    PROVE  LET t == LocalProxy \o << Run("local", name), Do("stop") >>
           IN  Sound(t) /\ CleanupAhead(t, 0) /\ t # << >>
<1> DEFINE end == << Run("local", name), Do("stop") >>
<1>1. Sound(end) /\ StopAhead(end, 0) /\ ModeAhead(end, 0, "local")
  <2>1. "local" \in {"local", "github"}
    OBVIOUS
  <2> QED BY <2>1, RunSound, Zenon
<1> HIDE DEF end
<1>2. LET u == LocalProxy \o end IN Sound(u) /\ CleanupAhead(u, 0) /\ u # << >>
  BY <1>1, LocalProxySound
<1> QED BY <1>2 DEF end

\* Option 3: it measures GitHub itself, and no proxy has to be there.
LEMMA GithubDirectSound ==
    LET t == << Do("pat"), Run("github", "github_direct") >>
    IN  Sound(t) /\ CleanupAhead(t, 0)
<1> DEFINE pat == Do("pat")
           run == Run("github", "github_direct")
<1>1. /\ pat \in CommandRecords /\ pat.do = "pat"
      /\ run \in CommandRecords /\ run.do = "run"
  BY DEF CommandRecords, Do, Run, ProgramNames
<1>2. ~ IsProxyRun(pat) /\ ~ IsProxyRun(run)
  BY <1>1 DEF IsProxyRun, Run, Suite!ProgramsOf, Suite!Program
<1>3. << pat, run >> = << pat >> \o << run >> /\ << run >> = << run >> \o << >>
  BY <1>1, PairIsTwo
<1> HIDE DEF pat, run
<1>4. Sound(<< >>) /\ CleanupAhead(<< >>, 0)
  BY DEF Sound, CleanupAhead, After
<1>5. Sound(<< run >>)
  BY <1>1, SoundAlone
<1>6. CleanupAhead(<< run >>, 0)
  <2>1. CleanupAhead(<< run >> \o << >>, 0)
    BY <1>1, <1>2, <1>4, PrefixedAhead
  <2> QED BY <1>3, <2>1, Zenon
<1>7. Follows(pat, << run >>, 0)
  BY <1>1, <1>2 DEF Follows
<1>8. Sound(<< pat >> \o << run >>)
  BY <1>1, <1>5, <1>7, PrefixedSound
<1>9. CleanupAhead(<< pat >> \o << run >>, 0)
  BY <1>1, <1>2, <1>5, <1>6, PrefixedAhead
<1> QED BY <1>3, <1>8, <1>9 DEF pat, run

\* Option 6, both benchmarks.
LEMMA LatencySound ==
    LET t == LocalProxy \o << Run("local", "latency"), Do("stop"),
                              Do("pat or skip") >>
                 \o GithubProxy
                 \o << Run("github", "latency"), Do("stop") >>
    IN  Sound(t) /\ CleanupAhead(t, 0) /\ t # << >>
<1> DEFINE run == Run("local", "latency")
           stop == Do("stop")
           skip == Do("pat or skip")
           middle == << run, stop, skip >>
           end == << Run("github", "latency"), Do("stop") >>
           t1 == GithubProxy \o end
           t2 == << skip >> \o t1
           t3 == << stop >> \o t2
           t4 == << run >> \o t3
<1>1. /\ run \in CommandRecords /\ run.do = "run" /\ run.mode = "local"
      /\ stop \in CommandRecords /\ stop.do = "stop"
      /\ skip \in CommandRecords /\ skip.do = "pat or skip"
  BY DEF CommandRecords, Do, Run, ProgramNames
<1>2. Sound(end) /\ StopAhead(end, 0) /\ ModeAhead(end, 0, "github")
  <2>1. "github" \in {"local", "github"} /\ "latency" \in ProgramNames
    BY DEF ProgramNames
  <2> QED BY <2>1, RunSound, Zenon
<1> HIDE DEF run, stop, skip, end
<1>3. ~ IsProxyRun(stop) /\ ~ IsProxyRun(skip)
  BY <1>1 DEF IsProxyRun
<1>4. Sound(t1) /\ CleanupAhead(t1, 0)
  BY <1>2, GithubProxySound
<1> HIDE DEF t1
<1>5. Sound(t2) /\ CleanupAhead(t2, 0)
  BY <1>1, <1>3, <1>4, PrefixedSound, PrefixedAhead DEF Follows
<1> HIDE DEF t2
<1>6. /\ Sound(t3) /\ StopAhead(t3, 0) /\ CleanupAhead(t3, 0)
      /\ \A mode : ModeAhead(t3, 0, mode)
  BY <1>1, <1>3, <1>5, PrefixedSound, PrefixedAhead DEF Follows
<1> HIDE DEF t3
<1>7. Sound(t4) /\ StopAhead(t4, 0) /\ ModeAhead(t4, 0, "local")
  BY <1>1, <1>6, PrefixedSound, PrefixedAhead DEF Follows
<1>8. LET u == LocalProxy \o t4 IN Sound(u) /\ CleanupAhead(u, 0) /\ u # << >>
  <2> HIDE DEF t4
  <2> QED BY <1>7, LocalProxySound
<1>9. LocalProxy \o t4 = ((LocalProxy \o middle) \o GithubProxy) \o end
  <2> DEFINE C == CommandRecords
  <2>1. /\ << run >> \in Seq(C) /\ << stop >> \in Seq(C) /\ << skip >> \in Seq(C)
        /\ middle \in Seq(C) /\ end \in Seq(C)
        /\ LocalProxy \in Seq(C) /\ GithubProxy \in Seq(C)
    <3>1. run \in C /\ stop \in C /\ skip \in C
      BY <1>1
    <3>2. end \in Seq(C)
      BY <1>2 DEF Sound
    <3> HIDE DEF C
    <3>3. /\ << run >> \in Seq(C) /\ << stop >> \in Seq(C) /\ << skip >> \in Seq(C)
          /\ << run, stop, skip >> \in Seq(C)
      BY <3>1
    <3> QED BY <3>2, <3>3, ProxiesAreCommands DEF C
  <2>2. middle = Cat(<< run >>, Cat(<< stop >>, << skip >>))
    <3>1. << stop, skip >> = << stop >> \o << skip >>
      BY <1>1, PairIsTwo, Zenon
    <3>2. << run, stop, skip >> = << run >> \o << stop, skip >>
      BY <1>1, TripleIsThree, Zenon
    <3> QED BY <3>1, <3>2, Zenon DEF Cat
  <2>3. t4 = Cat(<< run >>, Cat(<< stop >>, Cat(<< skip >>, Cat(GithubProxy, end))))
    BY DEF Cat, t4, t3, t2, t1
  <2> DEFINE a == << run >>
             b == << stop >>
             c == << skip >>
  <2> HIDE DEF middle, a, b, c, t4, C
  <2>4. /\ a \in Seq(C) /\ b \in Seq(C) /\ c \in Seq(C)
        /\ middle = Cat(a, Cat(b, c))
        /\ t4 = Cat(a, Cat(b, Cat(c, Cat(GithubProxy, end))))
    BY <2>1, <2>2, <2>3 DEF a, b, c
  <2>5. Cat(GithubProxy, end) \in Seq(C) /\ Cat(LocalProxy, middle) \in Seq(C)
    BY <2>1, CatIsSequence
  <2>6. t4 = Cat(middle, Cat(GithubProxy, end))
    <3>1. Cat(b, c) \in Seq(C) /\ Cat(c, Cat(GithubProxy, end)) \in Seq(C)
      BY <2>4, <2>5, CatIsSequence
    <3>2. Cat(Cat(a, Cat(b, c)), Cat(GithubProxy, end))
              = Cat(a, Cat(Cat(b, c), Cat(GithubProxy, end)))
      BY <2>4, <2>5, <3>1, CatIsAssociative
    <3>3. Cat(Cat(b, c), Cat(GithubProxy, end)) = Cat(b, Cat(c, Cat(GithubProxy, end)))
      BY <2>4, <2>5, CatIsAssociative
    <3> QED BY <2>4, <3>2, <3>3, Zenon
  <2>7. Cat(LocalProxy, t4) = Cat(Cat(Cat(LocalProxy, middle), GithubProxy), end)
    <3>1. Cat(Cat(LocalProxy, middle), Cat(GithubProxy, end))
              = Cat(LocalProxy, Cat(middle, Cat(GithubProxy, end)))
      BY <2>1, <2>5, CatIsAssociative
    <3>2. Cat(Cat(Cat(LocalProxy, middle), GithubProxy), end)
              = Cat(Cat(LocalProxy, middle), Cat(GithubProxy, end))
      BY <2>1, <2>5, CatIsAssociative
    <3> QED BY <2>6, <3>1, <3>2, Zenon
  <2> QED BY <2>7 DEF Cat
<1> HIDE DEF t4
<1>10. LET u == ((LocalProxy \o middle) \o GithubProxy) \o end
       IN  Sound(u) /\ CleanupAhead(u, 0) /\ u # << >>
  BY <1>8, <1>9
<1> QED BY <1>10 DEF middle, end, run, stop, skip

\* Options 7 and 8, and 9.
LEMMA ShortSound ==
    /\ \A what \in {"report", "exit"} :
           Sound(<< Do(what) >>) /\ CleanupAhead(<< Do(what) >>, 0)
    /\ Sound(<< Do("stop"), Do("choose") >>)
    /\ CleanupAhead(<< Do("stop"), Do("choose") >>, 0)
<1>1. ASSUME NEW what \in {"report", "exit", "choose"}
      PROVE  Sound(<< Do(what) >>) /\ CleanupAhead(<< Do(what) >>, 0)
  <2>1. Do(what) \in CommandRecords /\ Do(what).do = what
    BY DEF CommandRecords, Do
  <2>2. ~ IsProxyRun(Do(what))
    BY <2>1 DEF IsProxyRun
  <2>3. << Do(what) >>[1] = Do(what) /\ Len(<< Do(what) >>) = 1
    OBVIOUS
  <2>4. CleanupAhead(<< Do(what) >>, 0)
    BY <2>2, <2>3 DEF CleanupAhead, After
  <2> QED BY <2>1, <2>4, SoundAlone
<1> DEFINE stop == Do("stop")
           choose == Do("choose")
<1>2. /\ stop \in CommandRecords /\ stop.do = "stop" /\ choose \in CommandRecords
      /\ Sound(<< choose >>) /\ CleanupAhead(<< choose >>, 0)
  BY <1>1, CommandsAreCommands
<1>3. << stop, choose >> = << stop >> \o << choose >>
  BY <1>2, PairIsTwo
<1> HIDE DEF stop, choose
<1>4. ~ IsProxyRun(stop)
  BY <1>2 DEF IsProxyRun
<1>5. Sound(<< stop >> \o << choose >>) /\ CleanupAhead(<< stop >> \o << choose >>, 0)
  BY <1>2, <1>4, PrefixedSound, PrefixedAhead DEF Follows
<1> QED BY <1>1, <1>3, <1>5 DEF stop, choose

LEMMA ScriptsSound ==
    ASSUME NEW n \in DOMAIN Script
    PROVE  Sound(Script[n]) /\ CleanupAhead(Script[n], 0) /\ Script[n] # << >>
<1> DEFINE Good(t) == Sound(t) /\ CleanupAhead(t, 0) /\ t # << >>
           s1 == << Do("cleanup") >> \o start_baseline
                     \o << Wait("baseline"),
                           Run("local", "local_direct"), Do("stop") >>
           s2 == LocalProxy \o << Run("local", "local_proxy"), Do("stop") >>
           s3 == << Do("pat"), Run("github", "github_direct") >>
           s4 == << Do("pat") >> \o GithubProxy
                     \o << Run("github", "github_proxy"), Do("stop") >>
           s5 == LocalProxy \o << Run("local", "benign"), Do("stop") >>
           s6 == LocalProxy \o << Run("local", "latency"), Do("stop"),
                                  Do("pat or skip") >>
                     \o GithubProxy
                     \o << Run("github", "latency"), Do("stop") >>
           s7 == << Do("report") >>
           s8 == << Do("exit") >>
           s9 == << Do("stop"), Do("choose") >>
<1>1. Script = << s1, s2, s3, s4, s5, s6, s7, s8, s9 >>
  BY DEF Script
<1>2. Good(s1) /\ Good(s3) /\ Good(s4) /\ Good(s6)
  <2>1. s3 # << >>
    OBVIOUS
  <2> QED BY <2>1, DirectSound, GithubDirectSound, GithubSound, LatencySound, Zenon
<1>3. Good(s2) /\ Good(s5)
  <2>1. "local_proxy" \in ProgramNames /\ "benign" \in ProgramNames
    BY DEF ProgramNames
  <2> QED BY <2>1, LocalSound, Zenon
<1>4. Good(s7) /\ Good(s8) /\ Good(s9)
  <2>1. s7 # << >> /\ s8 # << >> /\ s9 # << >>
    OBVIOUS
  <2> HIDE DEF s7, s8, s9
  <2>2. \A what \in {"report", "exit"} :
           Sound(<< Do(what) >>) /\ CleanupAhead(<< Do(what) >>, 0)
    BY ShortSound
  <2>3. Sound(s7) /\ CleanupAhead(s7, 0) /\ Sound(s8) /\ CleanupAhead(s8, 0)
    BY <2>2 DEF s7, s8
  <2> QED BY <2>1, <2>3, ShortSound DEF s9
<1> HIDE DEF s1, s2, s3, s4, s5, s6, s7, s8, s9
<1> QED BY <1>1, <1>2, <1>3, <1>4
-------------------------------------------------------------------------------
\* A container that the last compose down left.
Stray(s) == s.docker /\ "docker" \in spared

\* What holds of a server at any time: what Compose runs is known; what is known
\* belongs to the option that runs and will be stopped; what belongs to the option
\* is known once its PID is noted, and is a proxy of the mode to be measured.
Kept(s) ==
    /\ s.option <= option
    /\ s.docker => s.known
    /\ s.known /\ ~ Stray(s) =>
           /\ at \in {"running", "leaving"} /\ StopAhead(todo, 0)
           /\ s.option = option /\ s.docker = (runtime = "docker")
    /\ at = "running" /\ s.option = option /\ ~ Stray(s) =>
           /\ s.docker = (runtime = "docker")
           /\ s.known \/ Head(todo).do = "note"
           /\ s.svc = "proxy" => ModeAhead(todo, 0, s.mode)

\* What holds of the script.
OnCourse ==
    /\ at \in {"prompt", "running"} => runtime \in Runtimes
    /\ at = "running" => Sound(todo)
    /\ at = "leaving" => todo = << Do("stop") >>

\* The table in use is empty, or will be before a program needs it, unless the last
\* one to empty it left it.
FreshAhead ==
    at = "running" =>
        table[runtime] = {} \/ runtime \in spared \/ CleanupAhead(todo, 0)

MenuInv ==
    /\ MenuTypeOK
    /\ OnCourse
    /\ \A s \in servers : Kept(s)
    /\ FreshAhead

\* The script goes on.
LEMMA Going ==
    ASSUME MenuInv, at \in {"running", "leaving"}, todo # << >>, GoOn
    PROVE  /\ at = "leaving" => Head(todo).do = "stop"
           /\ at = "running" => /\ todo \in Seq(CommandRecords) /\ runtime \in Runtimes
                                /\ Head(todo) \in CommandRecords
                                /\ Follows(Head(todo), Tail(todo), 0)
           /\ at' \in {"prompt", "running", "exited"}
           /\ todo' # << >> <=> at' = "running"
           /\ at' \in {"prompt", "running"} => at = "running"
           /\ OnCourse'
<1>1. CASE at = "leaving"
  <2>1. todo = << Do("stop") >>
    BY <1>1 DEF MenuInv, OnCourse
  <2>2. Head(todo).do = "stop" /\ Tail(todo) = << >>
    BY <2>1, StopSound
  <2> QED BY <1>1, <2>2 DEF GoOn, OnCourse
<1>2. CASE at = "running"
  <2>1. Sound(todo) /\ runtime \in Runtimes
    BY <1>2 DEF MenuInv, OnCourse
  <2>2. /\ Sound(Tail(todo)) /\ Follows(Head(todo), Tail(todo), 0)
        /\ Head(todo) \in CommandRecords /\ todo \in Seq(CommandRecords)
    BY <2>1, StepOn DEF Sound
  <2>3. todo' = Tail(todo) /\ runtime' = runtime
    BY DEF GoOn
  <2>4. Sound(todo')
    BY <2>2, <2>3
  <2> QED BY <1>2, <2>1, <2>2, <2>3, <2>4 DEF GoOn, OnCourse
<1> QED BY <1>1, <1>2

LEMMA GoingServer ==
    ASSUME MenuInv, at \in {"running", "leaving"}, todo # << >>, GoOn,
           Head(todo).do # "stop",
           NEW s \in servers, Head(todo).do = "note" => s.known \/ s.option # option,
           Stray(s) => Stray(s)'
    PROVE  Kept(s)'
<1>1. at = "running" /\ todo \in Seq(CommandRecords)
  BY Going
<1>2. Kept(s) /\ runtime' = runtime /\ option' = option /\ todo' = Tail(todo)
  BY DEF MenuInv, GoOn
<1>3. /\ StopAhead(todo, 0) => StopAhead(todo', 0)
      /\ ModeAhead(todo, 0, s.mode) => ModeAhead(todo', 0, s.mode)
  BY <1>1, <1>2, AheadOfFirst
<1>4. StopAhead(todo', 0) => at' = "running"
  <2>1. ~ StopAhead(<< >>, 0)
    BY DEF StopAhead, After
  <2> QED BY <1>2, <2>1, Going
<1> QED BY <1>1, <1>2, <1>3, <1>4, Going DEF Kept

\* What a compose down left.
LEMMA LeftOver ==
    ASSUME MenuInv, NEW s \in servers, Stray(s)', option' = option
    PROVE  Kept(s)'
<1>1. Kept(s)
  BY DEF MenuInv
<1> QED BY <1>1 DEF Kept, Stray

LEMMA GoingFresh ==
    ASSUME MenuInv, at \in {"running", "leaving"}, todo # << >>, GoOn,
           \/ table'[runtime] = {} \/ runtime \in spared'
           \/ /\ table'[runtime] = table[runtime] /\ spared' = spared
              /\ Head(todo).do # "cleanup"
           \/ IsProxyRun(Head(todo))
    PROVE  FreshAhead'
<1> SUFFICES ASSUME at' = "running"
             PROVE  table'[runtime'] = {} \/ runtime' \in spared' \/ CleanupAhead(todo', 0)
  BY DEF FreshAhead
<1>1. at = "running" /\ todo \in Seq(CommandRecords) /\ Follows(Head(todo), Tail(todo), 0)
  BY Going
<1>2. runtime' = runtime /\ todo' = Tail(todo)
  BY DEF GoOn
<1>3. table[runtime] = {} \/ runtime \in spared \/ CleanupAhead(todo, 0)
  BY <1>1 DEF MenuInv, FreshAhead
<1>4. CASE IsProxyRun(Head(todo))
  BY <1>1, <1>2, <1>4 DEF Follows
<1>5. CASE ~ IsProxyRun(Head(todo)) /\ table'[runtime] # {} /\ runtime \notin spared'
  BY <1>1, <1>2, <1>3, <1>5, AheadOfFirst
<1> QED BY <1>2, <1>4, <1>5

\* The script ends.
LEMMA Leaving ==
    ASSUME MenuInv, Leave, spared' = spared
    PROVE  /\ at' = "leaving" /\ todo' # << >> /\ polls' \in 0 .. Tries - 1
           /\ OnCourse' /\ FreshAhead' /\ \A s \in servers : Kept(s)'
<1>1. /\ at' = "leaving" /\ todo' = << Do("stop") >> /\ polls' = 0
      /\ runtime' = runtime /\ option' = option
  BY DEF Leave
<1>2. todo' # << >> /\ StopAhead(todo', 0)
  BY <1>1, StopSound
<1>3. OnCourse' /\ FreshAhead'
  BY <1>1 DEF OnCourse, FreshAhead
<1>4. ASSUME NEW s \in servers PROVE Kept(s)'
  <2>1. Kept(s)
    BY DEF MenuInv
  <2> QED BY <1>1, <1>2, <2>1 DEF Kept, Stray
<1> QED BY <1>1, <1>2, <1>3, <1>4, MenuAssumption

\* An option gives up.
LEMMA Returning ==
    ASSUME MenuInv, at = "running", Head(todo).do \notin {"stop", "note"}, StopAndReturn,
           servers' = servers, table' = table, spared' = spared
    PROVE  /\ at' = at /\ runtime' = runtime /\ hasPat' = hasPat /\ option' = option
           /\ todo' # << >> /\ OnCourse' /\ FreshAhead' /\ \A s \in servers : Kept(s)'
<1>1. /\ at' = at /\ todo' = << Do("stop") >> /\ runtime' = runtime /\ hasPat' = hasPat
      /\ option' = option
  BY DEF StopAndReturn
<1>2. /\ todo' # << >> /\ StopAhead(todo', 0) /\ \A mode : ModeAhead(todo', 0, mode)
      /\ CleanupAhead(todo', 0) /\ Sound(todo')
  BY <1>1, StopSound
<1>3. OnCourse' /\ FreshAhead'
  BY <1>1, <1>2 DEF OnCourse, FreshAhead, MenuInv
<1>4. ASSUME NEW s \in servers PROVE Kept(s)'
  <2>1. Kept(s)
    BY DEF MenuInv
  <2> QED BY <1>1, <1>2, <2>1 DEF Kept, Stray
<1> QED BY <1>1, <1>2, <1>3, <1>4

\* The types, of the script and of what an action leaves behind.
LEMMA GoingTypes ==
    ASSUME MenuInv, at \in {"running", "leaving"}, todo # << >>, GoOn,
           polls' \in 0 .. Tries - 1, servers' \subseteq ServerProcesses,
           table' \in [{"uvicorn", "docker"} -> SUBSET Options],
           spared' \subseteq {"uvicorn", "docker"}
    PROVE  MenuTypeOK'
<1>1. runtime' = runtime /\ hasPat' = hasPat /\ option' = option
  BY DEF GoOn
<1> QED BY <1>1, Going DEF MenuInv, MenuTypeOK

LEMMA LeavingTypes ==
    ASSUME MenuInv, Leave, servers' \subseteq ServerProcesses,
           table' \in [{"uvicorn", "docker"} -> SUBSET Options], spared' = spared
    PROVE  MenuTypeOK'
<1>1. runtime' = runtime /\ hasPat' = hasPat /\ option' = option
  BY DEF Leave
<1> QED BY <1>1, Leaving DEF MenuInv, MenuTypeOK

LEMMA MenuInit == Init => MenuInv
<1> SUFFICES ASSUME Init PROVE MenuInv
  OBVIOUS
<1>1. MenuTypeOK
  BY MenuAssumption DEF Init, MenuTypeOK, Options
<1> QED BY <1>1 DEF Init, MenuInv, OnCourse, FreshAhead

\* One lemma for each command.
\* What a compose down leaves of containers, and of their files.
LEMMA DownLeaves ==
    ASSUME MenuInv, ComposeDown
    PROVE  /\ servers' \subseteq servers
           /\ \A s \in servers' : s.docker => "docker" \in spared'
           /\ table'["docker"] = {} \/ "docker" \in spared'
           /\ table' \in [{"uvicorn", "docker"} -> SUBSET Options]
           /\ spared' \subseteq {"uvicorn", "docker"}
<1>1. PICK left \in SUBSET Containers :
          /\ servers' = (servers \ Containers) \cup left
          /\ table' = IF \E s \in left : s.svc = "proxy" THEN table
                      ELSE [table EXCEPT !["docker"] = {}]
          /\ spared' = IF left = {} THEN spared \ {"docker"} ELSE spared \cup {"docker"}
  BY DEF ComposeDown, Spare
<1>2. /\ table \in [{"uvicorn", "docker"} -> SUBSET Options]
      /\ spared \subseteq {"uvicorn", "docker"}
  BY DEF MenuInv, MenuTypeOK
<1>3. /\ servers' \subseteq servers
      /\ \A s \in servers' : s.docker => "docker" \in spared'
      /\ spared' \subseteq {"uvicorn", "docker"}
  BY <1>1, <1>2 DEF Containers
<1>4. CASE left = {}
  BY <1>1, <1>2, <1>3, <1>4
<1>5. CASE left # {}
  BY <1>1, <1>2, <1>3, <1>5
<1> QED BY <1>4, <1>5

\* What rm leaves of the databases.
LEMMA RmLeaves ==
    ASSUME MenuInv, DeleteNonces
    PROVE  /\ table'["uvicorn"] = {} \/ "uvicorn" \in spared'
           /\ table' \in [{"uvicorn", "docker"} -> SUBSET Options]
           /\ spared' \subseteq {"uvicorn", "docker"}
           /\ "docker" \in spared => "docker" \in spared'
<1>1. PICK left \in {{}, table["uvicorn"]} :
          /\ table' = [table EXCEPT !["uvicorn"] = left]
          /\ spared' = IF left = {} THEN spared \ {"uvicorn"}
                       ELSE spared \cup {"uvicorn"}
  BY DEF DeleteNonces, Spare
<1>2. /\ table \in [{"uvicorn", "docker"} -> SUBSET Options]
      /\ spared \subseteq {"uvicorn", "docker"}
  BY DEF MenuInv, MenuTypeOK
<1> QED BY <1>1, <1>2

LEMMA CleanupStep == MenuInv /\ Cleanup => MenuInv'
<1> SUFFICES ASSUME MenuInv, Cleanup PROVE MenuInv'
  OBVIOUS
<1>1. /\ at \in {"running", "leaving"} /\ todo # << >> /\ GoOn /\ Head(todo).do = "cleanup"
      /\ polls' = polls
  BY DEF Cleanup, Command
<1>2. /\ at = "running" /\ runtime \in {"uvicorn", "docker"} /\ option' = option
  BY <1>1, Going, MenuAssumption DEF GoOn
<1>3. CASE runtime = "docker"
  <2>1. ComposeDown
    BY <1>3 DEF Cleanup
  <2>2. /\ servers' \subseteq servers
        /\ \A s \in servers' : s.docker => "docker" \in spared'
        /\ table'["docker"] = {} \/ "docker" \in spared'
        /\ table' \in [{"uvicorn", "docker"} -> SUBSET Options]
        /\ spared' \subseteq {"uvicorn", "docker"}
    BY <2>1, DownLeaves
  <2>3. MenuTypeOK'
    BY <1>1, <2>2, GoingTypes DEF MenuInv, MenuTypeOK
  <2>4. ASSUME NEW s \in servers' PROVE Kept(s)'
    <3>1. s \in servers
      BY <2>2
    <3>2. CASE s.docker
      BY <1>2, <2>2, <3>1, <3>2, LeftOver DEF Stray
    <3>3. CASE ~ s.docker
      BY <1>1, <3>1, <3>3, GoingServer DEF Stray
    <3> QED BY <3>2, <3>3
  <2>5. FreshAhead'
    BY <1>1, <1>3, <2>2, GoingFresh
  <2> QED BY <1>1, <2>3, <2>4, <2>5, Going DEF MenuInv
<1>4. CASE runtime = "uvicorn"
  <2>1. FreePorts /\ DeleteNonces
    BY <1>4 DEF Cleanup
  <2>2. /\ table'["uvicorn"] = {} \/ "uvicorn" \in spared'
        /\ table' \in [{"uvicorn", "docker"} -> SUBSET Options]
        /\ spared' \subseteq {"uvicorn", "docker"}
        /\ "docker" \in spared => "docker" \in spared'
    BY <2>1, RmLeaves
  <2>3. servers' \subseteq servers
    BY <2>1 DEF FreePorts
  <2>4. MenuTypeOK'
    BY <1>1, <2>2, <2>3, GoingTypes DEF MenuInv, MenuTypeOK
  <2>5. \A s \in servers' : Kept(s)'
    BY <1>1, <2>2, <2>3, GoingServer DEF Stray
  <2>6. FreshAhead'
    BY <1>1, <1>4, <2>2, GoingFresh
  <2> QED BY <1>1, <2>4, <2>5, <2>6, Going DEF MenuInv
<1> QED BY <1>2, <1>3, <1>4

LEMMA StopStep == MenuInv /\ Stop => MenuInv'
<1> SUFFICES ASSUME MenuInv, Stop PROVE MenuInv'
  OBVIOUS
<1>1. /\ at \in {"running", "leaving"} /\ todo # << >> /\ GoOn /\ Head(todo).do = "stop"
      /\ polls' = polls
  BY DEF Stop, Command
<1>2. /\ option' = option /\ (at' = "running" => at = "running")
      /\ servers \subseteq ServerProcesses
  BY <1>1, Going DEF GoOn, MenuInv, MenuTypeOK
<1>3. CASE runtime = "docker"
  <2>1. ComposeDown
    BY <1>3 DEF Stop
  <2>2. /\ servers' \subseteq servers
        /\ \A s \in servers' : s.docker => "docker" \in spared'
        /\ table'["docker"] = {} \/ "docker" \in spared'
        /\ table' \in [{"uvicorn", "docker"} -> SUBSET Options]
        /\ spared' \subseteq {"uvicorn", "docker"}
    BY <2>1, DownLeaves
  <2>3. MenuTypeOK'
    BY <1>1, <2>2, GoingTypes DEF MenuInv, MenuTypeOK
  <2>4. ASSUME NEW s \in servers' PROVE Kept(s)'
    <3>1. s \in servers /\ Kept(s)
      BY <2>2 DEF MenuInv
    <3>2. CASE s.docker
      BY <1>2, <2>2, <3>1, <3>2, LeftOver DEF Stray
    <3>3. CASE ~ s.docker
      BY <1>1, <1>2, <1>3, <3>1, <3>3 DEF Kept, Stray
    <3> QED BY <3>2, <3>3
  <2>5. FreshAhead'
    BY <1>1, <1>3, <2>2, GoingFresh
  <2> QED BY <1>1, <2>3, <2>4, <2>5, Going DEF MenuInv
<1>4. CASE runtime # "docker"
  <2>1. servers' \subseteq servers \ Noted /\ table' = table /\ spared' = spared
    BY <1>4 DEF Stop, fileVars
  <2>2. MenuTypeOK'
    BY <1>1, <1>2, <2>1, GoingTypes DEF MenuInv, MenuTypeOK
  <2>3. ASSUME NEW s \in servers' PROVE Kept(s)'
    <3>1. s \in servers /\ Kept(s) /\ (s.known => s.docker)
      BY <2>1 DEF MenuInv, Noted
    <3> QED BY <1>1, <1>2, <1>4, <2>1, <3>1 DEF Kept, Stray
  <2>4. FreshAhead'
    BY <1>1, <2>1, GoingFresh
  <2> QED BY <1>1, <2>2, <2>3, <2>4, Going DEF MenuInv
<1> QED BY <1>3, <1>4

\* Any command but stop belongs to an option.
LEMMA OfOption ==
    ASSUME MenuInv, at \in {"running", "leaving"}, Head(todo).do # "stop"
    PROVE  at = "running" /\ todo \in Seq(CommandRecords)
<1>1. at = "leaving" => Head(todo) = Do("stop")
  BY StopSound DEF MenuInv, OnCourse
<1>2. Do("stop").do = "stop"
  BY StopSound
<1> QED BY <1>1, <1>2 DEF MenuInv, OnCourse, Sound

LEMMA NewServer ==
    ASSUME MenuInv, NEW svc \in Services, NEW mode \in {"none", "local", "github"}
    PROVE  /\ Server(svc, mode) \in ServerProcesses
           /\ Server(svc, mode).svc = svc /\ Server(svc, mode).mode = mode
           /\ Server(svc, mode).option = option
           /\ Server(svc, mode).docker = (runtime = "docker")
           /\ Server(svc, mode).known = (runtime = "docker")
<1>1. (runtime = "docker") \in BOOLEAN /\ option \in Options
  BY DEF MenuInv, MenuTypeOK
<1> QED BY <1>1 DEF Server, ServerProcesses, Services

\* What start has begun.
LEMMA StartedServer ==
    ASSUME MenuInv, Command("start"), GoOn,
           NEW svc \in Services, NEW mode \in {"none", "local", "github"},
           svc = "proxy" => Head(todo).svc = "proxy" /\ mode = Head(todo).mode,
           NEW s, s = Server(svc, mode)
    PROVE  Kept(s)'
<1>1. /\ at \in {"running", "leaving"} /\ todo # << >> /\ Head(todo).do = "start"
  BY DEF Command
<1>2. /\ s.svc = svc /\ s.mode = mode /\ s.option = option
      /\ s.docker = (runtime = "docker") /\ s.known = (runtime = "docker")
  BY NewServer
<1>3. /\ runtime' = runtime /\ option' = option /\ todo' = Tail(todo)
  BY DEF GoOn
<1>4. /\ todo \in Seq(CommandRecords) /\ Follows(Head(todo), Tail(todo), 0)
  BY <1>1, Going
<1>5. /\ StopAhead(todo', 0)
      /\ svc = "proxy" => ModeAhead(todo', 0, mode)
      /\ 1 \in After(todo', 0) /\ todo'[1].do = "note"
  <2>1. 0 + 1 = 1
    OBVIOUS
  <2> QED BY <1>1, <1>3, <1>4, <2>1 DEF Follows
<1>6. todo' # << >> /\ Head(todo').do = "note"
  <2>1. todo' # << >>
    BY <1>5 DEF After
  <2>2. todo' \in Seq(CommandRecords)
    BY <1>1, <1>3, <1>4, FirstAndRest
  <2> QED BY <1>5, <2>1, <2>2, FirstAndRest
<1>7. at' = "running" /\ option \in Int
  BY <1>1, <1>6, Going DEF MenuInv, MenuTypeOK, Options
<1> QED BY <1>2, <1>3, <1>5, <1>6, <1>7 DEF Kept, Stray

LEMMA StartsServer ==
    ASSUME MenuInv, Command("start")
    PROVE  Head(todo).svc \in Services /\ Head(todo).mode \in {"none", "local", "github"}
<1>1. at \in {"running", "leaving"} /\ todo # << >> /\ Head(todo).do = "start"
  BY DEF Command
<1>2. at = "running" /\ todo \in Seq(CommandRecords)
  BY <1>1, OfOption
<1>3. Head(todo) \in CommandRecords
  BY <1>1, <1>2, FirstAndRest
<1> QED BY <1>1, <1>3 DEF CommandRecords

\* Servers were added, for others or not.
LEMMA Started ==
    ASSUME MenuInv, Command("start"), GoOn, polls' = polls, spared' = spared,
           table' \in [{"uvicorn", "docker"} -> SUBSET Options],
           table'[runtime] = {} \/ table'[runtime] = table[runtime],
           NEW svcs \in SUBSET Services,
           "proxy" \in svcs => Head(todo).svc = "proxy",
           NEW mode \in [Services -> {"none", "local", "github"}],
           Head(todo).svc = "proxy" => mode["proxy"] = Head(todo).mode,
           servers' \subseteq servers \cup {Server(svc, mode[svc]) : svc \in svcs}
    PROVE  MenuInv'
<1>1. /\ at \in {"running", "leaving"} /\ todo # << >> /\ Head(todo).do = "start"
  BY DEF Command
<1>2. servers' \subseteq ServerProcesses
  BY NewServer DEF MenuInv, MenuTypeOK
<1>3. MenuTypeOK'
  BY <1>1, <1>2, GoingTypes DEF MenuInv, MenuTypeOK
<1>4. ASSUME NEW s \in servers' PROVE Kept(s)'
  <2>1. CASE s \in servers
    BY <1>1, <2>1, GoingServer DEF Stray
  <2>2. ASSUME NEW svc \in svcs, s = Server(svc, mode[svc]) PROVE Kept(s)'
    BY <2>2, StartedServer
  <2> QED BY <2>1, <2>2
<1>5. FreshAhead'
  BY <1>1, GoingFresh
<1> QED BY <1>1, <1>3, <1>4, <1>5, Going DEF MenuInv

\* Containers were made and the script ends.
LEMMA StartedInVain ==
    ASSUME MenuInv, Leave, spared' = spared,
           table' \in [{"uvicorn", "docker"} -> SUBSET Options],
           NEW svcs \in SUBSET Services,
           NEW mode \in [Services -> {"none", "local", "github"}],
           servers' \subseteq servers \cup {Server(svc, mode[svc]) : svc \in svcs}
    PROVE  MenuInv'
<1>1. servers' \subseteq ServerProcesses
  BY NewServer DEF MenuInv, MenuTypeOK
<1>2. MenuTypeOK'
  BY <1>1, LeavingTypes
<1>3. /\ at' = "leaving" /\ StopAhead(todo', 0)
      /\ option' = option /\ runtime' = runtime /\ option \in Int
  BY StopSound DEF Leave, MenuInv, MenuTypeOK, Options
<1>4. ASSUME NEW s \in servers' PROVE Kept(s)'
  <2>1. CASE s \in servers
    BY <2>1, Leaving
  <2>2. ASSUME NEW svc \in svcs, s = Server(svc, mode[svc]) PROVE Kept(s)'
    <3>1. s.option = option /\ s.docker = (runtime = "docker") /\ s.known = s.docker
      BY <2>2, NewServer
    <3> QED BY <1>3, <3>1 DEF Kept, Stray
  <2> QED BY <2>1, <2>2
<1> QED BY <1>2, <1>4, Leaving DEF MenuInv

LEMMA StartUvicornStep == MenuInv /\ StartUvicorn => MenuInv'
<1> SUFFICES ASSUME MenuInv, StartUvicorn PROVE MenuInv'
  OBVIOUS
<1> DEFINE svcs == {Head(todo).svc}
           mode == [svc \in Services |-> Head(todo).mode]
<1>1. /\ Command("start") /\ GoOn /\ polls' = polls /\ table' = table
      /\ spared' = spared
      /\ servers' = servers \cup {Server(Head(todo).svc, Head(todo).mode)}
  BY DEF StartUvicorn, fileVars
<1>2. Head(todo).svc \in Services /\ Head(todo).mode \in {"none", "local", "github"}
  BY <1>1, StartsServer
<1>3. servers' = servers \cup {Server(svc, mode[svc]) : svc \in svcs}
  BY <1>1, <1>2
<1>4. svcs \in SUBSET Services /\ mode \in [Services -> {"none", "local", "github"}]
  BY <1>2
<1>5. /\ "proxy" \in svcs => Head(todo).svc = "proxy"
      /\ Head(todo).svc = "proxy" => mode["proxy"] = Head(todo).mode
  BY DEF Services
<1>6. table' \in [{"uvicorn", "docker"} -> SUBSET Options]
  BY <1>1 DEF MenuInv, MenuTypeOK
<1> HIDE DEF svcs, mode
<1> QED BY <1>1, <1>3, <1>4, <1>5, <1>6, Started

LEMMA NoteStep == MenuInv /\ Note => MenuInv'
<1> SUFFICES ASSUME MenuInv, Note PROVE MenuInv'
  OBVIOUS
<1>1. /\ at \in {"running", "leaving"} /\ todo # << >> /\ GoOn /\ Head(todo).do = "note"
      /\ polls' = polls /\ spared' = spared /\ table' = table
      /\ servers' = {[s EXCEPT !.known = s.known \/ s.option = option] : s \in servers}
  BY DEF Note, Command, fileVars
<1>2. /\ at = "running" /\ todo \in Seq(CommandRecords)
      /\ Follows(Head(todo), Tail(todo), 0)
  BY <1>1, Going
<1>3. /\ todo' = Tail(todo) /\ runtime' = runtime /\ option' = option
  BY <1>1 DEF GoOn
<1>4. StopAhead(todo', 0)
  BY <1>1, <1>2, <1>3 DEF Follows
<1>5. at' = "running"
  <2>1. ~ StopAhead(<< >>, 0)
    BY DEF StopAhead, After
  <2>2. todo' # << >>
    BY <1>4, <2>1
  <2> QED BY <1>1, <2>2, Going
<1>6. ASSUME NEW n \in servers'
      PROVE  n \in ServerProcesses /\ Kept(n)'
  <2>1. PICK s \in servers : n = [s EXCEPT !.known = s.known \/ s.option = option]
    BY <1>1
  <2>2. s \in ServerProcesses /\ Kept(s)
    BY DEF MenuInv, MenuTypeOK
  <2>3. (s.known \/ s.option = option) \in BOOLEAN
    OBVIOUS
  <2>4. /\ n \in ServerProcesses /\ n.svc = s.svc /\ n.mode = s.mode
        /\ n.option = s.option /\ n.docker = s.docker
        /\ n.known <=> s.known \/ s.option = option
    BY <2>1, <2>2, <2>3 DEF ServerProcesses
  <2>5. ModeAhead(todo, 0, s.mode) => ModeAhead(todo', 0, s.mode)
    BY <1>1, <1>2, <1>3, AheadOfFirst
  <2> QED BY <1>1, <1>2, <1>3, <1>4, <1>5, <2>2, <2>4, <2>5 DEF Kept, Stray
<1>7. MenuTypeOK'
  BY <1>1, <1>6, GoingTypes DEF MenuInv, MenuTypeOK
<1> QED BY <1>1, <1>6, <1>7, Going, GoingFresh DEF MenuInv

LEMMA StartContainerStep == MenuInv /\ StartContainer => MenuInv'
<1> SUFFICES ASSUME MenuInv, StartContainer PROVE MenuInv'
  OBVIOUS
<1> DEFINE modeOf == [baseline |-> "none", proxy |-> Head(todo).mode]
           svcs == IF Head(todo).svc = "proxy" THEN {"baseline", "proxy"}
                   ELSE {Head(todo).svc}
<1>1. Command("start") /\ spared' = spared /\ runtime = "docker"
  BY DEF StartContainer
<1>2. Head(todo).svc \in Services /\ Head(todo).mode \in {"none", "local", "github"}
  BY <1>1, StartsServer
<1>3. PICK made \in SUBSET svcs :
          /\ servers' = {s \in servers : ~ (s.docker /\ s.svc \in made)}
                           \cup {Server(svc, modeOf[svc]) : svc \in made}
          /\ table' = IF "proxy" \in made THEN [table EXCEPT !["docker"] = {}] ELSE table
          /\ (GoOn /\ polls' = polls) \/ Leave
  BY DEF StartContainer
<1>4. /\ table' \in [{"uvicorn", "docker"} -> SUBSET Options]
      /\ table'[runtime] = {} \/ table'[runtime] = table[runtime]
  <2>1. table \in [{"uvicorn", "docker"} -> SUBSET Options]
    BY DEF MenuInv, MenuTypeOK
  <2> QED BY <1>1, <1>3, <2>1
<1>5. made \in SUBSET Services /\ ("proxy" \in made => Head(todo).svc = "proxy")
  BY <1>2, <1>3 DEF Services
<1>6. /\ modeOf \in [Services -> {"none", "local", "github"}]
      /\ modeOf["proxy"] = Head(todo).mode
  BY <1>2 DEF Services
<1> HIDE DEF modeOf, svcs
<1>7. servers' \subseteq servers \cup {Server(svc, modeOf[svc]) : svc \in made}
  BY <1>3
<1>8. CASE GoOn /\ polls' = polls
  BY <1>1, <1>4, <1>5, <1>6, <1>7, <1>8, Started
<1>9. CASE Leave
  BY <1>1, <1>4, <1>5, <1>6, <1>7, <1>9, StartedInVain
<1> QED BY <1>3, <1>8, <1>9

\* A command that leaves servers and table alone.
LEMMA GoingOnly ==
    ASSUME MenuInv, at \in {"running", "leaving"}, todo # << >>, GoOn,
           Head(todo).do \notin {"stop", "note", "cleanup"},
           servers' = servers, table' = table, spared' = spared,
           polls' \in 0 .. Tries - 1
    PROVE  MenuInv'
<1>1. MenuTypeOK'
  BY GoingTypes DEF MenuInv, MenuTypeOK
<1>2. \A s \in servers' : Kept(s)'
  BY GoingServer DEF Stray
<1>3. FreshAhead'
  BY GoingFresh
<1> QED BY <1>1, <1>2, <1>3, Going DEF MenuInv

LEMMA LeavingOnly ==
    ASSUME MenuInv, Leave, servers' = servers, spared' = spared,
           table' \in [{"uvicorn", "docker"} -> SUBSET Options]
    PROVE  MenuInv'
  BY Leaving, LeavingTypes DEF MenuInv, MenuTypeOK

LEMMA PollStep == MenuInv /\ Poll => MenuInv'
<1> SUFFICES ASSUME MenuInv, Poll PROVE MenuInv'
  OBVIOUS
<1>1. /\ at \in {"running", "leaving"} /\ todo # << >> /\ Head(todo).do = "wait"
      /\ servers' = servers /\ table' = table /\ spared' = spared
  BY DEF Poll, Polling, Command, fileVars
<1>2. at = "running"
  BY <1>1, OfOption
<1>3. polls \in 0 .. Tries - 1 /\ 0 \in 0 .. Tries - 1 /\ Tries \in Nat
  BY MenuAssumption DEF MenuInv, MenuTypeOK
<1>4. CASE polls' = 0 /\ GoOn
  BY <1>1, <1>3, <1>4, GoingOnly DEF MenuInv, MenuTypeOK
<1>5. CASE /\ polls + 1 < Tries /\ polls' = polls + 1
           /\ UNCHANGED << at, runtime, hasPat, todo, option >>
  <2>1. MenuTypeOK'
    BY <1>1, <1>3, <1>5 DEF MenuInv, MenuTypeOK
  <2>2. \A s \in servers' : Kept(s)'
    BY <1>1, <1>5 DEF MenuInv, Kept, Stray
  <2> QED BY <1>1, <1>5, <2>1, <2>2 DEF MenuInv, OnCourse, FreshAhead
<1>6. CASE polls' = 0 /\ StopAndReturn
  <2>1. MenuTypeOK'
    BY <1>1, <1>2, <1>3, <1>6, Returning DEF MenuInv, MenuTypeOK
  <2> QED BY <1>1, <1>2, <1>6, <2>1, Returning DEF MenuInv
<1> QED BY <1>4, <1>5, <1>6 DEF Poll, Polling

\* A command of an option after which no stop comes finds no server it knows, but
\* for containers that were left.
LEMMA NoneIsKnown ==
    ASSUME MenuInv, at = "running", todo # << >>,
           Head(todo).do \in {"pat or skip", "choose"}, NEW s \in servers
    PROVE  s.known => Stray(s)
<1>1. todo \in Seq(CommandRecords)
  BY OfOption
<1>2. ~ StopAhead(todo, 0)
  BY <1>1, AheadOfFirst
<1> QED BY <1>2 DEF MenuInv, Kept

\* Back at the menu or at the choice of a runtime, with no server that is known.
LEMMA Back ==
    ASSUME MenuInv, at' \in {"choosing", "prompt"}, todo' = << >>, polls' = polls,
           runtime' = runtime, hasPat' = hasPat, option' = option,
           servers' = servers, table' = table, spared' = spared,
           at' = "prompt" => runtime \in Runtimes, \A s \in servers : s.known => Stray(s)
    PROVE  MenuInv'
<1>1. MenuTypeOK'
  BY DEF MenuInv, MenuTypeOK
<1>2. \A s \in servers' : Kept(s)'
  BY DEF MenuInv, Kept, Stray
<1> QED BY <1>1, <1>2 DEF MenuInv, OnCourse, FreshAhead

LEMMA CheckPatStep == MenuInv /\ CheckPat => MenuInv'
<1> SUFFICES ASSUME MenuInv, CheckPat PROVE MenuInv'
  OBVIOUS
<1>1. /\ at \in {"running", "leaving"} /\ todo # << >>
      /\ Head(todo).do \in {"pat", "pat or skip"}
      /\ servers' = servers /\ table' = table /\ spared' = spared
  BY DEF CheckPat, Command, fileVars
<1>2. CASE GoOn /\ polls' = polls
  BY <1>1, <1>2, GoingOnly DEF MenuInv, MenuTypeOK
<1>3. CASE Leave
  BY <1>1, <1>3, LeavingOnly DEF MenuInv, MenuTypeOK
<1>4. CASE /\ Command("pat or skip") /\ todo' = << >> /\ at' = "prompt"
           /\ UNCHANGED << runtime, hasPat, option, polls >>
  <2>1. at = "running" /\ Head(todo).do = "pat or skip"
    BY <1>1, <1>4, OfOption DEF Command
  <2>2. \A s \in servers : s.known => Stray(s)
    BY <1>1, <2>1, NoneIsKnown
  <2>3. runtime \in Runtimes
    BY <2>1 DEF MenuInv, OnCourse
  <2> QED BY <1>1, <1>4, <2>2, <2>3, Back
<1> QED BY <1>2, <1>3, <1>4 DEF CheckPat

LEMMA RunProgramStep == MenuInv /\ RunProgram => MenuInv'
<1> SUFFICES ASSUME MenuInv, RunProgram PROVE MenuInv'
  OBVIOUS
<1>1. /\ at \in {"running", "leaving"} /\ todo # << >> /\ Head(todo).do = "run"
      /\ servers' = servers
  BY DEF RunProgram, Command
<1>2. at = "running" /\ todo \in Seq(CommandRecords)
  BY <1>1, OfOption
<1>3. spared' = spared
  BY DEF RunProgram
<1>4. runtime \in {"uvicorn", "docker"}
  BY <1>2, MenuAssumption DEF MenuInv, OnCourse
<1>5. option \in Options /\ table \in [{"uvicorn", "docker"} -> SUBSET Options]
  BY DEF MenuInv, MenuTypeOK
<1>6. /\ table' \in [{"uvicorn", "docker"} -> SUBSET Options]
      /\ table' = table \/ "proxy" \in Needs
  BY <1>4, <1>5 DEF RunProgram
<1>7. CASE Leave
  BY <1>1, <1>3, <1>6, <1>7, LeavingOnly
<1>8. CASE GoOn /\ polls' = polls
  <2>1. table' = table \/ IsProxyRun(Head(todo))
    BY <1>1, <1>6 DEF IsProxyRun, Needs
  <2>2. MenuTypeOK'
    BY <1>1, <1>3, <1>6, <1>8, GoingTypes DEF MenuInv, MenuTypeOK
  <2>3. \A s \in servers' : Kept(s)'
    BY <1>1, <1>3, <1>8, GoingServer DEF Stray
  <2>4. FreshAhead'
    BY <1>1, <1>3, <1>8, <2>1, GoingFresh
  <2> QED BY <1>1, <1>8, <2>2, <2>3, <2>4, Going DEF MenuInv
<1> QED BY <1>7, <1>8 DEF RunProgram

LEMMA GenerateStep == MenuInv /\ Generate => MenuInv'
<1> SUFFICES ASSUME MenuInv, Generate PROVE MenuInv'
  OBVIOUS
<1>1. /\ at \in {"running", "leaving"} /\ todo # << >> /\ Head(todo).do = "report"
      /\ servers' = servers /\ table' = table /\ spared' = spared
  BY DEF Generate, Command, fileVars
<1>2. CASE GoOn /\ polls' = polls
  BY <1>1, <1>2, GoingOnly DEF MenuInv, MenuTypeOK
<1>3. CASE Leave
  BY <1>1, <1>3, LeavingOnly DEF MenuInv, MenuTypeOK
<1> QED BY <1>2, <1>3 DEF Generate

LEMMA SwitchStep == MenuInv /\ Switch => MenuInv'
<1> SUFFICES ASSUME MenuInv, Switch PROVE MenuInv'
  OBVIOUS
<1>1. /\ at \in {"running", "leaving"} /\ todo # << >>
      /\ Head(todo).do \in {"choose", "exit"}
      /\ servers' = servers /\ table' = table /\ spared' = spared
  BY DEF Switch, Command, fileVars
<1>2. CASE Leave
  BY <1>1, <1>2, LeavingOnly DEF MenuInv, MenuTypeOK
<1>3. CASE /\ Command("choose") /\ at' = "choosing" /\ todo' = << >>
           /\ UNCHANGED << runtime, hasPat, option, polls >>
  <2>1. at = "running" /\ Head(todo).do = "choose"
    BY <1>1, <1>3, OfOption DEF Command
  <2>2. \A s \in servers : s.known => Stray(s)
    BY <1>1, <2>1, NoneIsKnown
  <2> QED BY <1>1, <1>3, <2>2, Back
<1> QED BY <1>2, <1>3 DEF Switch

\* At the menu, at its ends, and of the servers themselves.
LEMMA ChooseStep == MenuInv /\ Choose => MenuInv'
<1> SUFFICES ASSUME MenuInv, Choose PROVE MenuInv'
  OBVIOUS
<1>1. /\ at = "choosing" /\ at' = "prompt" /\ runtime' \in Runtimes
      /\ UNCHANGED << hasPat, todo, option, polls, servers, table, spared >>
  BY DEF Choose, fileVars
<1>2. MenuTypeOK'
  BY <1>1 DEF MenuInv, MenuTypeOK
<1>3. \A s \in servers' : Kept(s)'
  BY <1>1 DEF MenuInv, Kept, Stray
<1> QED BY <1>1, <1>2, <1>3 DEF MenuInv, OnCourse, FreshAhead

LEMMA SelectStep == MenuInv /\ Select => MenuInv'
<1> SUFFICES ASSUME MenuInv, Select PROVE MenuInv'
  OBVIOUS
<1>1. /\ at = "prompt" /\ at' = "running" /\ option < MaxOptions /\ option' = option + 1
      /\ UNCHANGED << runtime, hasPat, polls, servers, table, spared >>
  BY DEF Select, fileVars
<1>2. Sound(todo') /\ CleanupAhead(todo', 0) /\ todo' # << >>
  BY ScriptsSound DEF Select
<1>3. option \in Nat /\ option + 1 \in Options
  BY <1>1, MenuAssumption DEF MenuInv, MenuTypeOK, Options
<1>4. MenuTypeOK'
  BY <1>1, <1>2, <1>3 DEF MenuInv, MenuTypeOK
<1>5. ASSUME NEW s \in servers PROVE Kept(s)'
  <2>1. s.option \in Nat
    BY DEF MenuInv, MenuTypeOK, ServerProcesses, Options
  <2>2. s.option <= option /\ (s.known => Stray(s)) /\ (s.docker => s.known)
    BY <1>1 DEF MenuInv, Kept
  <2> QED BY <1>1, <1>3, <2>1, <2>2 DEF Kept, Stray
<1> QED BY <1>1, <1>2, <1>4, <1>5 DEF MenuInv, OnCourse, FreshAhead

LEMMA InterruptStep == MenuInv /\ Interrupt => MenuInv'
  BY LeavingOnly DEF Interrupt, fileVars, MenuInv, MenuTypeOK

LEMMA NewSessionStep == MenuInv /\ NewSession => MenuInv'
<1> SUFFICES ASSUME MenuInv, NewSession PROVE MenuInv'
  OBVIOUS
<1>1. /\ at = "exited" /\ at' = "choosing" /\ runtime' = "none" /\ hasPat' \in BOOLEAN
      /\ servers' = {[s EXCEPT !.known = s.docker] : s \in servers}
      /\ UNCHANGED << todo, option, polls, table, spared >>
  BY DEF NewSession, fileVars
<1>2. ASSUME NEW n \in servers' PROVE n \in ServerProcesses /\ Kept(n)'
  <2>1. PICK s \in servers : n = [s EXCEPT !.known = s.docker]
    BY <1>1
  <2>2. s \in ServerProcesses /\ Kept(s)
    BY DEF MenuInv, MenuTypeOK
  <2>3. s.docker => Stray(s)
    BY <1>1, <2>2 DEF Kept
  <2>4. /\ n \in ServerProcesses /\ n.option = s.option /\ n.docker = s.docker
        /\ n.known = s.docker
    BY <2>1, <2>2 DEF ServerProcesses
  <2> QED BY <1>1, <2>2, <2>3, <2>4 DEF Kept, Stray
<1>3. MenuTypeOK'
  BY <1>1, <1>2 DEF MenuInv, MenuTypeOK
<1> QED BY <1>1, <1>2, <1>3 DEF MenuInv, OnCourse, FreshAhead

\* Servers come up, fall mute and go: they stay who they are.
LEMMA ServersChange ==
    ASSUME MenuInv, UNCHANGED << menuVars, fileVars >>,
           \A n \in servers' : n \in servers \/
               \E s \in servers, up \in BOOLEAN, mute \in BOOLEAN :
                   n = [s EXCEPT !.up = up, !.mute = mute]
    PROVE  MenuInv'
<1>1. ASSUME NEW n \in servers' PROVE n \in ServerProcesses /\ Kept(n)'
  <2>1. PICK s \in servers :
            n = s \/ \E up \in BOOLEAN, mute \in BOOLEAN :
                        n = [s EXCEPT !.up = up, !.mute = mute]
    OBVIOUS
  <2>2. s \in ServerProcesses /\ Kept(s)
    BY DEF MenuInv, MenuTypeOK
  <2>3. /\ n \in ServerProcesses /\ n.svc = s.svc /\ n.mode = s.mode
        /\ n.option = s.option /\ n.docker = s.docker /\ n.known = s.known
    BY <2>1, <2>2 DEF ServerProcesses
  <2> QED BY <2>2, <2>3 DEF Kept, Stray, menuVars, fileVars
<1>2. MenuTypeOK'
  BY <1>1 DEF MenuInv, MenuTypeOK, menuVars, fileVars
<1> QED BY <1>1, <1>2 DEF MenuInv, OnCourse, FreshAhead, menuVars, fileVars

LEMMA ServerStep ==
    ASSUME MenuInv, NEW s \in servers, Listen(s) \/ FallMute(s) \/ Die(s)
    PROVE  MenuInv'
<1>1. s \in ServerProcesses
  BY DEF MenuInv, MenuTypeOK
<1>2. /\ [s EXCEPT !.up = TRUE] = [s EXCEPT !.up = TRUE, !.mute = s.mute]
      /\ [s EXCEPT !.mute = TRUE] = [s EXCEPT !.up = s.up, !.mute = TRUE]
      /\ s.up \in BOOLEAN /\ s.mute \in BOOLEAN
  BY <1>1 DEF ServerProcesses
<1>3. \A n \in servers' : n \in servers \/
          \E up \in BOOLEAN, mute \in BOOLEAN : n = [s EXCEPT !.up = up, !.mute = mute]
  <2>1. CASE Listen(s)
    BY <1>2, <2>1 DEF Listen
  <2>2. CASE FallMute(s)
    BY <1>2, <2>2 DEF FallMute
  <2>3. CASE Die(s)
    BY <2>3 DEF Die
  <2> QED BY <2>1, <2>2, <2>3
<1>4. UNCHANGED << menuVars, fileVars >>
  BY DEF Listen, FallMute, Die
<1> QED BY <1>3, <1>4, ServersChange

LEMMA StutterStep == MenuInv /\ UNCHANGED vars => MenuInv'
  BY ServersChange DEF vars

LEMMA MenuNext == MenuInv /\ [Next]_vars => MenuInv'
<1> SUFFICES ASSUME MenuInv, [Next]_vars PROVE MenuInv'
  OBVIOUS
<1>1. CASE Commands
  BY <1>1, CleanupStep, StopStep, StartUvicornStep, NoteStep, StartContainerStep, PollStep,
     CheckPatStep, RunProgramStep, GenerateStep, SwitchStep DEF Commands
<1>2. CASE Choose \/ Select \/ Interrupt \/ NewSession
  BY <1>2, ChooseStep, SelectStep, InterruptStep, NewSessionStep
<1>3. CASE \E s \in servers : Listen(s) \/ FallMute(s) \/ Die(s)
  BY <1>3, ServerStep
<1>4. CASE UNCHANGED vars
  BY <1>4, StutterStep
<1> QED BY <1>1, <1>2, <1>3, <1>4 DEF Next

LEMMA MenuInvariant == Spec => []MenuInv
  BY MenuInit, MenuNext, PTL DEF Spec
-------------------------------------------------------------------------------
\* Types (run_menu.sh).
THEOREM MenuTypeCorrect == Spec => []MenuTypeOK
<1>1. MenuInv => MenuTypeOK
  BY DEF MenuInv
<1> QED BY <1>1, MenuInvariant, PTL

\* Back at the menu or at its end, no server the script knows of is there, whatever
\* was interrupted, timed out, failed, died or came up late, but for containers if the
\* last compose down left one (run_menu.sh:119, 134-136, 148-150, 161-164, 187-204).
THEOREM MenuLeavesNothing == Spec => []NothingIsLeftBehind
<1>1. MenuInv => NothingIsLeftBehind
  BY DEF MenuInv, Kept, Stray, NothingIsLeftBehind
<1> QED BY <1>1, MenuInvariant, PTL

\* A program is run against the servers this option started, in the mode it measures
\* and the runtime chosen, or against a container that the last compose down left
\* (run_menu.sh:117-126, 168-201, 232-344).
THEOREM MenuRunsOwnServers == Spec => []RunsAgainstItsServers
<1>1. MenuInv => RunsAgainstItsServers
  <2> SUFFICES ASSUME MenuInv, Command("run"),
                      NEW svc \in Needs \cap {"baseline", "proxy"}, NEW s \in Up(svc),
                      s.known, ~ Stray(s)
               PROVE  /\ s.option = option /\ s.docker = (runtime = "docker")
                      /\ svc = "proxy" => s.mode = Head(todo).mode
    BY DEF RunsAgainstItsServers, Stray
  <2>1. at \in {"running", "leaving"} /\ todo # << >> /\ Head(todo).do = "run"
    BY DEF Command
  <2>2. at = "running" /\ todo \in Seq(CommandRecords)
    BY <2>1, OfOption
  <2>3. s \in servers /\ s.svc = svc /\ Kept(s)
    BY DEF Up, MenuInv
  <2>4. s.option = option /\ s.docker = (runtime = "docker")
    BY <2>3 DEF Kept
  <2>5. ASSUME svc = "proxy" PROVE s.mode = Head(todo).mode
    <3>1. ModeAhead(todo, 0, s.mode)
      BY <2>2, <2>3, <2>4, <2>5 DEF Kept
    <3>2. IsProxyRun(Head(todo))
      BY <2>1, <2>5 DEF IsProxyRun, Needs
    <3> QED BY <2>1, <2>2, <3>1, <3>2, AheadOfFirst
  <2> QED BY <2>4, <2>5
<1> QED BY <1>1, MenuInvariant, PTL

\* Every evaluation begins with an empty table of nonces, unless the rm or the compose
\* down before it left it (run_menu.sh:117-126).
THEOREM MenuRunsFresh == Spec => []EveryRunStartsFresh
<1>1. MenuInv => EveryRunStartsFresh
  <2> SUFFICES ASSUME MenuInv, Command("run"), "proxy" \in Needs
               PROVE  table[runtime] = {} \/ runtime \in spared
    BY DEF EveryRunStartsFresh
  <2>1. at \in {"running", "leaving"} /\ todo # << >> /\ Head(todo).do = "run"
    BY DEF Command
  <2>2. at = "running" /\ todo \in Seq(CommandRecords)
    BY <2>1, OfOption
  <2>3. IsProxyRun(Head(todo))
    BY <2>1 DEF IsProxyRun, Needs
  <2>4. ~ CleanupAhead(todo, 0)
    BY <2>1, <2>2, <2>3, AheadOfFirst
  <2> QED BY <2>2, <2>4 DEF MenuInv, FreshAhead
<1> QED BY <1>1, MenuInvariant, PTL

===============================================================================
