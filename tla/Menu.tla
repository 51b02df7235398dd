---------------------------------- MODULE Menu ----------------------------------
(***************************************************************************)
(* run_menu.sh: a session at the menu, which starts the servers an option  *)
(* needs, waits for them, runs a program of eval/ and stops them, with     *)
(* uvicorn processes or with Docker Compose (docker-compose.yml).          *)
(*                                                                         *)
(* An option is a list of commands, and an action below is a command; the  *)
(* servers start, listen and die by themselves in between, and Ctrl-C may  *)
(* come at any time.  A server has                                         *)
(*   svc     "baseline" (port 8001) or "proxy" (port 8000)                 *)
(*   mode    UPSTREAM_MODE of a proxy, "none" of a baseline server         *)
(*   option  the number of the option that started it                     *)
(*   docker  whether it is a container                                     *)
(*   up      whether it listens on its port yet                            *)
(*   mute    whether it listens and answers nothing                        *)
(*   known   whether its PID is in BASELINE_PID or PROXY_PID, or Compose   *)
(*           knows it                                                      *)
(* compose down, fuser and rm end in || true: each may leave some or all   *)
(* of what it is for, and the script goes on.                              *)
(***************************************************************************)
EXTENDS Integers, Sequences, FiniteSets

CONSTANTS
    Runtimes,     \* a subset of {"uvicorn", "docker"}: what is installed
    Tries,        \* the polls of wait_ready, 15 in the script
    MaxOptions    \* bound on the options chosen

\* The programs of eval/, with the numbers the script gives them.
Suite == INSTANCE Programs WITH
             NoJti <- 0, Fresh <- 1, Warmups <- 3, Measured <- 30,
             BenignCalls <- 100, DirectRepeats <- 8

VARIABLES
    at,          \* "choosing" a runtime, at the "prompt", "running" an option,
                 \* "leaving" (the trap runs) or "exited"
    runtime,     \* RUNTIME_MODE
    hasPat,      \* whether .env, which the session read, sets GITHUB_PAT
    todo,        \* the commands of the option that are left
    option,      \* how many options were chosen, over all sessions
    polls,       \* i of wait_ready
    servers,     \* the server processes
    table,       \* of each runtime, the options whose programs left nonces
    spared       \* history: the runtimes of which the last compose down left a
                 \* container, or the last rm the databases

menuVars == << at, runtime, hasPat, todo, option, polls >>
fileVars == << table, spared >>
vars == << menuVars, servers, fileVars >>

ASSUME MenuAssumption ==
    /\ Runtimes \subseteq {"uvicorn", "docker"} /\ Runtimes # {}
    /\ Tries \in Nat \ {0} /\ MaxOptions \in Nat
-------------------------------------------------------------------------------
Do(what) == [do |-> what]
Start(svc, mode) == [do |-> "start", svc |-> svc, mode |-> mode]
Wait(svc) == [do |-> "wait", svc |-> svc]
Run(mode, name) == [do |-> "run", mode |-> mode, name |-> name]

\* start_baseline, start_proxy_local, start_proxy_github.  A uvicorn process starts
\* with &, and its PID is noted by the next command.
start_baseline == << Start("baseline", "none"), Do("note") >>
start_proxy(mode) == << Start("proxy", mode), Do("note") >>

LocalProxy ==
    << Do("cleanup") >> \o start_baseline \o start_proxy("local")
        \o << Wait("baseline"), Wait("proxy") >>
GithubProxy ==
    << Do("cleanup") >> \o start_proxy("github") \o << Wait("proxy") >>

\* What each option does.
Script ==
    << << Do("cleanup") >> \o start_baseline
           \o << Wait("baseline"), Run("local", "local_direct"), Do("stop") >>,
       LocalProxy \o << Run("local", "local_proxy"), Do("stop") >>,
       << Do("pat"), Run("github", "github_direct") >>,
       << Do("pat") >> \o GithubProxy \o << Run("github", "github_proxy"), Do("stop") >>,
       LocalProxy \o << Run("local", "benign"), Do("stop") >>,
       LocalProxy \o << Run("local", "latency"), Do("stop"), Do("pat or skip") >>
           \o GithubProxy \o << Run("github", "latency"), Do("stop") >>,
       << Do("report") >>,
       << Do("exit") >>,
       << Do("stop"), Do("choose") >> >>
-------------------------------------------------------------------------------
Command(what) ==
    at \in {"running", "leaving"} /\ todo # << >> /\ Head(todo).do = what

\* The next command follows, or the menu, or the end of the script.
GoOn ==
    /\ todo' = Tail(todo)
    /\ at' = IF Tail(todo) # << >> THEN at
             ELSE IF at = "leaving" THEN "exited" ELSE "prompt"
    /\ UNCHANGED << runtime, hasPat, option >>

\* { stop_servers; return; }
StopAndReturn == todo' = << Do("stop") >> /\ UNCHANGED << at, runtime, hasPat, option >>

\* set -e, exit and a signal all end in the trap.
Leave ==
    /\ at' = "leaving" /\ todo' = << Do("stop") >> /\ polls' = 0
    /\ UNCHANGED << runtime, hasPat, option >>

Up(svc) == {s \in servers : s.svc = svc /\ s.up}
Containers == {s \in servers : s.docker}

\* What is left of this runtime is noted in the history.
Spare(of, left) == spared' = IF left = {} THEN spared \ {of} ELSE spared \cup {of}

\* compose down takes the containers, and the files in them.
ComposeDown ==
    \E left \in SUBSET Containers :
        /\ servers' = (servers \ Containers) \cup left
        /\ table' = IF \E s \in left : s.svc = "proxy" THEN table
                    ELSE [table EXCEPT !["docker"] = {}]
        /\ Spare("docker", left)

\* fuser -k ends who listens on a port, a process of a container apart.
FreePorts ==
    \E ended \in SUBSET {s \in servers : s.up /\ ~ s.docker} :
        servers' = servers \ ended

\* rm -f of the databases.
DeleteNonces ==
    \E left \in {{}, table["uvicorn"]} :
        table' = [table EXCEPT !["uvicorn"] = left] /\ Spare("uvicorn", left)

\* Faulty variant: the databases stay.
KeepDatabases ==
    /\ Command("cleanup") /\ GoOn
    /\ IF runtime = "docker" THEN ComposeDown ELSE FreePorts /\ UNCHANGED fileVars
    /\ UNCHANGED polls

\* cleanup_ports.
Cleanup ==
    /\ Command("cleanup") /\ GoOn
    /\ IF runtime = "docker" THEN ComposeDown ELSE FreePorts /\ DeleteNonces
    /\ UNCHANGED polls

\* Faulty variant: only who listens is stopped.
StopByPort ==
    /\ Command("stop") /\ GoOn
    /\ IF runtime = "docker" THEN ComposeDown ELSE FreePorts /\ UNCHANGED fileVars
    /\ UNCHANGED polls

\* The processes whose PID is noted.
Noted == {s \in servers : s.known /\ ~ s.docker}

\* stop_servers: by PID, and wait has no limit for who does not end; then by port.
Stop ==
    /\ Command("stop") /\ GoOn
    /\ IF runtime = "docker" THEN ComposeDown
       ELSE /\ \A s \in Noted : ~ s.mute
            /\ \E ended \in SUBSET {s \in servers : s.up /\ ~ s.docker} :
                  servers' = servers \ (Noted \cup ended)
            /\ UNCHANGED fileVars
    /\ UNCHANGED polls

Server(svc, mode) ==
    [svc |-> svc, mode |-> mode, option |-> option, docker |-> runtime = "docker",
     up |-> FALSE, mute |-> FALSE, known |-> runtime = "docker"]

\* A uvicorn process is on its way.
StartUvicorn ==
    /\ Command("start") /\ runtime = "uvicorn" /\ GoOn
    /\ servers' = servers \cup {Server(Head(todo).svc, Head(todo).mode)}
    /\ UNCHANGED << polls, fileVars >>

\* PID=$!
Note ==
    /\ Command("note") /\ GoOn
    /\ servers' = {[s EXCEPT !.known = s.known \/ s.option = option] : s \in servers}
    /\ UNCHANGED << polls, fileVars >>

\* compose up -d: the proxy depends on mcp_server.  A container that is there stays,
\* unless its mode is another one: then a new one replaces it and its files.  It
\* fails if it cannot have a port, or for reasons of its own, with some of the
\* containers made, and ends the script.
StartContainer ==
    LET mode == [baseline |-> "none", proxy |-> Head(todo).mode]
        svcs == IF Head(todo).svc = "proxy" THEN {"baseline", "proxy"}
                ELSE {Head(todo).svc}
        new == {svc \in svcs :
                   ~ \E s \in Containers : s.svc = svc /\ s.mode = mode[svc]}
    IN  /\ Command("start") /\ runtime = "docker"
        /\ \E made \in SUBSET {svc \in new : Up(svc) \subseteq Containers} :
              /\ servers' = {s \in servers : ~ (s.docker /\ s.svc \in made)}
                               \cup {Server(svc, mode[svc]) : svc \in made}
              /\ table' = IF "proxy" \in made THEN [table EXCEPT !["docker"] = {}]
                          ELSE table
              /\ \/ made = new /\ GoOn /\ UNCHANGED polls
                 \/ Leave
        /\ UNCHANGED spared

Mute(svc) == \E s \in Up(svc) : s.mute

\* Somebody answers on the port, or not yet, or not in the time of so many polls.
\* curl has no limit for who accepts and does not answer.
Polling(tries) ==
    /\ Command("wait") /\ ~ Mute(Head(todo).svc)
    /\ \/ Up(Head(todo).svc) # {} /\ polls' = 0 /\ GoOn
       \/ /\ Up(Head(todo).svc) = {} /\ polls + 1 < tries
          /\ polls' = polls + 1 /\ UNCHANGED << at, runtime, hasPat, todo, option >>
       \/ /\ Up(Head(todo).svc) = {} /\ polls + 1 = tries
          /\ polls' = 0 /\ StopAndReturn
    /\ UNCHANGED << servers, fileVars >>

\* Faulty variants: -le for -lt; i is not counted.
PollOnceMore == Polling(Tries + 1)
PollForever == Command("wait") /\ Up(Head(todo).svc) # {} /\ Polling(Tries)

\* wait_ready.
Poll == Polling(Tries)

\* check_pat || return hands the status 1 of check_pat to the main loop, and set -e
\* ends the script; if check_pat goes on without the rest.
CheckPat ==
    /\ \/ Command("pat") /\ hasPat /\ GoOn /\ UNCHANGED polls
       \/ Command("pat") /\ ~ hasPat /\ Leave
       \/ Command("pat or skip") /\ hasPat /\ GoOn /\ UNCHANGED polls
       \/ /\ Command("pat or skip") /\ ~ hasPat
          /\ todo' = << >> /\ at' = "prompt"
          /\ UNCHANGED << runtime, hasPat, option, polls >>
    /\ UNCHANGED << servers, fileVars >>

Needs == Suite!ProgramsOf(Head(todo).mode)[Head(todo).name].needs

\* run_and_log of a program: what it makes sure of, it does first.  With pipefail
\* and set -e a program that raises ends the script.
RunProgram ==
    /\ Command("run")
    /\ \E end \in Suite!EndsOf(Head(todo).name) :
          /\ end = "finished" =>
                 \A svc \in Needs \cap {"baseline", "proxy"} :
                     Up(svc) # {} /\ ~ Mute(svc)
          /\ IF end = "failed" THEN Leave ELSE GoOn /\ UNCHANGED polls
    /\ table' = IF "proxy" \in Needs
                THEN [table EXCEPT ![runtime] = @ \cup {option}] ELSE table
    /\ UNCHANGED << servers, spared >>

\* generate_tables.py, and cat of what it wrote.
Generate ==
    /\ Command("report")
    /\ (GoOn /\ UNCHANGED polls) \/ Leave
    /\ UNCHANGED << servers, fileVars >>

\* choose_runtime is reached in option 9; exit in option 8.
Switch ==
    /\ \/ /\ Command("choose") /\ at' = "choosing" /\ todo' = << >>
          /\ UNCHANGED << runtime, hasPat, option, polls >>
       \/ Command("exit") /\ Leave
    /\ UNCHANGED << servers, fileVars >>

Commands ==
    \/ Cleanup \/ Stop \/ StartUvicorn \/ Note \/ StartContainer \/ Poll
    \/ CheckPat \/ RunProgram \/ Generate \/ Switch
-------------------------------------------------------------------------------
\* choose_runtime, and the choice of an option.
Choose ==
    /\ at = "choosing" /\ at' = "prompt" /\ runtime' \in Runtimes
    /\ UNCHANGED << hasPat, todo, option, polls, servers, fileVars >>

Select ==
    /\ at = "prompt" /\ option < MaxOptions
    /\ at' = "running" /\ option' = option + 1
    /\ \E n \in DOMAIN Script : todo' = Script[n]
    /\ UNCHANGED << runtime, hasPat, polls, servers, fileVars >>

\* Ctrl-C, or a signal.
Interrupt ==
    /\ at \in {"choosing", "prompt", "running"} /\ Leave
    /\ UNCHANGED << servers, fileVars >>

\* The script is started again: it reads .env, and knows no PID.
NewSession ==
    /\ at = "exited" /\ at' = "choosing" /\ runtime' = "none"
    /\ hasPat' \in BOOLEAN
    /\ servers' = {[s EXCEPT !.known = s.docker] : s \in servers}
    /\ UNCHANGED << todo, option, polls, fileVars >>

\* A server begins to listen, unless its port is taken: then it ends.
Listen(s) ==
    /\ ~ s.up
    /\ IF \E o \in servers \ {s} : o.svc = s.svc /\ (o.up \/ o.docker)
       THEN servers' = servers \ {s}
       ELSE servers' = (servers \ {s}) \cup {[s EXCEPT !.up = TRUE]}
    /\ UNCHANGED << menuVars, fileVars >>

\* A server goes on listening and answers no more.
FallMute(s) ==
    /\ s.up /\ ~ s.mute
    /\ servers' = (servers \ {s}) \cup {[s EXCEPT !.mute = TRUE]}
    /\ UNCHANGED << menuVars, fileVars >>

\* A server dies; Compose starts it again (restart: unless-stopped).
Die(s) ==
    /\ servers' = (servers \ {s}) \cup
                     (IF s.docker THEN {[s EXCEPT !.up = FALSE, !.mute = FALSE]} ELSE {})
    /\ UNCHANGED << menuVars, fileVars >>

Init ==
    /\ at = "choosing" /\ runtime = "none" /\ todo = << >>
    /\ hasPat \in BOOLEAN /\ option = 0 /\ polls = 0
    /\ servers = {} /\ table = [r \in {"uvicorn", "docker"} |-> {}] /\ spared = {}

Next ==
    \/ Commands \/ Choose \/ Select \/ Interrupt \/ NewSession
    \/ \E s \in servers : Listen(s) \/ FallMute(s) \/ Die(s)

\* The script goes on with its commands: its programs end (EvaluationEnds of
\* Evaluation), docker and rm are taken to end, and so does a curl or a wait as soon
\* as the server it is waiting for dies, however often that is (SF).  Nothing is
\* assumed of the servers and of who sits at the menu.
Spec == Init /\ [][Next]_vars /\ SF_vars(Commands)
-------------------------------------------------------------------------------
Options == 0 .. MaxOptions

ServerProcesses ==
    [svc : {"baseline", "proxy"}, mode : {"none", "local", "github"},
     option : Options, docker : BOOLEAN, up : BOOLEAN, mute : BOOLEAN,
     known : BOOLEAN]

\* Types.
MenuTypeOK ==
    /\ at \in {"choosing", "prompt", "running", "leaving", "exited"}
    /\ runtime \in Runtimes \cup {"none"} /\ hasPat \in BOOLEAN
    /\ todo # << >> <=> at \in {"running", "leaving"}
    /\ option \in Options /\ polls \in 0 .. Tries - 1
    /\ servers \subseteq ServerProcesses
    /\ table \in [{"uvicorn", "docker"} -> SUBSET Options]
    /\ spared \subseteq {"uvicorn", "docker"}

\* Nothing the script knows of is left behind: back at the menu, or at its end, no
\* server it started is there, whatever was interrupted, timed out, failed or came
\* up late.  Only a process whose start was interrupted before PID=$! may be, and a
\* container if the last compose down left one, which || true passes over
\* (run_menu.sh:119, 134-136, 148-150, 161-164, 187-204).
NothingIsLeftBehind ==
    at \in {"choosing", "prompt", "exited"} =>
        \A s \in servers : s.known => s.docker /\ "docker" \in spared

\* A program is run against the servers this option started, in the mode it
\* measures and the runtime chosen: a server of an earlier option or session never
\* answers wait_ready in place of a new one.  A process whose PID was never noted
\* can, and a container that the last compose down left
\* (run_menu.sh:117-126, 168-201, 232-344).
RunsAgainstItsServers ==
    Command("run") =>
        \A svc \in Needs \cap {"baseline", "proxy"} : \A s \in Up(svc) :
            \/ ~ s.known
            \/ s.docker /\ "docker" \in spared
            \/ /\ s.option = option /\ s.docker = (runtime = "docker")
               /\ svc = "proxy" => s.mode = Head(todo).mode

\* Every evaluation begins with an empty table of nonces, so that what was sent in
\* an earlier one has no part in its verdicts, although the tokens of that one may
\* be valid still: the files are deleted, or gone with their containers, unless the
\* rm or the compose down before it left them (run_menu.sh:117-126).
EveryRunStartsFresh ==
    Command("run") /\ "proxy" \in Needs =>
        table[runtime] = {} \/ runtime \in spared

\* The script waits without a limit: curl for an answer of a server that accepts and
\* does not answer, wait for the end of a process that does not end.
Blocked ==
    \/ Command("wait") /\ Mute(Head(todo).svc)
    \/ Command("stop") /\ runtime # "docker" /\ \E s \in Noted : s.mute

\* Every option comes back to the menu or ends the script, whatever fails, dies or
\* never listens; only a server that goes on listening and answers nothing can hold
\* it, and then for ever (run_menu.sh:168-185, 187-204).
OptionEnds ==
    at \in {"running", "leaving"} ~>
        (at \in {"choosing", "prompt", "exited"} \/ []Blocked)
===============================================================================
