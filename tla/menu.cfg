\* Two options in either runtime, over any number of sessions; three polls.
CONSTANTS
    Runtimes = {"uvicorn", "docker"}
    Tries = 3
    MaxOptions = 2
SPECIFICATION Spec
INVARIANTS
    MenuTypeOK
    NothingIsLeftBehind
    RunsAgainstItsServers
    EveryRunStartsFresh
PROPERTIES
    OptionEnds
