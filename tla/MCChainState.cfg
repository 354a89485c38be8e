SPECIFICATION Spec
CONSTANTS
    Genesis = "g0"
    Parent <- Tree
    Addr <- Pointers
    BadScripts = {"b2"}
    BadContext = {"c3"}
    PeginBlocks = {"b1"}
    MaxCommands = 1
    MaxRestarts = 1
    Null = Null
INVARIANTS TypeOK ChainValid FlagsConsistent CandidatesComplete NothingForgotten
PROPERTIES ProgressUnlessStalled ConvergesUnlessStalled
