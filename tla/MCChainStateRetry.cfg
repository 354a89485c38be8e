SPECIFICATION Spec
CONSTANTS
    Genesis = "g0"
    Parent <- Tree
    Addr <- Pointers
    BadScripts = {"b3"}
    BadContext = {}
    PeginBlocks = {"c3"}
    MaxCommands = 0
    MaxRestarts = 0
    Null = Null
PROPERTY Converges
