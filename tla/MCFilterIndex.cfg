SPECIFICATION Spec
CONSTANTS
    g = g
    a1 = a1
    a2 = a2
    b1 = b1
    b2 = b2
    Parent <- MCParent
    Genesis = g
    Started <- MCStarted
    MaxMoves = 3
    MaxRestarts = 1
    MaxFilters = 11
    None = None
CHECK_DEADLOCK FALSE
INVARIANTS TypeOK Findable BestIndexed FatalJustified
PROPERTIES ReadYourTip EventuallySynced
