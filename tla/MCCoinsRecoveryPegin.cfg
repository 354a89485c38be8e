SPECIFICATION Spec
CONSTANTS
    Outpoint = {"g", "x", "y"}
    Pegin = {"p"}
    Genesis = "g0"
    Parent <- MCParent
    Txs <- MCTxs
    ConnectGenesisOutputs = FALSE
    MIN_BLOCKS_TO_KEEP = 1
    nPruneAfterHeight = 1
    nMustKeepFullHeaders = 1
    nCheckDepth = 6
    MaxCrashes = 1
    Claimed = Claimed
    Null = Null
INVARIANT ClaimsRecovered
