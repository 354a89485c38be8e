SPECIFICATION Spec
CONSTANTS
    Outpoint = {"g", "x", "y"}
    Pegin = {"p"}
    Genesis = "g0"
    Parent <- MCParent
    Txs <- MCTxs
    ConnectGenesisOutputs = TRUE
    MIN_BLOCKS_TO_KEEP = 1
    nPruneAfterHeight = 1
    nMustKeepFullHeaders = 1
    nCheckDepth = 6
    MaxCrashes = 2
    Claimed = Claimed
    Null = Null
INVARIANTS CoinsRecovered StartSucceeds HeadersKept TipDisconnects
