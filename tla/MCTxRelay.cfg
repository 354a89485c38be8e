SPECIFICATION Spec
CONSTANTS
    p1 = p1
    p2 = p2
    p3 = p3
    G = G
    P = P
    S = S
    C = C
    D = D
    F = F
    Q = Q
    N = N
    E = E
    Peers = {p1, p2, p3}
    Preferred = {p1}
    WtxidRelay = {p1, p3}
    Buried = {G}
    Hashes <- MCHashes
    LowBits <- MCLowBits
    Txs <- MCTxs
    Txid <- MCTxid
    Wtxid <- MCWtxid
    Inputs <- MCInputs
    Fault <- MCFault
    MAX_PEER_TX_ANNOUNCEMENTS = 2
    MAX_PEER_TX_REQUEST_IN_FLIGHT = 1
    NONPREF_PEER_TX_DELAY = 1
    TXID_RELAY_DELAY = 1
    OVERLOADED_PEER_TX_DELAY = 1
    GETDATA_TX_INTERVAL = 3
    Scenes <- MCScenes
    MaxBack = 1
CHECK_DEADLOCK FALSE
INVARIANTS TypeOK SanityCheck RequestableExact HadIsForgotten NeverHadNotRejected OrphansScheduled
PROPERTIES AskedOnce EventuallyAsked
