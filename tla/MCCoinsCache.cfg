SPECIFICATION Spec
CONSTANTS
    Outpoint = {o1}
    Pegin = {p1}
    Coin = {c1, c2}
    Block = {b1, b2}
    Claimed = Claimed
    Null = Null
    NoView = NoView
    NoEntry = NoEntry
INVARIANT EntriesConsistent
PROPERTY ImplementsCoinsView
