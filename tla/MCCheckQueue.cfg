SPECIFICATION Spec
CONSTANTS
    Worker = {w1, w2}
    Master = m
    Check = {c1, c2, c3, c4}
    MayFail = {c1, c2}
    nBatchSize = 2
    None = None
CHECK_DEADLOCK FALSE
INVARIANTS VerdictExact NothingLeft
PROPERTIES WaitReturns StopCompletes
