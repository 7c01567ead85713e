\* A goroutine and a transaction with a connection each.
CONSTANTS
    d1 = d1
    d2 = d2
    t1 = t1
    t2 = t2
    c1 = c1
    q1 = q1
    q2 = q2
    None = None
    DbProcs = {d1}
    TxProcs = {t1}
    Closers = {}
    Queries = {q1}
    MaxSize = 1
    MaxConns = 2
    MayExpire = FALSE
    MayFail = TRUE
    StmtIds = {1, 2, 3}
SPECIFICATION FairSpec
INVARIANT NoLeak
PROPERTIES CallsReturn EvictedGetClosed
