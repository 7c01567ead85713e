\* A goroutine and a transaction that share the only connection.
CONSTANTS
    d1 = d1
    d2 = d2
    t1 = t1
    t2 = t2
    c1 = c1
    q1 = q1
    q2 = q2
    None = None
    DbProcs = {d1}
    TxProcs = {t1}
    Closers = {}
    Queries = {q1}
    MaxSize = 0
    MaxConns = 1
    MayExpire = FALSE
    MayFail = FALSE
    StmtIds = {1, 2, 3}
SPECIFICATION FairSpec
CHECK_DEADLOCK FALSE
PROPERTY CallsReturn
