\* Two goroutines, a transaction and a caller of Close on two queries; a store with
\* room for one, whose entries expire.
CONSTANTS
    d1 = d1
    d2 = d2
    t1 = t1
    t2 = t2
    c1 = c1
    q1 = q1
    q2 = q2
    None = None
    DbProcs = {d1, d2}
    TxProcs = {t1}
    Closers = {c1}
    Queries = {q1, q2}
    MaxSize = 1
    MaxConns = 2
    MayExpire = TRUE
    MayFail = TRUE
    StmtIds = {1, 2, 3}
SPECIFICATION Spec
SYMMETRY Symmetry
VIEW View
INVARIANTS TypeOK HandlesUsable
