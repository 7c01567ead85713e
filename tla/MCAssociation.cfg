\* Two programs, two calls, one statement that fails, on each kind of relation.
CONSTANTS
    o1 = o1
    o2 = o2
    t1 = t1
    t2 = t2
    t3 = t3
    p1 = p1
    p2 = p2
    None = None
    Owners = {o1, o2}
    Targets = {t1, t2, t3}
    Programs = {p1, p2}
    Unsaved = {t3}
    Starts <- MCStarts
    MaxCalls = 2
    MaxFaults = 1
SPECIFICATION Spec
SYMMETRY Symmetry
INVARIANTS TypeOK Exact NeverNeither PreloadBetween
PROPERTY OthersUntouched
