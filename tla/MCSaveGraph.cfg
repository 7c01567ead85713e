\* Nine graphs of up to five objects; a failed call is repeated once.
CONSTANTS
    a = a
    b = b
    c = c
    d = d
    e = e
    x = x
    y = y
    z = z
    Objs = {a, b, c, d, e}
    Cols = {x, y, z}
    Worlds <- AllWorlds
    MaxCalls = 2
SPECIFICATION Spec
INVARIANTS TypeOK AllOrNothing KeysReturned LinksSound OnlyFaultsFail
\* The calls are bounded.
CHECK_DEADLOCK FALSE
