\* A has-many-to-many of one object that has a primary key and one that has none.
CONSTANTS
    a = a
    b = b
    c = c
    d = d
    e = e
    x = x
    y = y
    z = z
    Objs = {a, b, c, d, e}
    Cols = {x, y, z}
    Worlds <- KeyedWorlds
    MaxCalls = 2
SPECIFICATION Spec
INVARIANTS KeysReturned
\* The calls are bounded.
CHECK_DEADLOCK FALSE
