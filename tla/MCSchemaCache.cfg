\* Two goroutines with three calls between them.
CONSTANTS
    p1 = p1
    p2 = p2
    user = user
    pet = pet
    toy = toy
    userPets = userPets
    tbl = tbl
    NoTable = NoTable
    Procs = {p1, p2}
    Types = {user, pet, toy, userPets}
    JoinTables = {userPets}
    Tables = {tbl}
    Worlds <- AllWorlds
    MaxCalls = 3
SPECIFICATION FairSpec
INVARIANTS TypeOK NoCircularWait OneGoodSchema
PROPERTIES GoodStays CallsReturn
\* The calls are bounded.
CHECK_DEADLOCK FALSE
