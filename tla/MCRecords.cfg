SPECIFICATION Spec
CONSTANTS
    adult = adult
    vip = vip
    Atoms <- MCAtoms
    Rows <- MCRows
    Assigned <- MCAssigned
    Words <- MCWords
    MaxId = 8
    MaxHandles = 3
    MaxCalls = 3
    MaxSent = 2
    MaxOther = 1
    MaxBatch = 2
    Habits = {}
INVARIANTS TypeOK BatchesExact Reported
PROPERTY Faithful
