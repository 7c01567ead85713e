\* Two callers at once, three calls of AutoMigrate, two statements that fail or
\* things dropped, on every driver.
CONSTANTS
    c1 = c1
    c2 = c2
    None = None
    Models <- MCModels
    JoinTables <- MCJoinTables
    Columns <- MCColumns
    Fields <- MCFields
    Declared <- MCDeclared
    Uniques <- MCUniques
    Checks <- MCChecks
    Indexes <- MCIndexes
    Databases <- MCDatabases
    Calls <- MCCalls
    Orders <- MCOrders
    Dialects = {"mysql", "postgres", "sqlite", "sqlserver"}
    Callers = {c1, c2}
    MaxCalls = 3
    MaxTrouble = 2
SPECIFICATION Spec
SYMMETRY Symmetry
INVARIANTS TypeOK Complete Converges OneParent
PROPERTY KeepsData
