SPECIFICATION Spec
CONSTANTS
    Settings <- AllSettings
    MaxDepth = 4
    MaxBlocks = 4
    MaxWrites = 3
INVARIANTS TypeOK Atomic NoOpenTx
PROPERTY ImplementsNestedTx
\* The program ends.
CHECK_DEADLOCK FALSE
