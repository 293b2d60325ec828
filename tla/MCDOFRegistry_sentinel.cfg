CONSTANTS
    NSecs = 2
    MaxDepth = 4
    OutIdx <- MCOutIdx
    TableDescs <- MCActTable
    GarbageDescs <- MCGarbageDescs
    Idents <- MCIdents
    MissingTypeSets <- MCMissing
SPECIFICATION Spec
INVARIANT
    NoneSentinelNeverResolved
CHECK_DEADLOCK FALSE
