CONSTANTS
    NSecs = 2
    MaxDepth = 4
    OutIdx <- MCOutIdx
    TableDescs <- MCLeafTable
    GarbageDescs <- MCGarbageDescs
    Idents <- MCBadIdents
    MissingTypeSets <- MCMissing
SPECIFICATION Spec
INVARIANT
    MalformedContainerRejected
CHECK_DEADLOCK FALSE
