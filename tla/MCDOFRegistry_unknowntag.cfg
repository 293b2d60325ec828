CONSTANTS
    NSecs = 2
    MaxDepth = 4
    OutIdx <- MCOutIdx
    TableDescs <- MCTableDescs
    GarbageDescs <- MCGarbageDescs
    Idents <- MCIdents
    MissingTypeSets <- MCMissing
SPECIFICATION Spec
INVARIANT
    UnknownTagIsGeneric
CHECK_DEADLOCK FALSE
