CONSTANTS
    NSecs = 2
    OutIdx <- MCOutIdx
    MaxDepth = 4
    TableDescs <- MCTableDescs
    GarbageDescs <- MCGarbageDescs
    Idents <- MCIdents
    MissingTypeSets <- MCMissing
SPECIFICATION Spec
INVARIANTS
    TypeOK
    EntryIsCachedOrInProgress
    CacheClosed
PROPERTIES
    RegistryRefinesAbstract
CHECK_DEADLOCK FALSE
