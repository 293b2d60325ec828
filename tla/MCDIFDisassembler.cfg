CONSTANTS
    None = None
    Codes <- MCCodes
    IntTabs <- MCIntTabs
    StrTabs <- MCStrTabs
    VarTabs <- MCVarTabs
SPECIFICATION Spec
INVARIANTS
    TypeOK
    VarAnnotationIsScoped
CHECK_DEADLOCK FALSE
