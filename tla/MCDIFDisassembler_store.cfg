CONSTANTS
    None = None
    Codes <- MCCodes
    IntTabs <- MCLinkedIntTabs
    StrTabs <- MCLinkedStrTabs
    VarTabs <- MCLinkedVarTabs
SPECIFICATION Spec
INVARIANT
    DecodingIsNeverFatal
CHECK_DEADLOCK FALSE
