CONSTANTS
    NoArch = NoArch
    Argvs <- MCArgvs
    Founds = {TRUE, FALSE}
    EntryVals = {1, 2, 3, 4}
    Docs <- MCDocs
    Pdbs <- MCPdbs
    ImageSizes = {5, 6}
    RelocBlanks = {TRUE, FALSE}
SPECIFICATION Spec
INVARIANTS
    TypeOK
    VerdictComplete
PROPERTIES
    Termination
CHECK_DEADLOCK FALSE
