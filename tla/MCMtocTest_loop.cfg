CONSTANTS
    NoArch = NoArch
    Argvs <- MCArchArgv
    Founds = {TRUE}
    EntryVals = {3}
    Docs <- MCGoodDocs
    Pdbs <- MCNoNl
    ImageSizes = {6}
    RelocBlanks = {FALSE}
SPECIFICATION Spec
PROPERTY
    Termination
CHECK_DEADLOCK FALSE
