CONSTANTS
    NoArch = NoArch
    Argvs <- MCArchArgv
    Founds = {TRUE}
    EntryVals = {3}
    Docs <- MCStaleDocs
    Pdbs <- MCCol0
    ImageSizes = {6}
    RelocBlanks = {FALSE}
SPECIFICATION Spec
INVARIANT
    VerdictSound
CHECK_DEADLOCK FALSE
