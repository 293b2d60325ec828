CONSTANTS
    HdrSize = 12
    IdxSize = 4
    MaxSize = 48
    StrTabs <- MCStrTabs
    Records <- MCRecords
    EntSizes = {0, 1, 2}
    MaxPrbSize = 4
    StrTabIds <- MCStrTabIds
    ActStrTabs <- MCActStrTabs
    ActRecords <- MCActRecords
    MaxActSize = 3
    LinkMaxSize = 20
    SecIdx <- MCSecIdx
    SecTypes <- MCSecTypes
    EcbDescs <- MCEcbDescs
    ProbeDescs <- MCProbeDescs
SPECIFICATION Spec
INVARIANTS
    TypeOK
    LinksReadExactly
    ProbesReportedAsDeclared
    ActionsReportedAsResolved
    LinksAggregated
CHECK_DEADLOCK FALSE
