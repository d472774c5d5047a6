CONSTANTS
    FlashLen <- MCFlashLen
    TxtLen <- MCTxtLen
    MaskBits = 2
    CpusPerGroup = 2
    NumGroups = 2
    Msrs <- MCMsrs
    Platforms <- MCPlatforms
    Requests <- MCRequests
    MaxMappings = 2
SPECIFICATION Spec
CHECK_DEADLOCK FALSE
INVARIANTS
    TypeOK
    DeniedMsrNeverRead
    TxtReadOnlyWhenCapable
PROPERTY
    MediatorSpec
