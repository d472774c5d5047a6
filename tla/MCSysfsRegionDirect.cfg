CONSTANTS
    RegionStart <- MCRegionStart
    RegionSize  <- MCRegionSize
    PageSize    <- MCPageSize
    UserOffsets <- MCDirectOffsets
    UserCounts  <- MCDirectCounts
    CallerClips = FALSE

SPECIFICATION Spec

INVARIANTS
    TypeOK
    ReadInsideRegion
    BufferNotOverrun
