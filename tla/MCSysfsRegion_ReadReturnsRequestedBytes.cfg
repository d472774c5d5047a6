CONSTANTS
    RegionStart <- MCRegionStart
    RegionSize  <- MCRegionSize
    PageSize    <- MCPageSize
    UserOffsets <- MCKernfsOffsets
    UserCounts  <- MCKernfsCounts
    CallerClips = TRUE

SPECIFICATION Spec

INVARIANT
    ReadReturnsRequestedBytes
