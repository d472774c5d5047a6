CONSTANTS
    RegionStart <- MCRegionStart
    RegionSize  <- MCRegionSize
    PageSize    <- MCPageSize
    UserOffsets <- MCOffsets
    UserCounts  <- MCCounts
    Variant = "flash"
SPECIFICATION Spec
CHECK_DEADLOCK FALSE
INVARIANT
    LoadedImpliesAttribute
