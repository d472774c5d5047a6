CONSTANTS
    RegionStart <- MCRegionStart
    RegionSize  <- MCRegionSize
    PageSize    <- MCPageSize
    UserOffsets <- MCOffsets
    UserCounts  <- MCCounts
    Variant = "txt"
SPECIFICATION Spec
CHECK_DEADLOCK FALSE
INVARIANTS
    AttributeOnlyWhileLoaded
