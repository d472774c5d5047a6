CONSTANTS
    UlongBits <- MCUlongBits
    ConfigLimit <- MCConfigLimit
    BusBits = 1
    DevBits = 1
    FuncBits = 1
    PciRequestSize <- MCPciRequestSize
    Requests <- MCRequests

SPECIFICATION Spec

\* The driver stops for good once it is unloaded or failed to load.
CHECK_DEADLOCK FALSE

INVARIANT
    ConfigAccessInBounds
