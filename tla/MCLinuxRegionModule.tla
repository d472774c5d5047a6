------------------------ MODULE MCLinuxRegionModule ------------------------
(* The module life cycle over a region of four 4-byte pages, with the    *)
(* seeks and counts of MCSysfsRegion's kernfs instance.                 *)
EXTENDS LinuxRegionModule

MCRegionStart == 8
MCRegionSize  == 16
MCPageSize    == 4
MCOffsets     == 0..(MCRegionSize + 2)
MCCounts      == 0..(MCPageSize + 2)
=============================================================================
