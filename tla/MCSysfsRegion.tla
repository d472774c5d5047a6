--------------------------- MODULE MCSysfsRegion ---------------------------
(***************************************************************************)
(* TLC instance of SysfsRegion, scaled down: a 4-byte page and a region of *)
(* four pages starting on a page boundary.  The scaled region keeps what   *)
(* the arithmetic distinguishes: pages inside the region, requests that    *)
(* cross a page boundary, requests that reach or pass the region end, and *)
(* (for direct calls) offsets past the region that the mask wraps.         *)
(***************************************************************************)
EXTENDS SysfsRegion

MCRegionStart == 8
MCRegionSize  == 16
MCPageSize    == 4

\* Through kernfs: seek anywhere up to two bytes past the end, ask for up to
\* a page and a half.
MCKernfsOffsets == 0..(MCRegionSize + 2)
MCKernfsCounts  == 0..(MCPageSize + 2)

\* Direct calls: offsets up to twice the region (the mask wraps them) and
\* counts up to one more than the region.
MCDirectOffsets == 0..(2 * MCRegionSize + 1)
MCDirectCounts  == 0..(MCRegionSize + 1)
=============================================================================
