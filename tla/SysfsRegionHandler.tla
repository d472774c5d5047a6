------------------------- MODULE SysfsRegionHandler -------------------------
(***************************************************************************)
(* The arithmetic of bios_region_read (flash_mmap.c) and public_space_read *)
(* (txt_mmap.c): what one call of the handler computes from its offset    *)
(* and count, over the constants of its region.  SysfsRegion adds the     *)
(* callers and the state they keep; LinuxRegionModule adds the module    *)
(* life cycle around them.                                                 *)
(*                                                                         *)
(* The bit masks of the code are written as what they compute on the      *)
(* power-of-two sizes: x & (SIZE-1) = x % SIZE, x & PAGE_MASK =           *)
(* x - x % PAGE_SIZE.                                                      *)
(***************************************************************************)
EXTENDS Naturals

CONSTANTS
    RegionStart,   \* FLASH_REGION_START / TXT_REGION_START
    RegionSize,    \* FLASH_REGION_SIZE / TXT_REGION_SIZE
    PageSize       \* PAGE_SIZE

\* The sizes are powers of two, the region is a whole number of pages and
\* starts on a page boundary, as both #define blocks make it.
ASSUME RegionAssumption ==
    /\ PageSize \in Nat \ {0}
    /\ RegionSize \in Nat \ {0}
    /\ RegionSize % PageSize = 0
    /\ RegionStart \in Nat
    /\ RegionStart % PageSize = 0

\* Checked by TLC only: the masks of the code equal % on these sizes.
ASSUME PowerOfTwoAssumption ==
    /\ \E k \in 0..RegionSize : 2^k = RegionSize
    /\ \E k \in 0..PageSize : 2^k = PageSize

-----------------------------------------------------------------------------
(* The handler's arithmetic.                                               *)

min(a, b) == IF a < b THEN a ELSE b

\* offset = offset & FLASH_REGION_MASK
WrapOffset(offset) == offset % RegionSize

\* Mutant: PAGE_ALIGN(x), which rounds up to the next page boundary.
PageAlignUp(x) == x + ((PageSize - (x % PageSize)) % PageSize)

\* x & PAGE_MASK: the start of x's page
PageDown(x) == x - (x % PageSize)

\* x & ~PAGE_MASK: x's offset within its page
InPage(x) == x % PageSize

\* Mutant: the subtraction at the region end has its operands swapped.
CopySizeSwapped(off, count) ==
    IF off + count > RegionSize THEN off - RegionSize
                                ELSE min(count, PageSize)

\* Mutant: inside the region a whole page is copied whatever the count.
CopySizeWholePage(off, count) ==
    IF off + count > RegionSize THEN RegionSize - off
                                ELSE PageSize

\* The number of bytes the call copies and returns.
CopySize(off, count) ==
    IF off + count > RegionSize THEN RegionSize - off
                                ELSE min(count, PageSize)

\* Mutant: one page is always mapped.
RemapSizeOnePage(off, copysize) == PageSize

\* The length of the window handed to ioremap: two pages when the copy
\* would cross the end of the first.
RemapSize(off, copysize) ==
    IF InPage(off) + copysize > PageSize THEN 2 * PageSize ELSE PageSize

\* One call of bios_region_read(offset, count) whose ioremap returned a
\* mapping (mapped) or NULL (~mapped).  memcpy_fromio copies copysize bytes
\* from va, the first byte of the window, that is from physical address pa;
\* iounmap releases the window and the call returns copysize.
RegionRead(offset, count, mapped) ==
    LET off      == WrapOffset(offset)
        copysize == CopySize(off, count)
    IN  [called    |-> TRUE,
         mapped    |-> mapped,
         count     |-> count,
         off       |-> off,
         pa        |-> PageDown(RegionStart + off),
         copysize  |-> copysize,
         remapsize |-> RemapSize(off, copysize)]

\* No call reached the handler.
NoCall == [called |-> FALSE, mapped |-> FALSE, count |-> 0, off |-> 0,
           pa |-> 0, copysize |-> 0, remapsize |-> 0]

CallRecord == [called : BOOLEAN, mapped : BOOLEAN, count : Nat, off : Nat,
               pa : Nat, copysize : Nat, remapsize : Nat]

-----------------------------------------------------------------------------
(* The kernfs caller.                                                      *)

\* kernfs: len = min(count, PAGE_SIZE); sysfs_kf_bin_read cuts it at i_size.
KernfsCount(p, n) == min(min(n, PageSize), RegionSize - p)

=============================================================================
