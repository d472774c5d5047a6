---------------------------- MODULE SysfsRegion ----------------------------
(***************************************************************************)
(* The read-only sysfs binary attribute that exports a fixed physical     *)
(* region: bios_region_read in flash_mmap.c (16 MiB of SPI flash) and     *)
(* public_space_read in txt_mmap.c (64 KiB of TXT public space).  Both    *)
(* handlers are the same code over different constants.                   *)
(*                                                                         *)
(* A handler call is one atomic step: it keeps no state between calls, so *)
(* the mapping it takes with ioremap is released inside the same step.    *)
(* What persists is the file position of the open file (kept by kernfs)   *)
(* and, for the properties, the record of the last call.                  *)
(*                                                                         *)
(* Physical memory is represented by its addresses: a copy is the range   *)
(* of physical addresses memcpy_fromio reads, so "the bytes returned"     *)
(* are compared by where they come from.  The bit masks of the code are   *)
(* written as what they compute on the power-of-two sizes:                *)
(* x & (SIZE-1) = x % SIZE, x & PAGE_MASK = x - x % PAGE_SIZE.            *)
(*                                                                         *)
(* Two callers are modelled, selected by CallerClips:                     *)
(*  - TRUE: the kernfs read path (kernfs_file_read_iter and               *)
(*    sysfs_kf_bin_read), the only caller the kernel uses: it passes at   *)
(*    most one page, returns 0 at or past i_size = SIZE and cuts the      *)
(*    count at i_size, then advances the file position by the result;     *)
(*  - FALSE: the handler's own contract, any (offset, count).             *)
(***************************************************************************)
EXTENDS SysfsRegionHandler

CONSTANTS
    UserOffsets,   \* file positions a process may seek to (or pass directly)
    UserCounts,    \* byte counts a process may ask for
    CallerClips    \* TRUE: calls come through kernfs; FALSE: direct calls

ASSUME InputAssumption ==
    /\ UserOffsets \subseteq Nat
    /\ UserCounts \subseteq Nat
    /\ CallerClips \in BOOLEAN

VARIABLES
    pos,    \* the open file's position (kernfs: iocb->ki_pos)
    last    \* what the last handler call computed and did

vars == <<pos, last>>

-----------------------------------------------------------------------------
(* The callers.                                                            *)

Init ==
    /\ pos = 0
    /\ last = NoCall

\* lseek(fd, p, SEEK_SET) on the open file.
Seek ==
    /\ CallerClips
    /\ \E p \in UserOffsets : pos' = p
    /\ last' = NoCall

\* read(fd, buf, n) at or past the end of the region, or of zero bytes:
\* sysfs_kf_bin_read returns 0 without calling the handler.
ReadEOF ==
    /\ CallerClips
    /\ \E n \in UserCounts :
          /\ n = 0 \/ pos >= RegionSize
          /\ last' = NoCall
    /\ UNCHANGED pos

\* read(fd, buf, n) inside the region: the handler runs on the clipped
\* count.  If ioremap failed, memcpy_fromio faults on NULL and the call
\* never returns, so the position does not move.
Read ==
    /\ CallerClips
    /\ pos < RegionSize
    /\ \E n \in UserCounts, mapped \in BOOLEAN :
          /\ n > 0
          /\ last' = RegionRead(pos, KernfsCount(pos, n), mapped)
          /\ pos' = IF mapped THEN pos + last'.copysize ELSE pos

\* A direct call bios_region_read(offset, count) with any arguments.
DirectCall ==
    /\ ~CallerClips
    /\ \E offset \in UserOffsets, count \in UserCounts, mapped \in BOOLEAN :
          last' = RegionRead(offset, count, mapped)
    /\ UNCHANGED pos

Next == Seek \/ ReadEOF \/ Read \/ DirectCall

Spec == Init /\ [][Next]_vars

-----------------------------------------------------------------------------
(* Properties.                                                             *)

TypeOK ==
    /\ pos \in Nat
    /\ last \in CallRecord

\* The ioremap window [pa, pa + remapsize) covers the bytes the caller asked
\* for, [RegionStart + off, RegionStart + off + copysize): the remap-size
\* decision of bios_region_read never leaves the tail of a request that
\* crosses a page boundary unmapped (spec sections 3 and 8).
WindowCoversRequest ==
    last.called /\ last.mapped =>
        /\ last.pa <= RegionStart + last.off
        /\ RegionStart + last.off + last.copysize <= last.pa + last.remapsize

\* Every byte memcpy_fromio reads, [pa, pa + copysize), lies inside the
\* exported region, whatever offset and count the handler is given: the
\* offset mask and the clip at the region end keep the flash and TXT
\* handlers from exposing physical memory beyond their region.
ReadInsideRegion ==
    last.called /\ last.mapped =>
        /\ RegionStart <= last.pa
        /\ last.pa + last.copysize <= RegionStart + RegionSize

\* The handler never copies more bytes into the caller's buffer than the
\* count it was given (the kernfs buffer holds count bytes).
BufferNotOverrun ==
    last.called => last.copysize <= last.count

\* The bytes returned are the ones asked for: the copy starts at the
\* requested address RegionStart + off (spec 4.1 step 5: "copy copysize
\* bytes starting at the correct in-window offset").
ReadReturnsRequestedBytes ==
    last.called /\ last.mapped => last.pa = RegionStart + last.off

=============================================================================
