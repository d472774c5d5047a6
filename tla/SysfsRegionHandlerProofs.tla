--------------------- MODULE SysfsRegionHandlerProofs ---------------------
(***************************************************************************)
(* Lemmas about one call of the region handler, for every region and page *)
(* size that satisfy RegionAssumption: what the arithmetic on %, the page *)
(* masks and the clips computes.  The specification-level proofs of       *)
(* SysfsRegionProofs and LinuxRegionModuleProofs rest on them.            *)
(***************************************************************************)
EXTENDS SysfsRegionHandler, Integers, TLAPS

-----------------------------------------------------------------------------
(* Arithmetic.                                                             *)

\* The constants' types are used everywhere below.
USE RegionAssumption

\* The remainder of n by p is the r of any n = p * m + r with 0 <= r < p.
LEMMA ModUnique ==
    ASSUME NEW p \in Nat \ {0}, NEW n \in Int, NEW m \in Int,
           NEW r \in 0..(p - 1), n = p * m + r
    PROVE  n % p = r
<1> DEFINE q == n \div p
           s == n % p
<1>1. n = p * q + s /\ s \in 0..(p - 1) /\ q \in Int
  OBVIOUS
<1>2. p * (m - q) = s - r
  BY <1>1
<1>3. m = q
  <2>1. CASE m > q
    <3>1. p * (m - q) >= p
      BY <2>1
    <3>2. QED
      BY <3>1, <1>1, <1>2
  <2>2. CASE m < q
    <3>1. p * (q - m) >= p
      BY <2>2
    <3>2. QED
      BY <3>1, <1>1, <1>2
  <2>3. QED
    BY <2>1, <2>2
<1>4. QED
  BY <1>1, <1>2, <1>3

\* Adding a multiple of the page size does not change the offset in page.
LEMMA ModShift ==
    ASSUME NEW a \in Nat, NEW b \in Nat, NEW p \in Nat \ {0}, a % p = 0
    PROVE  (a + b) % p = (b % p)
<1>1. a = p * (a \div p) /\ a \div p \in Nat
  OBVIOUS
<1>2. b = p * (b \div p) + (b % p) /\ (b % p) \in 0..(p - 1) /\ b \div p \in Int
  OBVIOUS
<1>3. a + b = p * ((a \div p) + (b \div p)) + (b % p)
  BY <1>1, <1>2
<1>4. (a \div p) + (b \div p) \in Int /\ a + b \in Int
  BY <1>1, <1>2
<1>5. QED
  BY <1>2, <1>3, <1>4, ModUnique

\* The offset in page is a natural below the page size.
LEMMA ModBound ==
    ASSUME NEW b \in Nat, NEW p \in Nat \ {0}
    PROVE  b % p \in 0..(p - 1)
  OBVIOUS

\* Rounding RegionStart + off down to its page subtracts off's offset in page.
LEMMA PageDownShift ==
    ASSUME NEW off \in Nat
    PROVE  /\ PageDown(RegionStart + off) = RegionStart + off - InPage(off)
           /\ InPage(off) \in 0..(PageSize - 1)
           /\ InPage(off) <= off
<1>1. (RegionStart + off) % PageSize = off % PageSize
  BY ModShift, RegionAssumption
<1>2. off % PageSize \in 0..(PageSize - 1)
  BY ModBound, RegionAssumption
<1>3. off % PageSize <= off
  BY RegionAssumption
<1>4. PageDown(RegionStart + off) = RegionStart + off - (off % PageSize)
  BY <1>1 DEF PageDown
<1>5. QED
  BY <1>2, <1>3, <1>4 DEF InPage

-----------------------------------------------------------------------------
(* One call of the handler.                                                *)

\* The wrapped offset is inside the region.
LEMMA WrapOffsetRange ==
    ASSUME NEW offset \in Nat
    PROVE  WrapOffset(offset) \in 0..(RegionSize - 1)
  BY ModBound, RegionAssumption DEF WrapOffset

\* A call record is well typed.
LEMMA RegionReadType ==
    ASSUME NEW o \in Nat, NEW c \in Nat, NEW m \in BOOLEAN
    PROVE  RegionRead(o, c, m) \in CallRecord
<1> DEFINE off == WrapOffset(o)
<1>1. off \in 0..(RegionSize - 1)
  BY WrapOffsetRange
<1>2. CopySize(off, c) \in Nat
  BY <1>1, RegionAssumption DEF CopySize, min
<1>3. PageDown(RegionStart + off) \in Nat
  <2>1. off \in Nat
    BY <1>1
  <2>2. /\ PageDown(RegionStart + off) = RegionStart + off - InPage(off)
        /\ InPage(off) \in 0..(PageSize - 1)
        /\ InPage(off) <= off
    BY <2>1, PageDownShift, Zenon
  <2>3. QED
    BY <1>1, <2>2
<1>4. RemapSize(off, CopySize(off, c)) \in Nat
  BY RegionAssumption DEF RemapSize
<1>5. QED
  BY <1>1, <1>2, <1>3, <1>4 DEF RegionRead, CallRecord

\* A call copies only bytes of the region, and no more than its count.
LEMMA RegionReadInside ==
    ASSUME NEW o \in Nat, NEW c \in Nat, NEW m \in BOOLEAN
    PROVE  LET r == RegionRead(o, c, m)
           IN  /\ RegionStart <= r.pa
               /\ r.pa + r.copysize <= RegionStart + RegionSize
               /\ r.copysize <= r.count
<1> DEFINE off == WrapOffset(o)
<1>1. off \in 0..(RegionSize - 1)
  BY WrapOffsetRange
<1>2. /\ PageDown(RegionStart + off) = RegionStart + off - InPage(off)
      /\ InPage(off) \in 0..(PageSize - 1)
      /\ InPage(off) <= off
  <2>1. off \in Nat
    BY <1>1
  <2>2. QED
    BY <2>1, PageDownShift, Zenon
<1>3. CASE off + c > RegionSize
  BY <1>1, <1>2, <1>3, RegionAssumption DEF RegionRead, CopySize
<1>4. CASE off + c <= RegionSize
  BY <1>1, <1>2, <1>4, RegionAssumption DEF RegionRead, CopySize, min
<1>5. QED
  BY <1>3, <1>4, <1>1

\* A call on kernfs' arguments maps a window that covers the request.
LEMMA RegionReadCovers ==
    ASSUME NEW o \in 0..(RegionSize - 1), NEW c \in 0..PageSize,
           NEW m \in BOOLEAN, o + c <= RegionSize
    PROVE  LET r == RegionRead(o, c, m)
           IN  /\ r.pa <= RegionStart + r.off
               /\ RegionStart + r.off + r.copysize <= r.pa + r.remapsize
<1>1. WrapOffset(o) = o
  BY RegionAssumption DEF WrapOffset
<1>2. CopySize(o, c) = c
  BY RegionAssumption DEF CopySize, min
<1>3. /\ PageDown(RegionStart + o) = RegionStart + o - InPage(o)
      /\ InPage(o) \in 0..(PageSize - 1)
      /\ InPage(o) <= o
  <2>1. o \in Nat
    OBVIOUS
  <2>2. QED
    BY <2>1, PageDownShift, Zenon
<1>4. RemapSize(o, c) \in {PageSize, 2 * PageSize}
      /\ (InPage(o) + c > PageSize => RemapSize(o, c) = 2 * PageSize)
      /\ (InPage(o) + c <= PageSize => RemapSize(o, c) = PageSize)
  BY DEF RemapSize, InPage
<1>5. QED
  BY <1>1, <1>2, <1>3, <1>4, RegionAssumption DEF RegionRead

\* The count kernfs hands the handler is at most a page and stops at the
\* region end.
LEMMA KernfsCountRange ==
    ASSUME NEW p \in 0..(RegionSize - 1), NEW n \in Nat
    PROVE  /\ KernfsCount(p, n) \in 0..PageSize
           /\ p + KernfsCount(p, n) <= RegionSize
  BY DEF KernfsCount, min

=============================================================================
