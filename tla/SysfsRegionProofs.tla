------------------------- MODULE SysfsRegionProofs -------------------------
(***************************************************************************)
(* Proofs about SysfsRegion for every region, page size and set of user   *)
(* inputs that satisfy the module's assumptions.                          *)
(*                                                                         *)
(* The handler keeps no state between calls, so the invariants are not    *)
(* about history: each step overwrites last with the result of one call. *)
(* The inductive invariant says what inputs that call had: any naturals   *)
(* for a direct call, and for a kernfs call an offset inside the region   *)
(* and a count of at most one page that stops at the region end.  The    *)
(* properties then follow from lemmas about one call of RegionRead.       *)
(***************************************************************************)
EXTENDS SysfsRegion, SysfsRegionHandlerProofs, Integers, TLAPS

\* The last call, if any, was made on natural-number arguments.
LastFromCall ==
    \/ last = NoCall
    \/ \E o \in Nat, c \in Nat, m \in BOOLEAN : last = RegionRead(o, c, m)

\* A call made through kernfs had an offset inside the region and a count
\* of at most a page that does not pass the region end.
LastFromKernfs ==
    \/ last = NoCall
    \/ \E o \in 0..(RegionSize - 1), c \in 0..PageSize, m \in BOOLEAN :
          /\ o + c <= RegionSize
          /\ last = RegionRead(o, c, m)

IInv ==
    /\ TypeOK
    /\ LastFromCall
    /\ CallerClips => LastFromKernfs

\* The constants' types are used everywhere below.
USE RegionAssumption, InputAssumption

-----------------------------------------------------------------------------
(* The specification.                                                      *)

\* One step of the specification keeps the variables' types.
LEMMA TypeOKStep == TypeOK /\ [Next]_vars => TypeOK'
<1> SUFFICES ASSUME TypeOK, [Next]_vars
             PROVE  TypeOK'
  OBVIOUS
<1>1. CASE Seek
  BY <1>1 DEF Seek, TypeOK, NoCall, CallRecord
<1>2. CASE ReadEOF
  BY <1>2 DEF ReadEOF, TypeOK, NoCall, CallRecord
<1>3. CASE Read
  <2>1. PICK n \in UserCounts, mapped \in BOOLEAN :
              /\ last' = RegionRead(pos, KernfsCount(pos, n), mapped)
              /\ pos' = IF mapped THEN pos + last'.copysize ELSE pos
    BY <1>3 DEF Read
  <2>2. pos \in 0..(RegionSize - 1) /\ n \in Nat
    BY <1>3 DEF Read, TypeOK
  <2>3. KernfsCount(pos, n) \in Nat
    BY <2>2, KernfsCountRange
  <2>4. last' \in CallRecord
    BY <2>1, <2>2, <2>3, RegionReadType
  <2>5. QED
    BY <2>1, <2>4 DEF TypeOK, CallRecord
<1>4. CASE DirectCall
  <2>1. PICK offset \in UserOffsets, count \in UserCounts, mapped \in BOOLEAN :
              last' = RegionRead(offset, count, mapped)
    BY <1>4 DEF DirectCall
  <2>2. QED
    BY <2>1, <1>4, RegionReadType DEF DirectCall, TypeOK
<1>5. CASE UNCHANGED vars
  BY <1>5 DEF vars, TypeOK
<1>6. QED
  BY <1>1, <1>2, <1>3, <1>4, <1>5 DEF Next

\* The variables keep their types.
THEOREM TypeCorrect == Spec => []TypeOK
<1>1. Init => TypeOK
  BY DEF Init, TypeOK, NoCall, CallRecord
<1>2. QED
  BY <1>1, TypeOKStep, PTL DEF Spec

\* The strengthening holds in every reachable state.
THEOREM IInvariant == Spec => []IInv
<1>1. Init => IInv
  BY DEF Init, IInv, TypeOK, NoCall, CallRecord, LastFromCall, LastFromKernfs
<1>2. IInv /\ [Next]_vars => IInv'
  <2> SUFFICES ASSUME IInv, [Next]_vars
               PROVE  IInv'
    OBVIOUS
  <2>0. TypeOK'
    BY TypeOKStep DEF IInv
  <2>1. CASE Seek \/ ReadEOF
    BY <2>0, <2>1 DEF Seek, ReadEOF, IInv, LastFromCall, LastFromKernfs
  <2>3. CASE Read
    <3>1. PICK n \in UserCounts, mapped \in BOOLEAN :
                /\ n > 0
                /\ last' = RegionRead(pos, KernfsCount(pos, n), mapped)
      BY <2>3 DEF Read
    <3>2. pos \in 0..(RegionSize - 1) /\ n \in Nat
      BY <2>3 DEF Read, IInv, TypeOK
    <3>3. /\ KernfsCount(pos, n) \in 0..PageSize
          /\ pos + KernfsCount(pos, n) <= RegionSize
      BY <3>2, KernfsCountRange
    <3>4. LastFromCall'
      BY <3>1, <3>2, <3>3 DEF LastFromCall
    <3>5. LastFromKernfs'
      BY <3>1, <3>2, <3>3 DEF LastFromKernfs
    <3>6. QED
      BY <2>0, <3>4, <3>5 DEF IInv
  <2>4. CASE DirectCall
    <3>1. PICK offset \in UserOffsets, count \in UserCounts, mapped \in BOOLEAN :
                last' = RegionRead(offset, count, mapped)
      BY <2>4 DEF DirectCall
    <3>2. LastFromCall'
      BY <3>1 DEF LastFromCall
    <3>3. ~CallerClips
      BY <2>4 DEF DirectCall
    <3>4. QED
      BY <2>0, <3>2, <3>3 DEF IInv
  <2>5. CASE UNCHANGED vars
    BY <2>0, <2>5 DEF vars, IInv, LastFromCall, LastFromKernfs
  <2>6. QED
    BY <2>1, <2>3, <2>4, <2>5 DEF Next
<1>3. QED
  BY <1>1, <1>2, PTL DEF Spec

\* Whatever offset and count reach the handler, it reads only the region
\* (the property run MCSysfsRegionDirect checks).
THEOREM ReadInsideRegionHolds == Spec => []ReadInsideRegion
<1>1. IInv => ReadInsideRegion
  <2> SUFFICES ASSUME IInv PROVE ReadInsideRegion
    OBVIOUS
  <2>1. CASE last = NoCall
    BY <2>1 DEF ReadInsideRegion, NoCall
  <2>2. CASE \E o \in Nat, c \in Nat, m \in BOOLEAN : last = RegionRead(o, c, m)
    <3>1. PICK o \in Nat, c \in Nat, m \in BOOLEAN : last = RegionRead(o, c, m)
      BY <2>2
    <3>2. QED
      BY <3>1, RegionReadInside DEF ReadInsideRegion
  <2>3. QED
    BY <2>1, <2>2 DEF IInv, LastFromCall
<1>2. QED
  BY <1>1, IInvariant, PTL

\* The handler never copies more than the count it was given.
THEOREM BufferNotOverrunHolds == Spec => []BufferNotOverrun
<1>1. IInv => BufferNotOverrun
  <2> SUFFICES ASSUME IInv PROVE BufferNotOverrun
    OBVIOUS
  <2>1. CASE last = NoCall
    BY <2>1 DEF BufferNotOverrun, NoCall
  <2>2. CASE \E o \in Nat, c \in Nat, m \in BOOLEAN : last = RegionRead(o, c, m)
    <3>1. PICK o \in Nat, c \in Nat, m \in BOOLEAN : last = RegionRead(o, c, m)
      BY <2>2
    <3>2. QED
      BY <3>1, RegionReadInside DEF BufferNotOverrun
  <2>3. QED
    BY <2>1, <2>2 DEF IInv, LastFromCall
<1>2. QED
  BY <1>1, IInvariant, PTL

\* Through kernfs, the ioremap window always covers the requested bytes.
THEOREM WindowCoversRequestHolds == Spec => [](CallerClips => WindowCoversRequest)
<1>1. IInv => (CallerClips => WindowCoversRequest)
  <2> SUFFICES ASSUME IInv, CallerClips PROVE WindowCoversRequest
    OBVIOUS
  <2>1. LastFromKernfs
    BY DEF IInv
  <2>2. CASE last = NoCall
    BY <2>2 DEF WindowCoversRequest, NoCall
  <2>3. CASE last # NoCall
    <3>1. PICK o \in 0..(RegionSize - 1), c \in 0..PageSize, m \in BOOLEAN :
                /\ o + c <= RegionSize
                /\ last = RegionRead(o, c, m)
      BY <2>1, <2>3 DEF LastFromKernfs
    <3>2. QED
      BY <3>1, RegionReadCovers DEF WindowCoversRequest
  <2>4. QED
    BY <2>2, <2>3
<1>2. QED
  BY <1>1, IInvariant, PTL

=============================================================================
