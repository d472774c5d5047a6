----------------------- MODULE LinuxRegionModuleProofs -----------------------
(***************************************************************************)
(* Proofs about LinuxRegionModule for both modules and every region, page *)
(* size and set of seeks and counts that satisfy the assumptions.         *)
(*                                                                         *)
(* The attribute is the only part of the life cycle a reader can reach.   *)
(* Nothing ever creates it anywhere but in the module's own directory,    *)
(* and exit's kobject_put removes that directory whichever directory the  *)
(* remove call names; with that, AttributeOnlyWhileLoaded is inductive.   *)
(*                                                                         *)
(* The reads are SysfsRegion's: a life-cycle step leaves the file and the *)
(* handler's record alone, and a use of the attribute is a kernfs step.   *)
(* So the composed module implements SysfsRegion's specification with     *)
(* CallerClips TRUE, and what SysfsRegionProofs proves of the kernfs      *)
(* reads holds of the module's reads.                                     *)
(***************************************************************************)
EXTENDS LinuxRegionModule, TLAPS

\* The attribute is never created in any directory but the module's own.
AttrsOwnOnly == attrs \subseteq {"own"}

\* The attribute exists only where init set kobj_ref.
AttrNeedsKobjRef == kobjRef = "NULL" => attrs = {}

LInv == AttrsOwnOnly /\ AttrNeedsKobjRef /\ AttributeOnlyWhileLoaded

USE VariantAssumption

-----------------------------------------------------------------------------
(* The life cycle.                                                         *)

LEMMA InitLInv == Init => LInv
  BY DEF Init, LInv, AttrsOwnOnly, AttrNeedsKobjRef, AttributeOnlyWhileLoaded

LEMMA InitReturningLInv ==
    ASSUME LInv, NEW ret \in Int, InitReturning(ret)
    PROVE  LInv'
<1>1. CASE kobjRef' = "NULL"
  BY <1>1 DEF InitReturning, LInv, AttrsOwnOnly, AttrNeedsKobjRef,
              AttributeOnlyWhileLoaded
<1>2. CASE kobjRef' = "kobj"
  <2>1. PICK fileRet \in {0, -ENOMEM} :
           IF fileRet = 0
           THEN /\ kobj' = "live" /\ attrs' = {"own"}
                /\ module' = LoadOutcome(0)
           ELSE /\ kobj' = "freed" /\ attrs' = KobjectPut({})
                /\ module' = LoadOutcome(fileRet)
    BY <1>2 DEF InitReturning
  <2>2. CASE fileRet = 0
    BY <1>2, <2>1, <2>2 DEF LInv, AttrsOwnOnly, AttrNeedsKobjRef,
                            AttributeOnlyWhileLoaded, LoadOutcome
  <2>3. CASE fileRet # 0
    BY <1>2, <2>1, <2>3 DEF LInv, AttrsOwnOnly, AttrNeedsKobjRef,
                            AttributeOnlyWhileLoaded, KobjectPut
  <2>4. QED
    BY <2>2, <2>3
<1>3. QED
  BY <1>1, <1>2 DEF InitReturning

LEMMA ModuleInitLInv == LInv /\ ModuleInit => LInv'
  BY InitReturningLInv DEF ModuleInit, FlashInit, TxtInit, EINVAL

\* Whichever directory exit removes the attribute from, kobject_put
\* leaves none.
LEMMA ExitRemovingFromLInv ==
    ASSUME LInv, NEW dir, ExitRemovingFrom(dir)
    PROVE  LInv'
<1>1. CASE kobjRef # "NULL"
  <2>1. attrs' = KobjectPut(attrs \ {dir}) /\ UNCHANGED kobjRef
    BY <1>1 DEF ExitRemovingFrom
  <2>2. attrs' = {}
    BY <2>1 DEF LInv, AttrsOwnOnly, KobjectPut
  <2>3. QED
    BY <2>1, <2>2 DEF LInv, AttrsOwnOnly, AttrNeedsKobjRef,
                      AttributeOnlyWhileLoaded
<1>2. CASE kobjRef = "NULL"
  \* init set no kobject, so there is no attribute to remove.
  <2>1. UNCHANGED <<kobjRef, kobj, attrs>>
    BY <1>2 DEF ExitRemovingFrom
  <2>2. attrs = {}
    BY <1>2 DEF LInv, AttrNeedsKobjRef
  <2>3. QED
    BY <2>1, <2>2 DEF LInv, AttrsOwnOnly, AttrNeedsKobjRef,
                      AttributeOnlyWhileLoaded
<1>3. QED
  BY <1>1, <1>2

LEMMA ModuleExitLInv == LInv /\ ModuleExit => LInv'
  BY ExitRemovingFromLInv DEF ModuleExit, FlashExit, TxtExit

\* A read or a seek touches only the file and the handler's record.
LEMMA UseAttributeLInv == LInv /\ UseAttribute => LInv'
  BY DEF UseAttribute, lifecycle, LInv, AttrsOwnOnly, AttrNeedsKobjRef,
         AttributeOnlyWhileLoaded

LEMMA NextLInv == LInv /\ [Next]_vars => LInv'
<1> SUFFICES ASSUME LInv, [Next]_vars PROVE LInv'
  OBVIOUS
<1>1. CASE ModuleInit
  BY <1>1, ModuleInitLInv
<1>2. CASE ModuleExit
  BY <1>2, ModuleExitLInv
<1>3. CASE UseAttribute
  BY <1>3, UseAttributeLInv
<1>4. CASE UNCHANGED vars
  BY <1>4 DEF vars, LInv, AttrsOwnOnly, AttrNeedsKobjRef,
              AttributeOnlyWhileLoaded
<1>5. QED
  BY <1>1, <1>2, <1>3, <1>4 DEF Next

LEMMA LInvariant == Spec => []LInv
  BY InitLInv, NextLInv, PTL DEF Spec

\* For both modules, the attribute file exists only while the module is
\* loaded and its kobject alive, after any sequence of loads, failed loads,
\* reads and exits (flash_mmap_exit and txt_mmap_exit included).
THEOREM AttributeOnlyWhileLoadedHolds == Spec => []AttributeOnlyWhileLoaded
<1>1. LInv => AttributeOnlyWhileLoaded
  BY DEF LInv
<1>2. QED
  BY LInvariant, <1>1, PTL

-----------------------------------------------------------------------------
(* The reads.                                                              *)

\* Every step of the composed module is a step of the reads' specification
\* or leaves the file and the last read alone.
LEMMA NextReads == [Next]_vars => [R!Next]_R!vars
<1> SUFFICES ASSUME [Next]_vars PROVE [R!Next]_R!vars
  OBVIOUS
<1>1. CASE ModuleInit
  BY <1>1 DEF ModuleInit, FlashInit, TxtInit, InitReturning, R!vars
<1>2. CASE ModuleExit
  BY <1>2 DEF ModuleExit, FlashExit, TxtExit, ExitRemovingFrom, R!vars
<1>3. CASE UseAttribute
  BY <1>3 DEF UseAttribute, R!Next
<1>4. CASE UNCHANGED vars
  BY <1>4 DEF vars, R!vars
<1>5. QED
  BY <1>1, <1>2, <1>3, <1>4 DEF Next

\* The composed module runs the attribute's reads as SysfsRegion's kernfs
\* caller does: the module's life cycle adds no read of its own.
THEOREM ImplementsReads == Spec => R!Spec
  BY NextReads, PTL DEF Spec, Init, R!Spec

=============================================================================
