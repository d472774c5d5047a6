------------------------- MODULE LinuxRegionModule -------------------------
(***************************************************************************)
(* The life of the flash_mmap and txt_mmap kernel modules, composed with  *)
(* the reads their sysfs attribute serves (SysfsRegion, kernfs caller).   *)
(*                                                                         *)
(* insmod runs the init function: kobject_create_and_add makes the       *)
(* directory (/sys/firmware/flash_mmap or /sys/kernel/txt_mmap) and       *)
(* sysfs_create_bin_file adds the attribute to it.  The kernel's          *)
(* do_init_module fails the load when init returns a negative value and   *)
(* loads the module ("loading module anyway") when it returns zero or a  *)
(* positive one.  rmmod runs the exit function: sysfs_remove_bin_file     *)
(* from a directory, then kobject_put, whose release of the last          *)
(* reference deletes the directory with everything still in it.          *)
(* kernfs drains active readers before a node goes, so a read is an       *)
(* atomic step that happens only while the attribute exists.             *)
(*                                                                         *)
(* Variant selects the module: "flash" (flash_mmap.c) or "txt"            *)
(* (txt_mmap.c).  Their init and exit functions are the same code but    *)
(* for init's return value when the kobject cannot be made and the       *)
(* directory exit removes the attribute from: one operator models each   *)
(* function, and each module instantiates it.                            *)
(***************************************************************************)
EXTENDS Integers, SysfsRegionHandler

CONSTANTS
    UserOffsets,   \* file positions a process may seek to
    UserCounts,    \* byte counts a process may ask for
    Variant        \* "flash" (flash_mmap.c) or "txt" (txt_mmap.c)

ASSUME VariantAssumption == Variant \in {"flash", "txt"}

VARIABLES
    module,    \* "inserting", "live", "loadFailed", "removed"
    kobjRef,   \* the global kobj_ref: "NULL" or "kobj"
    kobj,      \* the module's kobject: "none", "live", "freed"
    attrs,     \* the directories holding a bin attribute of this module:
               \* "own" (kobj_ref's) or "kernel" (kernel_kobj)
    pos, last  \* the open file and the last read (SysfsRegion)

vars == <<module, kobjRef, kobj, attrs, pos, last>>
lifecycle == <<module, kobjRef, kobj, attrs>>

R == INSTANCE SysfsRegion WITH CallerClips <- TRUE

\* errno values as the code uses them.
EINVAL == 22
ENOMEM == 12

-----------------------------------------------------------------------------
(* Module init and exit.                                                   *)

\* do_init_module: a negative return fails the load.
LoadOutcome(ret) == IF ret < 0 THEN "loadFailed" ELSE "live"

\* kobject_put of the last reference: the kobject is freed and its
\* directory removed with what is left in it.
KobjectPut(a) == a \ {"own"}

Init ==
    /\ module = "inserting"
    /\ kobjRef = "NULL"
    /\ kobj = "none"
    /\ attrs = {}
    /\ R!Init

\* The init function of both modules, returning createFailedRet when
\* kobject_create_and_add fails.  sysfs_create_bin_file can fail (-ENOMEM,
\* or -EEXIST for a name already there); init then drops the kobject.
InitReturning(createFailedRet) ==
    /\ module = "inserting"
    /\ \/ /\ kobjRef' = "NULL"                    \* kobject_create_and_add failed
          /\ UNCHANGED <<kobj, attrs>>
          /\ module' = LoadOutcome(createFailedRet)
       \/ /\ kobjRef' = "kobj"
          /\ \E fileRet \in {0, -ENOMEM} :
                IF fileRet = 0
                THEN /\ kobj' = "live" /\ attrs' = {"own"}
                     /\ module' = LoadOutcome(0)
                ELSE /\ kobj' = "freed" /\ attrs' = KobjectPut({})
                     /\ module' = LoadOutcome(fileRet)
    /\ UNCHANGED <<pos, last>>

\* flash_mmap_init: ret = EINVAL (positive) when the kobject is not made.
FlashInit == InitReturning(EINVAL)

\* txt_mmap_init: ret keeps its initial 0 when the kobject is not made.
TxtInit == InitReturning(0)

ModuleInit == IF Variant = "flash" THEN FlashInit ELSE TxtInit

\* Mutant: exit forgets kobject_put.
ExitRemovingFromNoPut(dir) ==
    /\ module = "live"
    /\ module' = "removed"
    /\ IF kobjRef # "NULL"
       THEN /\ attrs' = attrs \ {dir}
            /\ UNCHANGED kobj
       ELSE UNCHANGED <<kobj, attrs>>
    /\ UNCHANGED <<kobjRef, pos, last>>

\* The exit function of both modules: if kobj_ref is set,
\* sysfs_remove_bin_file from directory dir, then kobject_put(kobj_ref).
ExitRemovingFrom(dir) ==
    /\ module = "live"
    /\ module' = "removed"
    /\ IF kobjRef # "NULL"
       THEN /\ attrs' = KobjectPut(attrs \ {dir})
            /\ kobj' = "freed"
       ELSE UNCHANGED <<kobj, attrs>>
    /\ UNCHANGED <<kobjRef, pos, last>>

\* flash_mmap_exit removes the attribute from kobj_ref's directory.
FlashExit == ExitRemovingFrom("own")

\* txt_mmap_exit removes it from kernel_kobj, where it never was.
TxtExit == ExitRemovingFrom("kernel")

ModuleExit == IF Variant = "flash" THEN FlashExit ELSE TxtExit

\* A process uses the attribute file while it exists: lseek, or read
\* through kernfs into public_space_read (or bios_region_read, the same
\* code over the flash window), which SysfsRegion models.
UseAttribute ==
    /\ "own" \in attrs
    /\ R!Seek \/ R!ReadEOF \/ R!Read
    /\ UNCHANGED lifecycle

Next == ModuleInit \/ ModuleExit \/ UseAttribute

Spec == Init /\ [][Next]_vars

-----------------------------------------------------------------------------
(* Properties.                                                             *)

\* The attribute file, through which the handler is reached, exists only
\* while the module is loaded and its kobject alive: after a failed load
\* or after exit, no path leads into the module's unloaded code or its
\* freed kobject.  For txt_mmap, whose exit removes the attribute from the
\* wrong directory, this rests on kobject_put removing the directory.
AttributeOnlyWhileLoaded ==
    attrs # {} => module = "live" /\ kobj = "live" /\ attrs = {"own"}

\* A module the kernel reports loaded exports its attribute: init reports
\* failure whenever it could not create it (init's 0/-E convention, and
\* spec section 7: failures are reported).
LoadedImpliesAttribute ==
    module = "live" => "own" \in attrs

=============================================================================
