------------------------------ MODULE CpuDriver ------------------------------
(***************************************************************************)
(* The immuneCPU KMDF control driver (cpudriver.c): it loads (DriverEntry, *)
(* immuneCPUDeviceAdd) and serves three IOCTLs from a sequential queue    *)
(* (line 116) on an exclusive device (line 83):                           *)
(*  - IOCTL_IMMUNE_GETFLASH: ReadPhysicalMemory of the 16 MiB flash window *)
(*  - IOCTL_IMMUNE_GETTXTPUB: the TXT capability gate (CPUID vendor, SMX,  *)
(*    IA32_FEATURE_CONTROL), then ReadPhysicalMemory of TXT public space  *)
(*  - IOCTL_IMMUNE_GETMSR: pin the thread to a logical CPU, CheckMSRAllowed *)
(*    and rdmsr.                                                          *)
(* The framework hands the driver one request at a time, so a request is  *)
(* one atomic step.                                                       *)
(*                                                                         *)
(* The hardware is the environment: the platform's CPUID and              *)
(* FEATURE_CONTROL answers (fixed for a boot), whether MmMapIoSpace finds  *)
(* space, and whether the copy or rdmsr faults.  The caller's group,     *)
(* read at lines 414-416, only feeds _kaffinity, which line 437           *)
(* overwrites, so it does not matter.  Processors are numbered across     *)
(* groups the way KeQueryActiveProcessorCountEx(ALL_PROCESSOR_GROUPS)     *)
(* counts them: full groups of CpusPerGroup.  KAFFINITY has MaskBits      *)
(* bits, and KeSetSystemAffinityThreadEx pins within group 0.  A shift by *)
(* MaskBits or more is undefined in C and the x64 shl instruction the     *)
(* build emits keeps the low bits of the count, so 1ULL << id selects     *)
(* bit id % MaskBits.  MSR addresses and the vendor string are abstracted *)
(* to the values the checks tell apart.                                   *)
(***************************************************************************)
EXTENDS Naturals

CONSTANTS
    FlashLen,       \* 0x1000000, bytes GETFLASH maps and copies
    TxtLen,         \* 0x10000, bytes GETTXTPUB maps and copies
    MaskBits,       \* bits of KAFFINITY (64)
    CpusPerGroup,   \* logical processors in each processor group
    NumGroups,      \* processor groups
    Msrs,           \* MSR addresses a client may ask for
    Platforms,      \* the CPUID / FEATURE_CONTROL answers a machine can give
    Requests,       \* the IOCTL requests a client may send
    MaxMappings     \* bound on leaked mappings, to keep the model finite

NumCpus == CpusPerGroup * NumGroups

ASSUME CpuAssumption ==
    /\ FlashLen \in Nat \ {0} /\ TxtLen \in Nat \ {0}
    /\ MaskBits \in Nat \ {0}
    /\ CpusPerGroup \in 1..MaskBits
    /\ NumGroups \in Nat \ {0}
    /\ MaxMappings \in Nat

\* The registers the driver hides (their names stand for their addresses).
STAR == "STAR"                       \* 0xC0000081
LSTAR == "LSTAR"                     \* 0xC0000082
CSTAR == "CSTAR"                     \* 0xC0000083
SYSENTER_CS == "IA32_SYSENTER_CS"    \* 0x174
SYSENTER_ESP == "IA32_SYSENTER_ESP"  \* 0x175
SYSENTER_EIP == "IA32_SYSENTER_EIP"  \* 0x176

IoctlCodes == {"GETFLASH", "GETTXTPUB", "GETMSR", "OTHER"}

PlatformType ==
    [genuineIntel : BOOLEAN,   \* CPUID leaf 0 vendor is "GenuineIntel"
     smx : BOOLEAN,            \* CPUID leaf 1 ECX bit 6
     senterGlobal : BOOLEAN,   \* FEATURE_CONTROL SENTER global enable
     senterLeaves : BOOLEAN]   \* FEATURE_CONTROL any SENTER leaf enable

RequestType ==
    [ioctl : IoctlCodes, inLen : Nat, outLen : Nat, cpu : Nat, msr : Msrs]

ASSUME RequestAssumption ==
    /\ Platforms \subseteq PlatformType
    /\ Platforms # {}
    /\ Requests \subseteq RequestType

VARIABLES
    phase,      \* "loading", "running", "loadFailed", "unloaded"
    platform,   \* the machine's CPUID and FEATURE_CONTROL answers
    mappings,   \* MmMapIoSpace mappings not yet unmapped
    affinity,   \* the CPUs the served thread is pinned to; {} for its own affinity
    last        \* the last request and what the driver did with it

vars == <<phase, platform, mappings, affinity, last>>

\* A logical processor: its group and its index in the group.
Cpu(g, i) == [group |-> g, index |-> i]
CpuOfIndex(n) == Cpu(n \div CpusPerGroup, n % CpusPerGroup)
Cpus == {Cpu(g, i) : g \in 0..(NumGroups - 1), i \in 0..(CpusPerGroup - 1)}

-----------------------------------------------------------------------------
(* Helpers translated from the code.                                       *)

\* Mutant: IA32_SYSENTER_EIP is missing from the switch.
CheckMSRAllowedNoEip(msr) ==
    msr \notin {STAR, LSTAR, CSTAR, SYSENTER_CS, SYSENTER_ESP}

\* CheckMSRAllowed: STATUS_SUCCESS unless the address is one of six.
CheckMSRAllowed(msr) ==
    msr \notin {STAR, LSTAR, CSTAR, SYSENTER_CS, SYSENTER_ESP, SYSENTER_EIP}

\* Mutant: only the global SENTER enable is tested.
TxtCapableNoLeaves(p) == p.genuineIntel /\ p.smx /\ p.senterGlobal

\* The three checks of IOCTL_IMMUNE_GETTXTPUB, in the code's order.
TxtCapable(p) ==
    /\ p.genuineIntel
    /\ p.smx
    /\ p.senterGlobal /\ p.senterLeaves

\* OutputBufferLength < len
BufferTooSmall(req, len) == req.outLen < len

\* Mutant: the index is compared with > instead of >=.
GetMsrRequestInvalidOffByOne(req) == req.inLen < 8 \/ req.cpu > NumCpus

\* The request carries no CPU index and register (InputBufferLength below
\* 2 * sizeof(UINT32)), or the index is not below the active count.
GetMsrRequestInvalid(req) == req.inLen < 8 \/ req.cpu >= NumCpus

\* KeSetSystemAffinityThreadEx((KAFFINITY)(1ULL << id)): the plain mask
\* carries no group, and the routine moves the thread into group 0, to
\* the bit id % MaskBits, whatever group the thread ran in.
PinTarget(id) == Cpu(0, id % MaskBits)

NoRecord(req, status) ==
    [none |-> FALSE, req |-> req, status |-> status, info |-> 0,
     physLen |-> 0, msrRead |-> FALSE, readOn |-> Cpu(0, 0)]

-----------------------------------------------------------------------------
(* Loading.                                                                *)

LoadFailures == {"none", "driverCreate", "initAllocate", "assignName",
                 "assignSddl", "deviceCreate", "queueCreate"}

Init ==
    /\ phase = "loading"
    /\ platform \in Platforms
    /\ mappings = 0
    /\ affinity = {}
    /\ last = [none |-> TRUE]

\* DriverEntry and immuneCPUDeviceAdd; every failure returns its status.
Load ==
    /\ phase = "loading"
    /\ \E failAt \in LoadFailures :
          phase' = IF failAt = "none" THEN "running" ELSE "loadFailed"
    /\ UNCHANGED <<platform, mappings, affinity, last>>

-----------------------------------------------------------------------------
(* Requests: immuneCPUEvtIoDeviceControl.                                  *)

\* Zero-length buffers and unknown codes.
Reject(req) ==
    /\ phase = "running"
    /\ req.outLen = 0 \/ req.inLen = 0 \/ req.ioctl = "OTHER"
    /\ last' = NoRecord(req, IF req.outLen = 0 \/ req.inLen = 0
                             THEN "INVALID_PARAMETER"
                             ELSE "INVALID_DEVICE_REQUEST")
    /\ UNCHANGED <<phase, platform, mappings, affinity>>

\* Mutant: the failed-mapping path also calls MmUnmapIoSpace.
ReadPhysicalMemoryUnmapOnFail(req, len) ==
    \E outcome \in {"ok", "noSpace"} \cup
                   (IF mappings < MaxMappings THEN {"copyFault"} ELSE {}) :
       /\ mappings' = CASE outcome = "copyFault" -> mappings + 1
                         [] outcome = "noSpace" -> mappings - 1
                         [] OTHER -> mappings
       /\ last' = NoRecord(req, "UNSUCCESSFUL")

\* ReadPhysicalMemory(pa, len) inside __try: MmMapIoSpace may find no
\* space; RtlCopyMemory may fault, and the exception leaves the function
\* before MmUnmapIoSpace.
ReadPhysicalMemory(req, len) ==
    \E outcome \in {"ok", "noSpace"} \cup
                   (IF mappings < MaxMappings THEN {"copyFault"} ELSE {}) :
       /\ mappings' = IF outcome = "copyFault" THEN mappings + 1 ELSE mappings
       /\ last' = [NoRecord(req, CASE outcome = "ok" -> "SUCCESS"
                                   [] outcome = "noSpace" -> "UNSUCCESSFUL"
                                   [] outcome = "copyFault" -> "EXCEPTION")
                   EXCEPT !.info = IF outcome = "ok" THEN len ELSE 0,
                          !.physLen = IF outcome = "noSpace" THEN 0 ELSE len]

\* IOCTL_IMMUNE_GETFLASH.
GetFlash(req) ==
    /\ phase = "running"
    /\ req.outLen > 0 /\ req.inLen > 0 /\ req.ioctl = "GETFLASH"
    /\ IF BufferTooSmall(req, FlashLen)
       THEN /\ last' = NoRecord(req, "BUFFER_TOO_SMALL")
            /\ UNCHANGED mappings
       ELSE ReadPhysicalMemory(req, FlashLen)
    /\ UNCHANGED <<phase, platform, affinity>>

\* IOCTL_IMMUNE_GETTXTPUB: the buffer test, then the capability gate.
GetTxtPub(req) ==
    /\ phase = "running"
    /\ req.outLen > 0 /\ req.inLen > 0 /\ req.ioctl = "GETTXTPUB"
    /\ \/ /\ BufferTooSmall(req, TxtLen)
          /\ last' = NoRecord(req, "BUFFER_TOO_SMALL")
          /\ UNCHANGED mappings
       \/ /\ ~BufferTooSmall(req, TxtLen) /\ ~TxtCapable(platform)
          /\ last' = NoRecord(req, "NOT_IMPLEMENTED")
          /\ UNCHANGED mappings
       \/ /\ ~BufferTooSmall(req, TxtLen) /\ TxtCapable(platform)
          /\ ReadPhysicalMemory(req, TxtLen)
    /\ UNCHANGED <<phase, platform, affinity>>

\* rdmsr inside __try on `cpu`: it faults, or it succeeds and the 8 bytes
\* are copied if the output buffer holds them.
RdmsrResults(req, cpu) ==
    LET read(status, info) ==
          [none |-> FALSE, req |-> req, status |-> status, info |-> info,
           physLen |-> 0, msrRead |-> TRUE, readOn |-> cpu]
    IN  {read("EXCEPTION", 0),
         IF req.outLen >= 8 THEN read("SUCCESS", 8)
                            ELSE read("BUFFER_TOO_SMALL", 0)}

\* IOCTL_IMMUNE_GETMSR: the index is
\* checked against the active count, the thread is pinned, then the MSR is
\* checked and read.  Nothing reverts the affinity.
GetMsr(req) ==
    /\ phase = "running"
    /\ req.outLen > 0 /\ req.inLen > 0 /\ req.ioctl = "GETMSR"
    /\ \/ /\ GetMsrRequestInvalid(req)
          /\ last' = NoRecord(req, "INVALID_PARAMETER")
          /\ UNCHANGED affinity
       \/ /\ ~GetMsrRequestInvalid(req)
          /\ affinity' = {PinTarget(req.cpu)}
          /\ \/ /\ ~CheckMSRAllowed(req.msr)
                /\ last' = NoRecord(req, "INVALID_PARAMETER")
             \/ /\ CheckMSRAllowed(req.msr)
                /\ last' \in RdmsrResults(req, PinTarget(req.cpu))
    /\ UNCHANGED <<phase, platform, mappings>>

IoDeviceControl ==
    \E req \in Requests :
       Reject(req) \/ GetFlash(req) \/ GetTxtPub(req) \/ GetMsr(req)

\* immuneCPUEvtDriverUnload does nothing.
Unload ==
    /\ phase = "running"
    /\ phase' = "unloaded"
    /\ UNCHANGED <<platform, mappings, affinity, last>>

Next == Load \/ IoDeviceControl \/ Unload

Spec == Init /\ [][Next]_vars

-----------------------------------------------------------------------------
(* Properties.                                                             *)

Statuses == {"SUCCESS", "INVALID_PARAMETER", "INVALID_DEVICE_REQUEST",
             "UNSUCCESSFUL", "EXCEPTION", "BUFFER_TOO_SMALL",
             "NOT_IMPLEMENTED"}

RequestRecord ==
    [none : {FALSE}, req : RequestType, status : Statuses, info : Nat,
     physLen : Nat, msrRead : BOOLEAN, readOn : [group : Nat, index : Nat]]

TypeOK ==
    /\ phase \in {"loading", "running", "loadFailed", "unloaded"}
    /\ platform \in PlatformType
    /\ mappings \in Nat
    /\ affinity \subseteq [group : Nat, index : Nat]
    /\ last \in RequestRecord \cup {[none |-> TRUE]}

\* The MSRs spec 4.3 lists as denied: STAR, LSTAR, CSTAR and the three
\* SYSENTER registers, which reveal where the kernel is.
SpecDeniedMsrs == {"STAR", "LSTAR", "CSTAR", "IA32_SYSENTER_CS",
                   "IA32_SYSENTER_ESP", "IA32_SYSENTER_EIP"}

\* rdmsr is never executed for a denied register, on any CPU.
DeniedMsrNeverRead ==
    ~last.none /\ last.msrRead => last.req.msr \notin SpecDeniedMsrs

\* TXT public space is read only on a machine with an Intel CPU, SMX, and
\* SENTER enabled globally and for at least one leaf (spec 4.4).
TxtReadOnlyWhenCapable ==
    ~last.none /\ last.req.ioctl = "GETTXTPUB" /\ last.physLen > 0 =>
        /\ platform.genuineIntel /\ platform.smx
        /\ platform.senterGlobal /\ platform.senterLeaves

\* Every mapping made for a physical read is released before the request
\* completes (spec 4.2: "always releasing the mapping before returning").
NoMappingLeak ==
    mappings = 0

\* The thread's affinity is back to its own when a request completes: the
\* pin lasts "for the duration of the call" (spec 4.3 step 3, section 5)
\* and is restored "on every exit path, including early-return failure
\* paths" (section 9).
AffinityRestored ==
    affinity = {}

\* The MSR is read on the logical CPU the request names: "the mediator
\* must execute the read *on* that core" (spec 4.3 step 3).
MsrReadOnRequestedCpu ==
    ~last.none /\ last.msrRead => last.readOn = CpuOfIndex(last.req.cpu)

-----------------------------------------------------------------------------
(* The driver implements the mediator of spec 4.2 to 4.4 and 7.            *)

\* The mediator's life: before DriverEntry ran, serving, or gone.
MediatorState ==
    CASE phase = "loading" -> "before"
      [] phase = "running" -> "up"
      [] OTHER             -> "after"

\* The access the last request made: the physical range of its IOCTL when
\* ReadPhysicalMemory mapped it, or rdmsr.
AnswerOf(r) ==
    IF r.none THEN [served |-> FALSE]
    ELSE [served |-> TRUE, req |-> r.req, info |-> r.info,
          access |-> IF r.msrRead THEN "msr"
                     ELSE IF r.physLen = 0 THEN "none"
                     ELSE IF r.req.ioctl = "GETFLASH" THEN "flash"
                     ELSE "txt"]

MediatorAnswer == AnswerOf(last)

Mediator == INSTANCE CpuMediator
              WITH DeniedMsrs <- SpecDeniedMsrs,
                   state <- MediatorState, answer <- MediatorAnswer

\* Every behaviour of the driver is one of the mediator's: a register is
\* read only for a request with an 8-byte input whose CPU index is below
\* the active count (spec 4.3 steps 2 and 4, including the boundary
\* index = count of section 8), the flash window and TXT space only into
\* a buffer that holds them and TXT only on a capable platform, failures
\* report zero bytes (section 7), and nothing is served before the driver
\* is loaded or after it is unloaded.
MediatorSpec == Mediator!Spec

=============================================================================
