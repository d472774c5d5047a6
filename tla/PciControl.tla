----------------------------- MODULE PciControl -----------------------------
(***************************************************************************)
(* The immunePCI_ctrl KMDF control driver (pcicontrol.c): it loads        *)
(* (DriverEntry, immunePCICtrlDeviceAdd), serves IOCTL_PHYMEM_GETPCI      *)
(* (immunePCICtrlEvtIoDeviceControl, ReadPciConfig) through a cached      *)
(* PCI_BUS_INTERFACE_STANDARD it acquires lazily from the immunePCI_flt   *)
(* filter device (GetPCIBusInterfaceStandard), and unloads                *)
(* (immunePCICtrlEvtDriverUnload).                                        *)
(*                                                                         *)
(* The default queue is WdfIoQueueDispatchSequential (line 126) and the   *)
(* device is exclusive (line 93), so the framework hands the driver one  *)
(* request at a time: a request is one atomic step.  Unload runs only     *)
(* after the queue is empty.                                              *)
(*                                                                         *)
(* The outcomes of the framework and bus driver calls (pool allocation,   *)
(* I/O target creation, open and interface query, the byte count         *)
(* ReadConfig returns) are chosen by the environment.                     *)
(*                                                                         *)
(* ULONG arithmetic is kept modulo 2^UlongBits; the slot and bus fields   *)
(* keep their widths (UCHAR bus, 5-bit device, 3-bit function), scaled    *)
(* by the constants.                                                      *)
(***************************************************************************)
EXTENDS Naturals

CONSTANTS
    UlongBits,        \* width of ULONG (32)
    ConfigLimit,      \* PCI configuration space size checked (4096)
    BusBits,          \* width of the UCHAR bus number (8)
    DevBits,          \* width of PCI_SLOT_NUMBER.DeviceNumber (5)
    FuncBits,         \* width of PCI_SLOT_NUMBER.FunctionNumber (3)
    PciRequestSize,   \* sizeof(PHYMEM_PCI) (20)
    Requests          \* the IOCTL requests a client may send

ASSUME WidthAssumption ==
    /\ UlongBits \in Nat \ {0}
    /\ ConfigLimit \in Nat
    /\ ConfigLimit < 2^UlongBits
    /\ BusBits \in Nat /\ DevBits \in Nat /\ FuncBits \in Nat
    \* The field ranges are positive (true of every natural width; stated
    \* because the provers cannot derive it without induction).
    /\ \A w \in {BusBits, DevBits, FuncBits} : 2^w \in Nat \ {0}
    /\ PciRequestSize \in Nat \ {0}

\* A request: its IOCTL code, buffer lengths and the PHYMEM_PCI fields.
IoctlCodes == {"GETPCI", "OTHER"}
Ulong == 0..(2^UlongBits - 1)
RequestType ==
    [ioctl : IoctlCodes, inLen : Nat, outLen : Nat,
     bus : Ulong, dev : Ulong, func : Ulong, regOff : Ulong, bytes : Ulong]

ASSUME RequestAssumption == Requests \subseteq RequestType

\* Where DriverEntry and immunePCICtrlDeviceAdd can stop; "none" is a
\* successful load.
LoadFailures == {"none", "driverCreate", "initAllocate", "assignName",
                 "assignSddl", "deviceCreate", "poolAlloc", "queueCreate"}

\* The outcome of GetPCIBusInterfaceStandard's three framework calls.
AcquireOutcomes == {"ok", "targetCreateFails", "targetOpenFails", "queryFails"}

\* NTSTATUS values the driver completes requests with.
Statuses == {"SUCCESS", "INVALID_PARAMETER", "INVALID_DEVICE_REQUEST",
             "UNSUCCESSFUL"}

VARIABLES
    phase,          \* "loading", "running", "unloaded", "loadFailed", "crashed"
    busInterface,   \* the global: "null", "zeroed", "filled" (by a query), "freed"
    refs,           \* interface references held (taken by a successful query)
    targets,        \* WDFIOTARGET objects alive
    last            \* the last request and what the driver did with it

vars == <<phase, busInterface, refs, targets, last>>

-----------------------------------------------------------------------------
(* Loading: DriverEntry and immunePCICtrlDeviceAdd.                        *)

\* Mutant: a failed ExAllocatePoolZero is not checked and loading goes on.
DeviceAddIgnoresPoolFailure(failAt) ==
    [loaded |-> failAt \in {"none", "poolAlloc"},
     pool   |-> IF failAt \in {"none", "queueCreate"} THEN "zeroed" ELSE "null"]

\* The driver is loaded when no call failed; the bus interface block is
\* allocated (and zeroed) after WdfDeviceCreate and before
\* WdfIoQueueCreate, and nothing frees it on a later failure.
DeviceAddResult(failAt) ==
    [loaded |-> failAt = "none",
     pool   |-> IF failAt \in {"none", "queueCreate"} THEN "zeroed" ELSE "null"]

Init ==
    /\ phase = "loading"
    /\ busInterface = "null"
    /\ refs = 0
    /\ targets = 0
    /\ last = [none |-> TRUE]

\* DriverEntry: WdfDriverCreate, WdfControlDeviceInitAllocate, then
\* immunePCICtrlDeviceAdd.  A failed DriverEntry is not followed by
\* EvtDriverUnload; the driver object's cleanup callback does nothing.
Load ==
    /\ phase = "loading"
    /\ \E failAt \in LoadFailures :
          LET r == DeviceAddResult(failAt)
          IN  /\ phase' = IF r.loaded THEN "running" ELSE "loadFailed"
              /\ busInterface' = r.pool
    /\ UNCHANGED <<refs, targets, last>>

-----------------------------------------------------------------------------
(* Requests: immunePCICtrlEvtIoDeviceControl and ReadPciConfig.            *)

\* The parameter check of IOCTL_PHYMEM_GETPCI; the sum is a ULONG.
PciRequestValid(req) ==
    /\ req.inLen = PciRequestSize
    /\ (req.regOff + req.bytes) % 2^UlongBits <= ConfigLimit
    /\ req.outLen >= req.bytes

\* Mutant: the cached interface is never reused.
NeedAcquireAlways(bi) == TRUE

\* busInterface == NULL || busInterface->ReadConfig == NULL
NeedAcquire(bi) == bi # "filled"

\* Mutant: WdfObjectDelete is missing after a failed interface query.
TargetsKeptLeakOnQuery(outcome) ==
    IF outcome \in {"ok", "queryFails"} THEN 1 ELSE 0

\* I/O targets GetPCIBusInterfaceStandard leaves alive: a target whose open
\* or query failed is deleted; after a successful query it stays, owned by
\* the device.
TargetsKept(outcome) == IF outcome = "ok" THEN 1 ELSE 0

\* The bus number as the UCHAR cast leaves it, and the slot bit fields.
TruncBus(b)  == b % 2^BusBits
TruncDev(d)  == d % 2^DevBits
TruncFunc(f) == f % 2^FuncBits

NoCallRecord(req, status) ==
    [none |-> FALSE, req |-> req, called |-> FALSE, status |-> status,
     info |-> 0, cBus |-> 0, cDev |-> 0, cFunc |-> 0, cOff |-> 0, cLen |-> 0]

\* A request the handler rejects before ReadPciConfig.
Reject(req) ==
    /\ phase = "running"
    /\ \/ req.outLen = 0 \/ req.inLen = 0
       \/ req.ioctl # "GETPCI"
       \/ ~PciRequestValid(req)
    /\ last' = NoCallRecord(req,
                  IF req.outLen = 0 \/ req.inLen = 0 THEN "INVALID_PARAMETER"
                  ELSE IF req.ioctl # "GETPCI" THEN "INVALID_DEVICE_REQUEST"
                  ELSE "INVALID_PARAMETER")
    /\ UNCHANGED <<phase, busInterface, refs, targets>>

\* IOCTL_PHYMEM_GETPCI with valid parameters: ReadPciConfig acquires the
\* interface if it is not cached, then raises IRQL to DISPATCH_LEVEL, calls
\* ReadConfig, lowers IRQL and compares the byte count.  A failed
\* acquisition is reported as STATUS_INVALID_PARAMETER.  Querying into a
\* NULL busInterface writes through a NULL pointer: a bugcheck.
ReadPci(req) ==
    /\ phase = "running"
    /\ req.outLen > 0 /\ req.inLen > 0
    /\ req.ioctl = "GETPCI"
    /\ PciRequestValid(req)
    /\ \E outcome \in AcquireOutcomes, ret \in {req.bytes, 0} :
          LET acquire  == NeedAcquire(busInterface)
              ok       == ~acquire \/ outcome = "ok"
              bi       == IF acquire /\ outcome = "ok" THEN "filled"
                                                       ELSE busInterface
              status   == IF ~ok THEN "INVALID_PARAMETER"
                          ELSE IF ret = req.bytes THEN "SUCCESS"
                          ELSE "UNSUCCESSFUL"
          IN  IF acquire /\ busInterface = "null"
              THEN /\ phase' = "crashed"
                   /\ last' = NoCallRecord(req, "INVALID_PARAMETER")
                   /\ UNCHANGED <<busInterface, refs, targets>>
              ELSE /\ busInterface' = bi
                   /\ refs' = IF acquire /\ outcome = "ok" THEN refs + 1
                                                          ELSE refs
                   /\ targets' = IF acquire THEN targets + TargetsKept(outcome)
                                            ELSE targets
                   /\ last' =
                        IF ok
                        THEN [none |-> FALSE, req |-> req, called |-> TRUE,
                              status |-> status,
                              info |-> IF status = "SUCCESS" THEN req.bytes
                                                             ELSE 0,
                              cBus |-> TruncBus(req.bus),
                              cDev |-> TruncDev(req.dev),
                              cFunc |-> TruncFunc(req.func),
                              cOff |-> req.regOff, cLen |-> req.bytes]
                        ELSE NoCallRecord(req, status)
                   /\ UNCHANGED phase

IoDeviceControl ==
    \E req \in Requests : Reject(req) \/ ReadPci(req)

-----------------------------------------------------------------------------
(* Unloading: immunePCICtrlEvtDriverUnload.                                *)

\* Mutant: the InterfaceDereference test is dropped.
HoldsReferenceAnyBlock(bi) == bi # "null"

\* busInterface && busInterface->InterfaceDereference: a successful query
\* filled the block.
HoldsReference(bi) == bi = "filled"

\* The interface is dereferenced and the block freed only when
\* InterfaceDereference is set, that is after a successful query.  The
\* framework deletes the device and the I/O target it owns.
Unload ==
    /\ phase = "running"
    /\ phase' = "unloaded"
    /\ busInterface' = IF HoldsReference(busInterface) THEN "freed"
                                                      ELSE busInterface
    /\ refs' = IF HoldsReference(busInterface) THEN refs - 1 ELSE refs
    /\ targets' = 0
    /\ UNCHANGED last

Next == Load \/ IoDeviceControl \/ Unload

Spec == Init /\ [][Next]_vars

-----------------------------------------------------------------------------
(* Properties.                                                             *)

RequestRecord ==
    [none : {FALSE}, req : RequestType, called : BOOLEAN, status : Statuses,
     info : Nat, cBus : Nat, cDev : Nat, cFunc : Nat, cOff : Nat, cLen : Nat]

TypeOK ==
    /\ phase \in {"loading", "running", "unloaded", "loadFailed", "crashed"}
    /\ busInterface \in {"null", "zeroed", "filled", "freed"}
    /\ refs \in Nat
    /\ targets \in Nat
    /\ last \in RequestRecord \cup {[none |-> TRUE]}

\* The interface is referenced exactly while it is cached: requests after
\* a successful acquisition reuse it instead of querying again, and a
\* failed acquisition takes no reference (spec 3 and 4.5).
InterfaceHeldOnce ==
    refs = IF busInterface = "filled" THEN 1 ELSE 0

\* Across any sequence of failed and successful acquisitions the driver
\* keeps exactly one I/O target while running with the interface cached,
\* and none otherwise: failed attempts delete the target they created.
IoTargetNotLeaked ==
    targets = IF phase = "running" /\ busInterface = "filled" THEN 1 ELSE 0

\* No request makes the driver query the interface into a NULL buffer.
NoQueryIntoNull ==
    phase # "crashed"

\* ReadConfig is only asked for bytes inside configuration space:
\* "register offset + bytes to read cannot exceed 4096" (line 383).
ConfigAccessInBounds ==
    ~last.none /\ last.called => last.cOff + last.cLen <= ConfigLimit

\* Once the driver is gone, after unload or after a load that failed, no
\* pool block is left allocated (spec 3: the handle is "released on
\* shutdown"; a failed load is not followed by unload).
PoolReleasedWhenDriverGone ==
    phase \in {"unloaded", "loadFailed"} => busInterface \in {"null", "freed"}

-----------------------------------------------------------------------------
(* The driver as the mediator of spec 4.5 (PciMediator).                   *)

\* The mediator is up while the driver runs.  A bugcheck ends it like a
\* shutdown; NoQueryIntoNull shows that none happens.
MediatorState ==
    CASE phase = "loading" -> "before"
      [] phase = "running" -> "up"
      [] OTHER             -> "after"

\* The handle is the block busInterface points to: acquired once a query
\* filled it, released once unload freed it, uninitialized before.
MediatorHandle ==
    CASE busInterface = "filled" -> "acquired"
      [] busInterface = "freed"  -> "released"
      [] OTHER                   -> "uninitialized"

\* Whether the last request called ReadConfig, and the bytes it reported.
AnswerOf(r) ==
    IF r.none THEN [served |-> FALSE]
    ELSE [served |-> TRUE, req |-> r.req, read |-> r.called, info |-> r.info]

Mediator == INSTANCE PciMediator
              WITH state <- MediatorState, handle <- MediatorHandle,
                   answer <- AnswerOf(last)

\* Every behaviour of the driver is one of the mediator's: the interface
\* is acquired at most once and kept until unload releases it, a failed
\* acquisition leaves it to be retried (spec 4.5 step 2), ReadConfig is
\* called only for a GETPCI request of the fixed input size whose output
\* buffer holds the bytes asked for, and it reports all of them or none
\* (step 4).
MediatorSpec == Mediator!Spec

=============================================================================
