------------------------- MODULE PciControlProofs -------------------------
(***************************************************************************)
(* Proofs about PciControl for every ULONG width, field width, request    *)
(* size and set of requests that satisfy the module's assumptions.        *)
(*                                                                         *)
(* TypeOK is not inductive by itself: Unload decrements refs, which stays *)
(* a natural number only because a filled interface holds exactly one     *)
(* reference.  The two reference-counting invariants are inductive        *)
(* together with TypeOK: a query that fills the interface is made only    *)
(* when none is cached (so refs and targets go from 0 to 1), a failed     *)
(* query keeps no target, a crash happens only with nothing acquired, and *)
(* Unload releases the reference and the framework the target.            *)
(***************************************************************************)
EXTENDS PciControl, TLAPS

\* Nothing is allocated before DriverEntry has run.
LoadingClean == phase = "loading" => busInterface = "null"

IInv == TypeOK /\ InterfaceHeldOnce /\ IoTargetNotLeaked /\ LoadingClean

USE WidthAssumption, RequestAssumption

-----------------------------------------------------------------------------
(* The records a request leaves behind.                                    *)

LEMMA NoCallRecordType ==
    ASSUME NEW req \in RequestType, NEW s \in Statuses
    PROVE  NoCallRecord(req, s) \in RequestRecord
  BY DEF NoCallRecord, RequestRecord

\* The truncated bus, device and function numbers are naturals.
LEMMA TruncType ==
    ASSUME NEW x \in Nat
    PROVE  TruncBus(x) \in Nat /\ TruncDev(x) \in Nat /\ TruncFunc(x) \in Nat
  BY DEF TruncBus, TruncDev, TruncFunc

LEMMA RequestFields ==
    ASSUME NEW req \in Requests
    PROVE  /\ req \in RequestType
           /\ req.bus \in Nat /\ req.dev \in Nat /\ req.func \in Nat
           /\ req.regOff \in Nat /\ req.bytes \in Nat
  BY DEF RequestType, Ulong

-----------------------------------------------------------------------------
(* Induction.                                                              *)

LEMMA InitIInv == Init => IInv
  BY DEF Init, IInv, TypeOK, InterfaceHeldOnce, IoTargetNotLeaked, LoadingClean

LEMMA LoadIInv == IInv /\ Load => IInv'
<1> SUFFICES ASSUME IInv, Load PROVE IInv'
  OBVIOUS
<1>1. phase' \in {"running", "loadFailed"}
  BY DEF Load
<1>2. busInterface = "null" /\ refs = 0 /\ targets = 0
  BY DEF Load, IInv, InterfaceHeldOnce, IoTargetNotLeaked, LoadingClean
<1>3. busInterface' \in {"null", "zeroed"}
  BY DEF Load, DeviceAddResult
<1>4. UNCHANGED <<refs, targets, last>>
  BY DEF Load
<1>5. QED
  BY <1>1, <1>2, <1>3, <1>4
     DEF IInv, TypeOK, InterfaceHeldOnce, IoTargetNotLeaked, LoadingClean

LEMMA RejectIInv ==
    ASSUME IInv, NEW req \in Requests, Reject(req)
    PROVE  IInv'
<1>1. last' \in RequestRecord
  <2>1. req \in RequestType
    BY RequestFields
  <2>2. QED
    BY <2>1, NoCallRecordType DEF Reject, Statuses
<1>2. UNCHANGED <<phase, busInterface, refs, targets>>
  BY DEF Reject
<1>3. QED
  BY <1>1, <1>2 DEF IInv, TypeOK, InterfaceHeldOnce, IoTargetNotLeaked, LoadingClean

LEMMA ReadPciIInv ==
    ASSUME IInv, NEW req \in Requests, ReadPci(req)
    PROVE  IInv'
<1>1. PICK outcome \in AcquireOutcomes, ret \in {req.bytes, 0} :
          LET acquire  == NeedAcquire(busInterface)
              ok       == ~acquire \/ outcome = "ok"
              bi       == IF acquire /\ outcome = "ok" THEN "filled"
                                                       ELSE busInterface
              status   == IF ~ok THEN "INVALID_PARAMETER"
                          ELSE IF ret = req.bytes THEN "SUCCESS"
                          ELSE "UNSUCCESSFUL"
          IN  IF acquire /\ busInterface = "null"
              THEN /\ phase' = "crashed"
                   /\ last' = NoCallRecord(req, "INVALID_PARAMETER")
                   /\ UNCHANGED <<busInterface, refs, targets>>
              ELSE /\ busInterface' = bi
                   /\ refs' = IF acquire /\ outcome = "ok" THEN refs + 1
                                                          ELSE refs
                   /\ targets' = IF acquire THEN targets + TargetsKept(outcome)
                                            ELSE targets
                   /\ last' =
                        IF ok
                        THEN [none |-> FALSE, req |-> req, called |-> TRUE,
                              status |-> status,
                              info |-> IF status = "SUCCESS" THEN req.bytes
                                                             ELSE 0,
                              cBus |-> TruncBus(req.bus),
                              cDev |-> TruncDev(req.dev),
                              cFunc |-> TruncFunc(req.func),
                              cOff |-> req.regOff, cLen |-> req.bytes]
                        ELSE NoCallRecord(req, status)
                   /\ UNCHANGED phase
  BY DEF ReadPci
<1>2. phase = "running"
  BY DEF ReadPci
<1>3. /\ req \in RequestType
      /\ req.bus \in Nat /\ req.dev \in Nat /\ req.func \in Nat
      /\ req.regOff \in Nat /\ req.bytes \in Nat
  BY RequestFields
<1>4. /\ TruncBus(req.bus) \in Nat /\ TruncDev(req.dev) \in Nat
      /\ TruncFunc(req.func) \in Nat
  BY <1>3, TruncType
<1>5. NoCallRecord(req, "INVALID_PARAMETER") \in RequestRecord
  BY <1>3, NoCallRecordType DEF Statuses
<1>6. CASE NeedAcquire(busInterface) /\ busInterface = "null"
  \* The query writes through NULL: nothing was acquired before.
  <2>1. refs = 0 /\ targets = 0
    BY <1>6 DEF IInv, InterfaceHeldOnce, IoTargetNotLeaked
  <2>2. phase' = "crashed" /\ last' = NoCallRecord(req, "INVALID_PARAMETER")
        /\ UNCHANGED <<busInterface, refs, targets>>
    BY <1>1, <1>6
  <2>3. QED
    BY <1>5, <1>6, <2>1, <2>2
       DEF IInv, TypeOK, InterfaceHeldOnce, IoTargetNotLeaked, LoadingClean
<1>7. CASE NeedAcquire(busInterface) /\ busInterface # "null"
           /\ outcome = "ok"
  \* The first successful acquisition takes one reference and one target.
  <2>1. busInterface # "filled"
    BY <1>7 DEF NeedAcquire
  <2>2. refs = 0 /\ targets = 0
    BY <1>2, <2>1 DEF IInv, InterfaceHeldOnce, IoTargetNotLeaked
  <2>3. /\ busInterface' = "filled" /\ refs' = refs + 1
        /\ targets' = targets + TargetsKept(outcome)
        /\ phase' = phase
        /\ last' = [none |-> FALSE, req |-> req, called |-> TRUE,
                    status |-> IF ret = req.bytes THEN "SUCCESS"
                                                  ELSE "UNSUCCESSFUL",
                    info |-> IF ret = req.bytes THEN req.bytes ELSE 0,
                    cBus |-> TruncBus(req.bus),
                    cDev |-> TruncDev(req.dev),
                    cFunc |-> TruncFunc(req.func),
                    cOff |-> req.regOff, cLen |-> req.bytes]
    BY <1>1, <1>7
  <2>4. TargetsKept(outcome) = 1
    BY <1>7 DEF TargetsKept
  <2>5. last' \in RequestRecord
    BY <1>3, <1>4, <2>3 DEF RequestRecord, Statuses
  <2>6. QED
    BY <1>2, <2>2, <2>3, <2>4, <2>5
       DEF IInv, TypeOK, InterfaceHeldOnce, IoTargetNotLeaked, LoadingClean
<1>8. CASE NeedAcquire(busInterface) /\ busInterface # "null"
           /\ outcome # "ok"
  \* A failed acquisition keeps neither a reference nor a target.
  <2>1. /\ busInterface' = busInterface /\ refs' = refs
        /\ targets' = targets + TargetsKept(outcome)
        /\ phase' = phase
        /\ last' = NoCallRecord(req, "INVALID_PARAMETER")
    BY <1>1, <1>8
  <2>2. TargetsKept(outcome) = 0
    BY <1>8 DEF TargetsKept
  <2>3. QED
    BY <1>5, <2>1, <2>2
       DEF IInv, TypeOK, InterfaceHeldOnce, IoTargetNotLeaked, LoadingClean
<1>9. CASE ~NeedAcquire(busInterface)
  \* The cached interface is reused.
  <2>1. /\ busInterface' = busInterface /\ refs' = refs
        /\ targets' = targets /\ phase' = phase
        /\ last' = [none |-> FALSE, req |-> req, called |-> TRUE,
                    status |-> IF ret = req.bytes THEN "SUCCESS"
                                                  ELSE "UNSUCCESSFUL",
                    info |-> IF ret = req.bytes THEN req.bytes ELSE 0,
                    cBus |-> TruncBus(req.bus),
                    cDev |-> TruncDev(req.dev),
                    cFunc |-> TruncFunc(req.func),
                    cOff |-> req.regOff, cLen |-> req.bytes]
    BY <1>1, <1>9
  <2>2. last' \in RequestRecord
    BY <1>3, <1>4, <2>1 DEF RequestRecord, Statuses
  <2>3. QED
    BY <2>1, <2>2 DEF IInv, TypeOK, InterfaceHeldOnce, IoTargetNotLeaked, LoadingClean
<1>10. QED
  BY <1>6, <1>7, <1>8, <1>9

LEMMA UnloadIInv == IInv /\ Unload => IInv'
<1> SUFFICES ASSUME IInv, Unload PROVE IInv'
  OBVIOUS
<1>1. CASE busInterface = "filled"
  <2>1. refs = 1
    BY <1>1 DEF IInv, InterfaceHeldOnce
  <2>2. busInterface' = "freed" /\ refs' = 0 /\ targets' = 0
        /\ phase' = "unloaded" /\ UNCHANGED last
    BY <1>1, <2>1 DEF Unload, HoldsReference
  <2>3. QED
    BY <2>2 DEF IInv, TypeOK, InterfaceHeldOnce, IoTargetNotLeaked, LoadingClean
<1>2. CASE busInterface # "filled"
  <2>1. busInterface' = busInterface /\ refs' = refs /\ targets' = 0
        /\ phase' = "unloaded" /\ UNCHANGED last
    BY <1>2 DEF Unload, HoldsReference
  <2>2. QED
    BY <1>2, <2>1 DEF IInv, TypeOK, InterfaceHeldOnce, IoTargetNotLeaked, LoadingClean
<1>3. QED
  BY <1>1, <1>2

LEMMA NextIInv == IInv /\ [Next]_vars => IInv'
<1> SUFFICES ASSUME IInv, [Next]_vars PROVE IInv'
  OBVIOUS
<1>1. CASE Load
  BY <1>1, LoadIInv
<1>2. CASE IoDeviceControl
  <2>1. PICK req \in Requests : Reject(req) \/ ReadPci(req)
    BY <1>2 DEF IoDeviceControl
  <2>2. QED
    BY <2>1, RejectIInv, ReadPciIInv
<1>3. CASE Unload
  BY <1>3, UnloadIInv
<1>4. CASE UNCHANGED vars
  BY <1>4 DEF vars, IInv, TypeOK, InterfaceHeldOnce, IoTargetNotLeaked, LoadingClean
<1>5. QED
  BY <1>1, <1>2, <1>3, <1>4 DEF Next

-----------------------------------------------------------------------------
(* The theorems.                                                           *)

\* The strengthened invariant holds in every reachable state.
THEOREM IInvariant == Spec => []IInv
  BY InitIInv, NextIInv, PTL DEF Spec

\* The variables keep their types (the property run pci_control checks).
THEOREM TypeCorrect == Spec => []TypeOK
  BY IInvariant, PTL DEF IInv

\* The bus interface is referenced exactly while it is cached, across any
\* sequence of loads, failed and successful acquisitions and unload: a
\* cached interface is never queried again (pci_control checks it).
THEOREM InterfaceHeldOnceHolds == Spec => []InterfaceHeldOnce
  BY IInvariant, PTL DEF IInv

\* Failed acquisitions delete their I/O target: exactly one target is alive
\* while the driver runs with the interface cached (pci_control checks it).
THEOREM IoTargetNotLeakedHolds == Spec => []IoTargetNotLeaked
  BY IInvariant, PTL DEF IInv

-----------------------------------------------------------------------------
(* The request path.  NoQueryIntoNull needs the reason no query goes into *)
(* NULL: while the driver runs, the block exists, because a load that did *)
(* not allocate it failed.                                                 *)

\* A running driver has its bus interface block.
RunningHasBlock == phase = "running" => busInterface \in {"zeroed", "filled"}

RInv == IInv /\ RunningHasBlock /\ NoQueryIntoNull

LEMMA InitRInv == Init => RInv
  BY InitIInv DEF Init, RInv, RunningHasBlock, NoQueryIntoNull

LEMMA LoadRInv == RInv /\ Load => RInv'
<1> SUFFICES ASSUME RInv, Load PROVE RInv'
  OBVIOUS
<1>1. IInv'
  BY LoadIInv DEF RInv
<1>2. PICK failAt \in LoadFailures :
         /\ phase' = IF DeviceAddResult(failAt).loaded THEN "running"
                                                     ELSE "loadFailed"
         /\ busInterface' = DeviceAddResult(failAt).pool
  BY DEF Load
<1>3. RunningHasBlock'
  BY <1>2 DEF RunningHasBlock, DeviceAddResult
<1>4. QED
  BY <1>1, <1>2, <1>3 DEF Load, RInv, NoQueryIntoNull

LEMMA RejectRInv ==
    ASSUME RInv, NEW req \in Requests, Reject(req)
    PROVE  RInv'
<1>1. IInv'
  BY RejectIInv DEF RInv
<1>2. ~last'.called
  BY DEF Reject, NoCallRecord
<1>3. QED
  BY <1>1, <1>2
     DEF Reject, RInv, RunningHasBlock, NoQueryIntoNull

LEMMA ReadPciRInv ==
    ASSUME RInv, NEW req \in Requests, ReadPci(req)
    PROVE  RInv'
<1>1. IInv'
  BY ReadPciIInv DEF RInv
<1>2. phase = "running" /\ busInterface \in {"zeroed", "filled"}
  BY DEF ReadPci, RInv, RunningHasBlock
<1>3. PICK outcome \in AcquireOutcomes, ret \in {req.bytes, 0} :
         LET acquire  == NeedAcquire(busInterface)
             ok       == ~acquire \/ outcome = "ok"
             status   == IF ~ok THEN "INVALID_PARAMETER"
                         ELSE IF ret = req.bytes THEN "SUCCESS"
                         ELSE "UNSUCCESSFUL"
         IN  /\ busInterface' = IF acquire /\ outcome = "ok" THEN "filled"
                                                            ELSE busInterface
             /\ phase' = phase
             /\ last' =
                  IF ok
                  THEN [none |-> FALSE, req |-> req, called |-> TRUE,
                        status |-> status,
                        info |-> IF status = "SUCCESS" THEN req.bytes ELSE 0,
                        cBus |-> TruncBus(req.bus),
                        cDev |-> TruncDev(req.dev),
                        cFunc |-> TruncFunc(req.func),
                        cOff |-> req.regOff, cLen |-> req.bytes]
                  ELSE NoCallRecord(req, status)
  \* The block is there, so the NULL branch is not taken.
  BY <1>2 DEF ReadPci
<1>4. RunningHasBlock' /\ NoQueryIntoNull'
  BY <1>2, <1>3 DEF RunningHasBlock, NoQueryIntoNull
<1>5. QED
  BY <1>1, <1>4 DEF RInv

LEMMA UnloadRInv == RInv /\ Unload => RInv'
  BY UnloadIInv DEF Unload, RInv, RunningHasBlock, NoQueryIntoNull

LEMMA NextRInv == RInv /\ [Next]_vars => RInv'
<1> SUFFICES ASSUME RInv, [Next]_vars PROVE RInv'
  OBVIOUS
<1>1. CASE Load
  BY <1>1, LoadRInv
<1>2. CASE IoDeviceControl
  <2>1. PICK req \in Requests : Reject(req) \/ ReadPci(req)
    BY <1>2 DEF IoDeviceControl
  <2>2. QED
    BY <2>1, RejectRInv, ReadPciRInv
<1>3. CASE Unload
  BY <1>3, UnloadRInv
<1>4. CASE UNCHANGED vars
  BY <1>4, NextIInv
     DEF vars, RInv, RunningHasBlock, NoQueryIntoNull
<1>5. QED
  BY <1>1, <1>2, <1>3, <1>4 DEF Next

\* The request path's invariant holds in every reachable state.
THEOREM RequestInvariant == Spec => []RInv
  BY InitRInv, NextRInv, PTL DEF Spec

\* No request makes ReadPciConfig query the interface into a NULL block:
\* DeviceAdd fails the load whenever ExAllocatePoolZero returned NULL, so
\* a running driver always has the block (pci_control checks it).
THEOREM NoQueryIntoNullHolds == Spec => []NoQueryIntoNull
  BY RequestInvariant, PTL DEF RInv

-----------------------------------------------------------------------------
(* The driver implements the mediator of spec 4.5.  Under the mapping,    *)
(* DriverEntry is the mediator's Start and unload its Stop; a rejected   *)
(* request, and a request whose acquisition fails, is a Refuse; a request *)
(* that reaches ReadConfig is a ReadConfig, acquiring the handle when the *)
(* query filled the block in that step.  RInv supplies the block a       *)
(* running driver has, so that the NULL query is never the step taken.   *)

LEMMA LoadRefines == RInv /\ Load => Mediator!Start
<1> SUFFICES ASSUME RInv, Load PROVE Mediator!Start
  OBVIOUS
<1>1. busInterface = "null" /\ phase = "loading"
  BY DEF Load, RInv, IInv, LoadingClean
<1>2. PICK failAt \in LoadFailures :
         /\ phase' = IF DeviceAddResult(failAt).loaded THEN "running"
                                                       ELSE "loadFailed"
         /\ busInterface' = DeviceAddResult(failAt).pool
  BY DEF Load
<1>3. busInterface' \in {"null", "zeroed"}
  BY <1>2 DEF DeviceAddResult
<1>4. UNCHANGED last
  BY DEF Load
<1>5. QED
  BY <1>1, <1>2, <1>3, <1>4
     DEF Mediator!Start, MediatorState, MediatorHandle, DeviceAddResult

LEMMA RejectRefines ==
    ASSUME RInv, NEW req \in Requests, Reject(req)
    PROVE  Mediator!Refuse(req)
<1>1. phase = "running" /\ UNCHANGED <<phase, busInterface>>
  BY DEF Reject
<1>2. PICK st \in Statuses : last' = NoCallRecord(req, st)
  BY DEF Reject, Statuses
<1>3. AnswerOf(last') = Mediator!Answer(req, FALSE, 0)
  BY <1>2 DEF AnswerOf, NoCallRecord, Mediator!Answer
<1>4. QED
  BY <1>1, <1>3 DEF Mediator!Refuse, MediatorState, MediatorHandle

LEMMA ReadPciRefines ==
    ASSUME RInv, NEW req \in Requests, ReadPci(req)
    PROVE  Mediator!Refuse(req) \/ Mediator!ReadConfig(req)
<1>1. phase = "running" /\ busInterface \in {"zeroed", "filled"}
  BY DEF ReadPci, RInv, RunningHasBlock
<1>2. Mediator!Readable(req)
  BY DEF ReadPci, PciRequestValid, Mediator!Readable
<1>3. PICK outcome \in AcquireOutcomes, ret \in {req.bytes, 0} :
         LET acquire  == NeedAcquire(busInterface)
             ok       == ~acquire \/ outcome = "ok"
             status   == IF ~ok THEN "INVALID_PARAMETER"
                         ELSE IF ret = req.bytes THEN "SUCCESS"
                         ELSE "UNSUCCESSFUL"
         IN  /\ busInterface' = IF acquire /\ outcome = "ok" THEN "filled"
                                                            ELSE busInterface
             /\ phase' = phase
             /\ last' =
                  IF ok
                  THEN [none |-> FALSE, req |-> req, called |-> TRUE,
                        status |-> status,
                        info |-> IF status = "SUCCESS" THEN req.bytes ELSE 0,
                        cBus |-> TruncBus(req.bus),
                        cDev |-> TruncDev(req.dev),
                        cFunc |-> TruncFunc(req.func),
                        cOff |-> req.regOff, cLen |-> req.bytes]
                  ELSE NoCallRecord(req, status)
  BY <1>1 DEF ReadPci
<1>4. CASE busInterface = "zeroed" /\ outcome # "ok"
  \* The acquisition failed: nothing is read and the block stays empty.
  <2>1. busInterface' = "zeroed" /\ phase' = "running"
    BY <1>1, <1>3, <1>4 DEF NeedAcquire
  <2>2. last' = NoCallRecord(req, "INVALID_PARAMETER")
    BY <1>3, <1>4 DEF NeedAcquire
  <2>3. QED
    BY <1>1, <1>4, <2>1, <2>2
       DEF Mediator!Refuse, Mediator!Answer, MediatorState, MediatorHandle,
           AnswerOf, NoCallRecord
<1>5. CASE busInterface = "filled" \/ outcome = "ok"
  \* ReadConfig is called through the block, filled now or before.
  <2>1. busInterface' = "filled" /\ phase' = "running"
    BY <1>1, <1>3, <1>5 DEF NeedAcquire
  <2>2. PICK info \in {0, req.bytes} :
           AnswerOf(last') = Mediator!Answer(req, TRUE, info)
    BY <1>1, <1>3, <1>5 DEF NeedAcquire, AnswerOf, Mediator!Answer
  <2>3. QED
    BY <1>1, <1>2, <2>1, <2>2
       DEF Mediator!ReadConfig, MediatorState, MediatorHandle
<1>6. QED
  BY <1>1, <1>4, <1>5

LEMMA UnloadRefines == Unload => Mediator!Stop
  BY DEF Unload, HoldsReference, Mediator!Stop, MediatorState, MediatorHandle

LEMMA NextRefines == RInv /\ [Next]_vars => [Mediator!Next]_Mediator!vars
<1> SUFFICES ASSUME RInv, [Next]_vars PROVE [Mediator!Next]_Mediator!vars
  OBVIOUS
<1>1. CASE Load
  BY <1>1, LoadRefines DEF Mediator!Next
<1>2. CASE IoDeviceControl
  <2>1. PICK req \in Requests : Reject(req) \/ ReadPci(req)
    BY <1>2 DEF IoDeviceControl
  <2>2. QED
    BY <2>1, RejectRefines, ReadPciRefines DEF Mediator!Next
<1>3. CASE Unload
  BY <1>3, UnloadRefines DEF Mediator!Next
<1>4. CASE UNCHANGED vars
  BY <1>4 DEF vars, Mediator!vars, MediatorState, MediatorHandle
<1>5. QED
  BY <1>1, <1>2, <1>3, <1>4 DEF Next

\* The PCI driver keeps spec 4.5's promise about its handle and its reads
\* (pci_control checks MediatorSpec): for every ULONG width, field width
\* and request set, the interface is acquired at most once and kept until
\* unload, a failed acquisition is retried by the next request, and
\* ReadConfig runs only for a well-formed request whose buffer holds the
\* bytes, reporting all of them or none.
THEOREM Refinement == Spec => MediatorSpec
<1>1. Init => Mediator!Init
  BY DEF Init, Mediator!Init, MediatorState, MediatorHandle, AnswerOf,
         Mediator!NoAnswer
<1>2. QED
  BY <1>1, NextRefines, RequestInvariant, PTL
     DEF Spec, MediatorSpec, Mediator!Spec

=============================================================================
