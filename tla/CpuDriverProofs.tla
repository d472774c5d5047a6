-------------------------- MODULE CpuDriverProofs --------------------------
(***************************************************************************)
(* Proofs about CpuDriver for every size of the read ranges, every        *)
(* KAFFINITY width and processor topology, and every set of platforms and *)
(* requests that satisfy the module's assumptions.                        *)
(*                                                                         *)
(* The two safety invariants are about the record of the last request.    *)
(* Each step that serves a request rewrites the whole record, and the     *)
(* other steps leave it and the platform alone, so the invariants are     *)
(* inductive together with TypeOK: the proof of each is a look at what    *)
(* the code checked before it set msrRead, physLen or info.               *)
(***************************************************************************)
EXTENDS CpuDriver, TLAPS

IInv == /\ TypeOK
        /\ DeniedMsrNeverRead
        /\ TxtReadOnlyWhenCapable

USE CpuAssumption, RequestAssumption

-----------------------------------------------------------------------------
(* The records a request leaves behind.                                    *)

LEMMA RequestFields ==
    ASSUME NEW req \in Requests
    PROVE  /\ req \in RequestType
           /\ req.inLen \in Nat /\ req.outLen \in Nat /\ req.cpu \in Nat
  BY DEF RequestType

LEMMA NoRecordType ==
    ASSUME NEW req \in RequestType, NEW s \in Statuses
    PROVE  /\ NoRecord(req, s) \in RequestRecord
           /\ NoRecord(req, s).req = req
           /\ ~NoRecord(req, s).none /\ ~NoRecord(req, s).msrRead
           /\ NoRecord(req, s).physLen = 0 /\ NoRecord(req, s).info = 0
  BY DEF NoRecord, RequestRecord, Cpu

LEMMA PinTargetType ==
    ASSUME NEW id \in Nat
    PROVE  PinTarget(id) \in [group : Nat, index : Nat]
  BY DEF PinTarget, Cpu

\* What a physical read leaves: no register read, and either nothing
\* mapped and nothing reported, or the whole range mapped and, if the copy
\* completed, reported.
LEMMA ReadPhysicalMemoryEffect ==
    ASSUME NEW req \in RequestType, NEW len \in Nat, mappings \in Nat,
           ReadPhysicalMemory(req, len)
    PROVE  /\ mappings' \in Nat
           /\ last' \in RequestRecord
           /\ last'.req = req /\ ~last'.none /\ ~last'.msrRead
           /\ last'.physLen \in {0, len} /\ last'.info \in {0, len}
           /\ last'.physLen = 0 => last'.info = 0
<1>1. PICK outcome \in {"ok", "noSpace"} \cup
                       (IF mappings < MaxMappings THEN {"copyFault"} ELSE {}) :
         /\ mappings' = IF outcome = "copyFault" THEN mappings + 1
                                                 ELSE mappings
         /\ last' = [NoRecord(req, CASE outcome = "ok" -> "SUCCESS"
                                     [] outcome = "noSpace" -> "UNSUCCESSFUL"
                                     [] outcome = "copyFault" -> "EXCEPTION")
                     EXCEPT !.info = IF outcome = "ok" THEN len ELSE 0,
                            !.physLen = IF outcome = "noSpace" THEN 0 ELSE len]
  BY DEF ReadPhysicalMemory
<1>2. outcome \in {"ok", "noSpace", "copyFault"}
  BY <1>1
<1>3. CASE outcome = "ok"
  <2>1. NoRecord(req, "SUCCESS") \in RequestRecord
    BY NoRecordType DEF Statuses
  <2>2. QED
    BY <1>1, <1>3, <2>1 DEF NoRecord, RequestRecord
<1>4. CASE outcome = "noSpace"
  <2>1. NoRecord(req, "UNSUCCESSFUL") \in RequestRecord
    BY NoRecordType DEF Statuses
  <2>2. QED
    BY <1>1, <1>4, <2>1 DEF NoRecord, RequestRecord
<1>5. CASE outcome = "copyFault"
  <2>1. NoRecord(req, "EXCEPTION") \in RequestRecord
    BY NoRecordType DEF Statuses
  <2>2. last' = [NoRecord(req, "EXCEPTION") EXCEPT !.info = 0, !.physLen = len]
    BY <1>1, <1>5
  <2>3. mappings' = mappings + 1
    BY <1>1, <1>5
  <2>4. mappings' \in Nat
    BY <2>3
  <2>5. last' \in RequestRecord
    BY <2>1, <2>2 DEF NoRecord, RequestRecord
  <2>6. QED
    BY <2>2, <2>4, <2>5 DEF NoRecord
<1>6. QED
  BY <1>2, <1>3, <1>4, <1>5

\* What an rdmsr leaves: a register read on the pinned CPU, no physical
\* range, and 8 bytes reported only into a buffer that holds them.
LEMMA RdmsrEffect ==
    ASSUME NEW req \in RequestType, NEW cpu \in [group : Nat, index : Nat],
           NEW r \in RdmsrResults(req, cpu)
    PROVE  /\ r \in RequestRecord
           /\ r.req = req /\ ~r.none /\ r.msrRead /\ r.readOn = cpu
           /\ r.physLen = 0 /\ r.info \in {0, 8}
           /\ r.info = 8 => req.outLen >= 8
<1> DEFINE read(status, info) ==
             [none |-> FALSE, req |-> req, status |-> status, info |-> info,
              physLen |-> 0, msrRead |-> TRUE, readOn |-> cpu]
<1>1. r \in {read("EXCEPTION", 0), read("SUCCESS", 8),
             read("BUFFER_TOO_SMALL", 0)}
  BY DEF RdmsrResults
<1>2. r = read("SUCCESS", 8) => req.outLen >= 8
  <2>1. SUFFICES ASSUME req.outLen < 8 PROVE r # read("SUCCESS", 8)
    BY DEF RequestType
  <2>2. r \in {read("EXCEPTION", 0), read("BUFFER_TOO_SMALL", 0)}
    BY <2>1 DEF RdmsrResults, RequestType
  <2>3. r.status # "SUCCESS"
    BY <2>2
  <2>4. QED
    BY <2>3
<1>3. \A st \in Statuses, n \in {0, 8} : read(st, n) \in RequestRecord
  BY DEF RequestRecord
<1>4. r \in RequestRecord
  BY <1>1, <1>3 DEF Statuses
<1>5. /\ r.req = req /\ ~r.none /\ r.msrRead /\ r.readOn = cpu
      /\ r.physLen = 0 /\ r.info \in {0, 8}
      /\ r.info = 8 => r = read("SUCCESS", 8)
  BY <1>1
<1>6. QED
  BY <1>2, <1>4, <1>5

-----------------------------------------------------------------------------
(* Induction: one lemma per action.                                        *)

LEMMA InitIInv == Init => IInv
  BY DEF Init, IInv, TypeOK, DeniedMsrNeverRead, TxtReadOnlyWhenCapable

LEMMA LoadIInv == IInv /\ Load => IInv'
  BY DEF Load, IInv, TypeOK, DeniedMsrNeverRead, TxtReadOnlyWhenCapable

LEMMA UnloadIInv == IInv /\ Unload => IInv'
  BY DEF Unload, IInv, TypeOK, DeniedMsrNeverRead, TxtReadOnlyWhenCapable

\* A request answered with NoRecord keeps every invariant.
LEMMA NoRecordIInv ==
    ASSUME IInv, NEW req \in Requests, NEW s \in Statuses,
           last' = NoRecord(req, s),
           UNCHANGED <<phase, platform>>, mappings' \in Nat,
           affinity' \subseteq [group : Nat, index : Nat]
    PROVE  IInv'
<1>1. req \in RequestType /\ req.outLen \in Nat
  BY RequestFields
<1>2. /\ last' \in RequestRecord /\ ~last'.none /\ ~last'.msrRead
      /\ last'.physLen = 0 /\ last'.info = 0 /\ last'.req = req
  BY <1>1, NoRecordType
<1>3. QED
  BY <1>1, <1>2 DEF IInv, TypeOK, DeniedMsrNeverRead, TxtReadOnlyWhenCapable

LEMMA RejectIInv ==
    ASSUME IInv, NEW req \in Requests, Reject(req)
    PROVE  IInv'
  BY NoRecordIInv DEF Reject, Statuses, IInv, TypeOK

\* A physical read of `len` bytes, of TXT space only on a capable
\* platform, keeps every invariant.
LEMMA PhysReadIInv ==
    ASSUME IInv, NEW req \in Requests, NEW len \in Nat,
           req.ioctl = "GETTXTPUB" => TxtCapable(platform),
           ReadPhysicalMemory(req, len),
           UNCHANGED <<phase, platform, affinity>>
    PROVE  IInv'
<1>1. req \in RequestType /\ req.outLen \in Nat
  BY RequestFields
<1>2. mappings \in Nat
  BY DEF IInv, TypeOK
<1>3. /\ mappings' \in Nat /\ last' \in RequestRecord
      /\ last'.req = req /\ ~last'.none /\ ~last'.msrRead
      /\ last'.physLen \in {0, len}
  BY <1>1, <1>2, ReadPhysicalMemoryEffect
<1>4. TypeOK'
  BY <1>3 DEF IInv, TypeOK
<1>5. DeniedMsrNeverRead'
  BY <1>3 DEF DeniedMsrNeverRead
<1>6. TxtReadOnlyWhenCapable'
  BY <1>3 DEF TxtReadOnlyWhenCapable, TxtCapable
<1>7. QED
  BY <1>4, <1>5, <1>6 DEF IInv

LEMMA GetFlashIInv ==
    ASSUME IInv, NEW req \in Requests, GetFlash(req)
    PROVE  IInv'
<1>1. req \in RequestType
  BY RequestFields
<1>2. CASE BufferTooSmall(req, FlashLen)
  <2>1. last' = NoRecord(req, "BUFFER_TOO_SMALL")
        /\ UNCHANGED <<phase, platform, mappings, affinity>>
    BY <1>2 DEF GetFlash
  <2>2. QED
    BY <2>1, NoRecordIInv DEF Statuses, IInv, TypeOK
<1>3. CASE ~BufferTooSmall(req, FlashLen)
  <2>1. ReadPhysicalMemory(req, FlashLen)
        /\ UNCHANGED <<phase, platform, affinity>>
    BY <1>3 DEF GetFlash, BufferTooSmall
  <2>2. req.outLen >= FlashLen /\ req.ioctl = "GETFLASH"
    BY <1>1, <1>3 DEF GetFlash, BufferTooSmall, RequestType
  <2>3. QED
    BY <2>1, <2>2, PhysReadIInv
<1>4. QED
  BY <1>2, <1>3

LEMMA GetTxtPubIInv ==
    ASSUME IInv, NEW req \in Requests, GetTxtPub(req)
    PROVE  IInv'
<1>1. req \in RequestType
  BY RequestFields
<1>2. CASE BufferTooSmall(req, TxtLen)
  <2>1. last' = NoRecord(req, "BUFFER_TOO_SMALL")
        /\ UNCHANGED <<phase, platform, mappings, affinity>>
    BY <1>2 DEF GetTxtPub
  <2>2. QED
    BY <2>1, NoRecordIInv DEF Statuses, IInv, TypeOK
<1>3. CASE ~BufferTooSmall(req, TxtLen) /\ ~TxtCapable(platform)
  <2>1. last' = NoRecord(req, "NOT_IMPLEMENTED")
        /\ UNCHANGED <<phase, platform, mappings, affinity>>
    BY <1>3 DEF GetTxtPub
  <2>2. QED
    BY <2>1, NoRecordIInv DEF Statuses, IInv, TypeOK
<1>4. CASE ~BufferTooSmall(req, TxtLen) /\ TxtCapable(platform)
  <2>1. ReadPhysicalMemory(req, TxtLen)
        /\ UNCHANGED <<phase, platform, affinity>>
    BY <1>4 DEF GetTxtPub
  <2>2. req.outLen >= TxtLen
    BY <1>1, <1>4 DEF BufferTooSmall, RequestType
  <2>3. QED
    BY <1>4, <2>1, <2>2, PhysReadIInv
<1>5. QED
  BY <1>2, <1>3, <1>4

LEMMA GetMsrIInv ==
    ASSUME IInv, NEW req \in Requests, GetMsr(req)
    PROVE  IInv'
<1>1. req \in RequestType /\ req.cpu \in Nat
  BY RequestFields
<1>2. CASE GetMsrRequestInvalid(req)
  <2>1. last' = NoRecord(req, "INVALID_PARAMETER")
        /\ UNCHANGED <<phase, platform, mappings, affinity>>
    BY <1>2 DEF GetMsr
  <2>2. QED
    BY <2>1, NoRecordIInv DEF Statuses, IInv, TypeOK
<1>3. CASE ~GetMsrRequestInvalid(req)
  <2>1. /\ affinity' = {PinTarget(req.cpu)}
        /\ \/ /\ ~CheckMSRAllowed(req.msr)
              /\ last' = NoRecord(req, "INVALID_PARAMETER")
           \/ /\ CheckMSRAllowed(req.msr)
              /\ last' \in RdmsrResults(req, PinTarget(req.cpu))
    BY <1>3 DEF GetMsr
  <2>2. UNCHANGED <<phase, platform, mappings>>
    BY DEF GetMsr
  <2>3. PinTarget(req.cpu) \in [group : Nat, index : Nat]
    BY <1>1, PinTargetType
  <2>4. affinity' \subseteq [group : Nat, index : Nat]
    BY <2>1, <2>3
  <2>5. CASE ~CheckMSRAllowed(req.msr)
    <3>1. last' = NoRecord(req, "INVALID_PARAMETER")
      BY <2>1, <2>5
    <3>2. QED
      BY <2>2, <2>4, <3>1, NoRecordIInv DEF Statuses, IInv, TypeOK
  <2>6. CASE CheckMSRAllowed(req.msr)
    \* The register is read; it is not one of the denied six.
    <3>1. last' \in RdmsrResults(req, PinTarget(req.cpu))
      BY <2>1, <2>6
    <3>2. /\ last' \in RequestRecord
          /\ last'.req = req /\ ~last'.none /\ last'.msrRead
          /\ last'.physLen = 0
      BY <1>1, <2>3, <3>1, RdmsrEffect
    <3>3. req.msr \notin SpecDeniedMsrs
      BY <2>6 DEF CheckMSRAllowed, SpecDeniedMsrs, STAR, LSTAR, CSTAR,
                  SYSENTER_CS, SYSENTER_ESP, SYSENTER_EIP
    <3>4. TypeOK'
      BY <2>2, <2>4, <3>2 DEF IInv, TypeOK
    <3>5. QED
      BY <1>1, <3>2, <3>3, <3>4
         DEF IInv, DeniedMsrNeverRead, TxtReadOnlyWhenCapable, RequestType
  <2>7. QED
    BY <2>5, <2>6
<1>4. QED
  BY <1>2, <1>3

LEMMA NextIInv == IInv /\ [Next]_vars => IInv'
<1> SUFFICES ASSUME IInv, [Next]_vars PROVE IInv'
  OBVIOUS
<1>1. CASE Load
  BY <1>1, LoadIInv
<1>2. CASE IoDeviceControl
  <2>1. PICK req \in Requests :
           Reject(req) \/ GetFlash(req) \/ GetTxtPub(req) \/ GetMsr(req)
    BY <1>2 DEF IoDeviceControl
  <2>2. QED
    BY <2>1, RejectIInv, GetFlashIInv, GetTxtPubIInv, GetMsrIInv
<1>3. CASE Unload
  BY <1>3, UnloadIInv
<1>4. CASE UNCHANGED vars
  BY <1>4 DEF vars, IInv, TypeOK, DeniedMsrNeverRead, TxtReadOnlyWhenCapable
<1>5. QED
  BY <1>1, <1>2, <1>3, <1>4 DEF Next

-----------------------------------------------------------------------------
(* The invariants.                                                         *)

\* The inductive invariant holds in every reachable state.
THEOREM IInvariant == Spec => []IInv
  BY InitIInv, NextIInv, PTL DEF Spec

\* Every state of the driver is well typed: in particular the affinity the
\* GETMSR handler sets is a set of processors.
THEOREM TypeCorrect == Spec => []TypeOK
  BY IInvariant, PTL DEF IInv

\* rdmsr is never executed for one of the six registers spec 4.3 denies,
\* whatever CPU index, group and platform (CheckMSRAllowed runs before
\* every read).
THEOREM DeniedMsrNeverReadHolds == Spec => []DeniedMsrNeverRead
  BY IInvariant, PTL DEF IInv

\* GETTXTPUB maps TXT public space only on a platform that passed the
\* vendor, SMX and FEATURE_CONTROL checks.
THEOREM TxtReadOnlyWhenCapableHolds == Spec => []TxtReadOnlyWhenCapable
  BY IInvariant, PTL DEF IInv

-----------------------------------------------------------------------------
(* The driver implements the mediator.  Under the mapping, loading and     *)
(* unloading are the mediator's Start and Stop, and every request is a    *)
(* Serve of that request: it is answered without access, or with the     *)
(* access the mediator allows for it.  The invariant is needed only for   *)
(* the types of the state.                                                 *)

\* A request served while the driver runs is a Serve of the mediator when
\* its answer is one the mediator allows.
LEMMA ServeStep ==
    ASSUME NEW req \in Requests, phase = "running",
           UNCHANGED <<phase, platform>>,
           ~last'.none,
           AnswerOf(last') \in Mediator!Answers(req)
    PROVE  Mediator!Serve(req)
  BY DEF Mediator!Serve, MediatorState, MediatorAnswer

\* A request answered without an access.
LEMMA AnswerNone ==
    ASSUME NEW req \in Requests, NEW s \in Statuses
    PROVE  AnswerOf(NoRecord(req, s)) \in Mediator!Answers(req)
<1>1. AnswerOf(NoRecord(req, s)) = Mediator!Served(req, "none", 0)
  BY DEF AnswerOf, NoRecord, Mediator!Served
<1>2. QED
  BY <1>1 DEF Mediator!Answers

LEMMA NoRecordServe ==
    ASSUME NEW req \in Requests, NEW s \in Statuses, phase = "running",
           UNCHANGED <<phase, platform>>, last' = NoRecord(req, s)
    PROVE  Mediator!Serve(req)
<1>1. ~last'.none
  BY RequestFields, NoRecordType
<1>2. QED
  BY <1>1, AnswerNone, ServeStep

\* A physical read of `len` bytes answers with access `kind` when it mapped
\* the range, and without access when MmMapIoSpace found no space.
LEMMA PhysReadAnswer ==
    ASSUME NEW req \in Requests, NEW len \in Nat \ {0}, NEW kind,
           mappings \in Nat, ReadPhysicalMemory(req, len),
           IF req.ioctl = "GETFLASH" THEN kind = "flash" ELSE kind = "txt"
    PROVE  /\ ~last'.none
           /\ AnswerOf(last') \in {Mediator!Served(req, "none", 0)}
                                  \cup {Mediator!Served(req, kind, n) :
                                          n \in {0, len}}
<1>1. req \in RequestType
  BY RequestFields
<1>2. /\ last' \in RequestRecord
      /\ last'.req = req /\ ~last'.none /\ ~last'.msrRead
      /\ last'.physLen \in {0, len} /\ last'.info \in {0, len}
      /\ last'.physLen = 0 => last'.info = 0
  BY <1>1, ReadPhysicalMemoryEffect
<1>3. CASE last'.physLen = 0
  BY <1>2, <1>3 DEF AnswerOf, Mediator!Served
<1>4. CASE last'.physLen = len
  BY <1>2, <1>4 DEF AnswerOf, Mediator!Served
<1>5. QED
  BY <1>2, <1>3, <1>4

LEMMA GetFlashServe ==
    ASSUME IInv, NEW req \in Requests, GetFlash(req)
    PROVE  Mediator!Serve(req)
<1>1. req \in RequestType /\ phase = "running" /\ UNCHANGED <<phase, platform>>
  BY RequestFields DEF GetFlash
<1>2. CASE BufferTooSmall(req, FlashLen)
  BY <1>1, <1>2, NoRecordServe DEF GetFlash, Statuses
<1>3. CASE ~BufferTooSmall(req, FlashLen)
  <2>1. ReadPhysicalMemory(req, FlashLen) /\ req.ioctl = "GETFLASH"
    BY <1>3 DEF GetFlash
  <2>2. req.outLen >= FlashLen
    BY <1>1, <1>3 DEF BufferTooSmall, RequestType
  <2>3. /\ ~last'.none
        /\ AnswerOf(last') \in {Mediator!Served(req, "none", 0)}
                               \cup {Mediator!Served(req, "flash", n) :
                                       n \in {0, FlashLen}}
    BY <2>1, PhysReadAnswer DEF IInv, TypeOK
  <2>4. AnswerOf(last') \in Mediator!Answers(req)
    BY <2>1, <2>2, <2>3 DEF Mediator!Answers
  <2>5. QED
    BY <1>1, <2>3, <2>4, ServeStep
<1>4. QED
  BY <1>2, <1>3

LEMMA GetTxtPubServe ==
    ASSUME IInv, NEW req \in Requests, GetTxtPub(req)
    PROVE  Mediator!Serve(req)
<1>1. req \in RequestType /\ phase = "running" /\ UNCHANGED <<phase, platform>>
  BY RequestFields DEF GetTxtPub
<1>2. CASE BufferTooSmall(req, TxtLen)
  BY <1>1, <1>2, NoRecordServe DEF GetTxtPub, Statuses
<1>3. CASE ~BufferTooSmall(req, TxtLen) /\ ~TxtCapable(platform)
  BY <1>1, <1>3, NoRecordServe DEF GetTxtPub, Statuses
<1>4. CASE ~BufferTooSmall(req, TxtLen) /\ TxtCapable(platform)
  <2>1. ReadPhysicalMemory(req, TxtLen) /\ req.ioctl = "GETTXTPUB"
    BY <1>4 DEF GetTxtPub
  <2>2. req.outLen >= TxtLen /\ Mediator!Capable(platform)
    BY <1>1, <1>4 DEF BufferTooSmall, RequestType, TxtCapable,
                      Mediator!Capable
  <2>3. /\ ~last'.none
        /\ AnswerOf(last') \in {Mediator!Served(req, "none", 0)}
                               \cup {Mediator!Served(req, "txt", n) :
                                       n \in {0, TxtLen}}
    BY <2>1, PhysReadAnswer DEF IInv, TypeOK
  <2>4. AnswerOf(last') \in Mediator!Answers(req)
    BY <2>1, <2>2, <2>3 DEF Mediator!Answers
  <2>5. QED
    BY <1>1, <2>3, <2>4, ServeStep
<1>5. QED
  BY <1>2, <1>3, <1>4

LEMMA GetMsrServe ==
    ASSUME IInv, NEW req \in Requests, GetMsr(req)
    PROVE  Mediator!Serve(req)
<1>1. req \in RequestType /\ req.cpu \in Nat
      /\ phase = "running" /\ UNCHANGED <<phase, platform>>
  BY RequestFields DEF GetMsr
<1>2. CASE GetMsrRequestInvalid(req)
  BY <1>1, <1>2, NoRecordServe DEF GetMsr, Statuses
<1>3. CASE ~GetMsrRequestInvalid(req)
  <2>1. \/ /\ ~CheckMSRAllowed(req.msr)
           /\ last' = NoRecord(req, "INVALID_PARAMETER")
        \/ /\ CheckMSRAllowed(req.msr)
           /\ last' \in RdmsrResults(req, PinTarget(req.cpu))
    BY <1>3 DEF GetMsr
  <2>2. CASE ~CheckMSRAllowed(req.msr)
    BY <1>1, <2>1, <2>2, NoRecordServe DEF Statuses
  <2>3. CASE CheckMSRAllowed(req.msr)
    \* The index and register passed the checks the mediator requires.
    <3>1. PinTarget(req.cpu) \in [group : Nat, index : Nat]
      BY <1>1, PinTargetType
    <3>2. /\ last'.req = req /\ ~last'.none /\ last'.msrRead
          /\ last'.info \in {0, 8}
          /\ last'.info = 8 => req.outLen >= 8
      BY <1>1, <2>1, <2>3, <3>1, RdmsrEffect
    <3>3. /\ req.ioctl = "GETMSR" /\ req.inLen >= 8 /\ req.cpu < NumCpus
          /\ req.msr \notin SpecDeniedMsrs
      BY <1>1, <1>3, <2>3
         DEF GetMsr, GetMsrRequestInvalid, RequestType, NumCpus,
             CheckMSRAllowed, SpecDeniedMsrs, STAR, LSTAR, CSTAR,
             SYSENTER_CS, SYSENTER_ESP, SYSENTER_EIP
    <3>4. AnswerOf(last') = Mediator!Served(req, "msr", last'.info)
      BY <3>2 DEF AnswerOf, Mediator!Served
    <3>5. last'.info \in IF req.outLen >= 8 THEN {0, 8} ELSE {0}
      BY <3>2
    <3>6. AnswerOf(last') \in Mediator!Answers(req)
      BY <3>3, <3>4, <3>5 DEF Mediator!Answers
    <3>7. QED
      BY <1>1, <3>2, <3>6, ServeStep
  <2>4. QED
    BY <2>2, <2>3
<1>4. QED
  BY <1>2, <1>3

LEMMA NextRefines ==
    IInv /\ [Next]_vars => [Mediator!Next]_Mediator!vars
<1> SUFFICES ASSUME IInv, [Next]_vars PROVE [Mediator!Next]_Mediator!vars
  OBVIOUS
<1>1. CASE Load
  <2>1. MediatorState = "before" /\ MediatorState' \in {"up", "after"}
    BY <1>1 DEF Load, MediatorState
  <2>2. UNCHANGED <<platform, MediatorAnswer>>
    BY <1>1 DEF Load, MediatorAnswer
  <2>3. QED
    BY <2>1, <2>2 DEF Mediator!Next, Mediator!Start
<1>2. CASE IoDeviceControl
  <2>1. PICK req \in Requests :
           Reject(req) \/ GetFlash(req) \/ GetTxtPub(req) \/ GetMsr(req)
    BY <1>2 DEF IoDeviceControl
  <2>2. Reject(req) => Mediator!Serve(req)
    <3>1. SUFFICES ASSUME Reject(req) PROVE Mediator!Serve(req)
      OBVIOUS
    <3>2. PICK s \in Statuses : last' = NoRecord(req, s)
      BY <3>1 DEF Reject, Statuses
    <3>3. phase = "running" /\ UNCHANGED <<phase, platform>>
      BY <3>1 DEF Reject
    <3>4. QED
      BY <3>2, <3>3, NoRecordServe
  <2>3. Mediator!Serve(req)
    BY <2>1, <2>2, GetFlashServe, GetTxtPubServe, GetMsrServe
  <2>4. QED
    BY <2>3 DEF Mediator!Next
<1>3. CASE Unload
  <2>1. MediatorState = "up" /\ MediatorState' = "after"
    BY <1>3 DEF Unload, MediatorState
  <2>2. UNCHANGED <<platform, MediatorAnswer>>
    BY <1>3 DEF Unload, MediatorAnswer
  <2>3. QED
    BY <2>1, <2>2 DEF Mediator!Next, Mediator!Stop
<1>4. CASE UNCHANGED vars
  BY <1>4 DEF vars, Mediator!vars, MediatorState, MediatorAnswer
<1>5. QED
  BY <1>1, <1>2, <1>3, <1>4 DEF Next

\* The driver implements the mediator of spec 4.2 to 4.4 and 7: every
\* register read, physical read and reported byte count is one the
\* mediator allows for the request that caused it, and requests are served
\* only between a successful load and unload.
THEOREM Refinement == Spec => MediatorSpec
<1>1. Init => Mediator!Init
  BY DEF Init, Mediator!Init, MediatorState, MediatorAnswer, AnswerOf,
         Mediator!NoAnswer
<1>2. QED
  BY <1>1, NextRefines, IInvariant, PTL DEF Spec, MediatorSpec, Mediator!Spec

=============================================================================
