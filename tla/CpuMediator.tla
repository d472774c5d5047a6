----------------------------- MODULE CpuMediator -----------------------------
(***************************************************************************)
(* What the immuneCPU driver promises its client, in the terms of spec    *)
(* sections 4.2 to 4.4 and 7, and nothing of how it keeps the promise.    *)
(*                                                                         *)
(* The mediator is started once (or fails to start), serves requests one  *)
(* at a time while it is up, and is stopped.  Each request is answered    *)
(* with the hardware access it made, if any, and the bytes it reports.    *)
(* An access is allowed only for the request that asks for it:            *)
(*  - the flash window, when the output buffer holds all of it;           *)
(*  - TXT public space, when the buffer holds it and the platform has an  *)
(*    Intel CPU with SMX and SENTER enabled globally and for some leaf;   *)
(*  - a register, when the request carries a CPU index and a register,   *)
(*    the index names an active CPU and the register is not denied.      *)
(* An access may fault; then, as for every failure, zero bytes are        *)
(* reported.  A success reports the bytes of the access, and a register  *)
(* is reported only into a buffer that holds its 8 bytes.                 *)
(***************************************************************************)
EXTENDS Naturals

CONSTANTS
    FlashLen, TxtLen,   \* bytes of the flash window and of TXT public space
    NumCpus,            \* active logical processors
    DeniedMsrs,         \* the registers no client may read
    Platforms,          \* the CPUID / FEATURE_CONTROL answers a machine can give
    Requests            \* the requests a client may send

VARIABLES
    state,      \* "before" it is started, "up", or "after" it has gone
    platform,   \* the machine's answers, fixed for a boot
    answer      \* the last request served and how

vars == <<state, platform, answer>>

NoAnswer == [served |-> FALSE]

\* The platform can run TXT (spec 4.4 (a) to (c)).
Capable(p) == p.genuineIntel /\ p.smx /\ p.senterGlobal /\ p.senterLeaves

\* The answer that makes an access to resource `access` and reports `info`.
Served(req, access, info) ==
    [served |-> TRUE, req |-> req, access |-> access, info |-> info]

\* The ways a request may be answered: a failure without an access, or an
\* allowed access that faults (zero bytes) or succeeds.
Answers(req) ==
    {Served(req, "none", 0)}
    \cup (IF req.ioctl = "GETFLASH" /\ req.outLen >= FlashLen
          THEN {Served(req, "flash", n) : n \in {0, FlashLen}} ELSE {})
    \cup (IF req.ioctl = "GETTXTPUB" /\ req.outLen >= TxtLen
             /\ Capable(platform)
          THEN {Served(req, "txt", n) : n \in {0, TxtLen}} ELSE {})
    \cup (IF req.ioctl = "GETMSR" /\ req.inLen >= 8 /\ req.cpu < NumCpus
             /\ req.msr \notin DeniedMsrs
          THEN {Served(req, "msr", n) :
                  n \in IF req.outLen >= 8 THEN {0, 8} ELSE {0}}
          ELSE {})

Init ==
    /\ state = "before"
    /\ platform \in Platforms
    /\ answer = NoAnswer

\* The mediator comes up, or fails to.
Start ==
    /\ state = "before"
    /\ state' \in {"up", "after"}
    /\ UNCHANGED <<platform, answer>>

Serve(req) ==
    /\ state = "up"
    /\ answer' \in Answers(req)
    /\ UNCHANGED <<state, platform>>

Stop ==
    /\ state = "up"
    /\ state' = "after"
    /\ UNCHANGED <<platform, answer>>

Next == Start \/ (\E req \in Requests : Serve(req)) \/ Stop

Spec == Init /\ [][Next]_vars

=============================================================================
