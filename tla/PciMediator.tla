----------------------------- MODULE PciMediator -----------------------------
(***************************************************************************)
(* What the immunePCI_ctrl driver promises its client, in the terms of    *)
(* spec section 4.5, and nothing of how it keeps the promise.             *)
(*                                                                         *)
(* The mediator is started once (or fails to start), serves requests one  *)
(* at a time while it is up, and is stopped.  It keeps a Bus Interface    *)
(* Handle: "uninitialized" until an acquisition succeeds, then "acquired" *)
(* for the rest of its life, and "released" by shutdown.  A request is    *)
(* refused without reading, leaving the handle as it was (a failed        *)
(* acquisition does not poison it), or served by one read of             *)
(* configuration space through the handle, acquired first if need be.   *)
(* A read is made only for a PCI request of the fixed input shape whose   *)
(* output buffer holds the bytes asked for, and it reports all of them or *)
(* none (a partial transfer).                                              *)
(*                                                                         *)
(* The 4096-byte bound of spec 4.5 step 1 is not part of this promise:    *)
(* the driver's check wraps in ULONG arithmetic (PciControl's             *)
(* ConfigAccessInBounds run), so the driver keeps only the weaker         *)
(* promise stated here.                                                    *)
(***************************************************************************)
EXTENDS Naturals

CONSTANTS
    PciRequestSize,   \* the size of the fixed request encoding
    Requests          \* the requests a client may send

VARIABLES
    state,    \* "before" it is started, "up", or "after" it has gone
    handle,   \* the Bus Interface Handle
    answer    \* the last request served and how

vars == <<state, handle, answer>>

NoAnswer == [served |-> FALSE]

\* The answer to req: whether configuration space was read, and the bytes
\* reported.
Answer(req, read, info) ==
    [served |-> TRUE, req |-> req, read |-> read, info |-> info]

\* A request the mediator may serve by reading configuration space.
Readable(req) ==
    /\ req.ioctl = "GETPCI"
    /\ req.inLen = PciRequestSize
    /\ req.outLen >= req.bytes

Init ==
    /\ state = "before"
    /\ handle = "uninitialized"
    /\ answer = NoAnswer

\* The mediator comes up, or fails to.
Start ==
    /\ state = "before"
    /\ state' \in {"up", "after"}
    /\ UNCHANGED <<handle, answer>>

\* A request answered without a read, the handle left as it was.
Refuse(req) ==
    /\ state = "up"
    /\ answer' = Answer(req, FALSE, 0)
    /\ UNCHANGED <<state, handle>>

\* One read through the handle, acquired now if it was not yet.
ReadConfig(req) ==
    /\ state = "up"
    /\ Readable(req)
    /\ handle \in {"uninitialized", "acquired"}
    /\ handle' = "acquired"
    /\ \E info \in {0, req.bytes} : answer' = Answer(req, TRUE, info)
    /\ UNCHANGED state

\* Shutdown releases an acquired handle.
Stop ==
    /\ state = "up"
    /\ state' = "after"
    /\ handle' = IF handle = "acquired" THEN "released" ELSE handle
    /\ UNCHANGED answer

Next ==
    \/ Start
    \/ \E req \in Requests : Refuse(req) \/ ReadConfig(req)
    \/ Stop

Spec == Init /\ [][Next]_vars

=============================================================================
