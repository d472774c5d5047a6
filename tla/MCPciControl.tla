--------------------------- MODULE MCPciControl ---------------------------
(***************************************************************************)
(* TLC instance of PciControl with ULONG scaled to 4 bits and the         *)
(* configuration space to 8 bytes, so that an offset near the top of the  *)
(* ULONG range wraps the bounds check; bus, device and function fields of *)
(* one bit, so that a number one past the field is truncated.             *)
(***************************************************************************)
EXTENDS PciControl

MCUlongBits == 4
MCConfigLimit == 8
MCPciRequestSize == 2

\* Requests: empty, short and exact input buffers; output buffers of 0, 1
\* and 3 bytes; an in-range and an out-of-range bus; offsets at the bottom,
\* inside and at the top of the ULONG range.
MCRequests ==
    [ioctl : IoctlCodes, inLen : {0, 1, 2}, outLen : {0, 1, 3},
     bus : {0, 2}, dev : {0}, func : {0},
     regOff : {0, 7, 15}, bytes : {1, 2}]
=============================================================================
