----------------------------- MODULE MCCpuDriver -----------------------------
(* A small machine: two processor groups of two CPUs, a 2-bit KAFFINITY so *)
(* that the shift of index 2 or 3 wraps as 1ULL << 64 does on x64, and     *)
(* buffer lengths around the scaled read lengths.                          *)
EXTENDS CpuDriver

MCFlashLen == 4
MCTxtLen == 2
MCMsrs == {STAR, SYSENTER_EIP, "IA32_FEATURE_CONTROL"}

\* Machines that differ in one of the gate's answers from a TXT machine.
MCPlatforms ==
    LET txt == [genuineIntel |-> TRUE, smx |-> TRUE,
                senterGlobal |-> TRUE, senterLeaves |-> TRUE]
    IN  {txt} \cup {[txt EXCEPT ![f] = FALSE] :
                    f \in {"genuineIntel", "smx", "senterGlobal", "senterLeaves"}}

\* The index and register matter to GETMSR only.
MCRequests ==
    [ioctl : IoctlCodes \ {"GETMSR"}, inLen : {0, 8}, outLen : {0, 2, 4},
     cpu : {0}, msr : {STAR}]
    \cup
    [ioctl : {"GETMSR"}, inLen : {4, 8}, outLen : {4, 8},
     cpu : 0..4, msr : MCMsrs]
=============================================================================
