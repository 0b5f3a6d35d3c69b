----------------------------- MODULE MCSession -----------------------------
(***************************************************************************)
(* Instances of Session for TLC. The codes are those of the example         *)
(* applications (examples/*/share/packet.hpp), one of each group, and a     *)
(* data code for which no callback is registered.                           *)
(***************************************************************************)
EXTENDS SessionInv, TLC

Compute == 513     \* 0x0201
ValueA  == 1025    \* 0x0401
ValueC  == 1026    \* 0x0402, not registered
Result  == 1027    \* 0x0403
Get     == 2049    \* 0x0801
Compare == 4097    \* 0x1001

AllCodes  == {Compute, ValueA, ValueC, Get, Compare}
SomeCodes == {ValueA, ValueC, Get}
Registered == AllCodes \ {ValueC}
SomeRegistered == SomeCodes \ {ValueC}
OnlyData == {ValueA}

NoFault   == {}
Outages   == {"reset", "kill"}
AllFaults == {"reset", "kill", "abort"}

ThreadSymmetry == Permutations(Threads)

=============================================================================
