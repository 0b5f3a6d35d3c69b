---------------------------- MODULE ControlCode ----------------------------
(***************************************************************************)
(* Control codes of a packet (stdsc_packet.hpp) and the two classifications *)
(* the library makes of them: the one a client makes before it announces a  *)
(* body (make_data_packet) and the one a server makes when it decides       *)
(* whether a body follows (CallbackFunctionContainer::eval).                *)
(*                                                                          *)
(* A code is a number; a group is one bit of it.                            *)
(***************************************************************************)
EXTENDS Naturals

kControlCodeNil             == 0
kControlCodeAccept          == 257    \* 0x0101
kControlCodeReject          == 258    \* 0x0102
kControlCodeGroupRequest    == 512    \* 0x0200
kControlCodeGroupData       == 1024   \* 0x0400
kControlCodeGroupDownload   == 2048   \* 0x0800
kControlCodeGroupUpDownload == 4096   \* 0x1000

\* code & mask, for a mask of one bit
HasBit(code, mask) == (code \div mask) % 2 = 1

\* The four tests of eval, in their order: the first bit that is set decides.
GroupOf(code) ==
    IF HasBit(code, kControlCodeGroupRequest) THEN "request"
    ELSE IF HasBit(code, kControlCodeGroupData) THEN "data"
    ELSE IF HasBit(code, kControlCodeGroupDownload) THEN "download"
    ELSE IF HasBit(code, kControlCodeGroupUpDownload) THEN "updownload"
    ELSE "none"

\* eval reads a body after the packet.
CarriesBody(code) == GroupOf(code) \in {"data", "updownload"}

\* The callback of the code is handed the socket and sends a result itself.
YieldsResult(code) == GroupOf(code) \in {"download", "updownload"}

\* The check of make_data_packet: without it InvariantException is thrown.
MayAnnounceBody(code) ==
    \/ HasBit(code, kControlCodeGroupData)
    \/ HasBit(code, kControlCodeGroupUpDownload)

=============================================================================
