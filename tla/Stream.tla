------------------------------- MODULE Stream -------------------------------
(***************************************************************************)
(* One direction of a connection, byte by byte: what Socket::send_packet,   *)
(* send_buffer, recv_packet and recv_buffer do with partial sends, partial  *)
(* receives, a full kernel buffer, receives that time out and a connection  *)
(* that is cut anywhere.                                                    *)
(*                                                                          *)
(* A message is a packet of sizeof(Packet) bytes that announces the size of *)
(* a buffer, and that buffer. A byte is named by its message and its place  *)
(* in it; nobody looks at the name, a reader fills the place it is at with  *)
(* the byte that comes next. No answer holds the sender back: a server      *)
(* sends a result and the acknowledgement after it without a pause.         *)
(***************************************************************************)
EXTENDS Integers, Sequences

CONSTANTS
    Messages,     \* how many messages are sent
    Header,       \* sizeof(Packet)
    Capacity,     \* bytes the kernel keeps for the receiver (STDSC_TCP_BUFFER_SIZE)
    Bodies,       \* buffers that are sent: sequences of what a byte can hold
    MaxTimeouts   \* bound on the receives that time out

ASSUME MessagesAssumption == Messages \in Nat
ASSUME HeaderAssumption == Header \in Nat \ {0}
ASSUME CapacityAssumption == Capacity \in Nat \ {0}
ASSUME BodiesAssumption == \A b \in Bodies : Len(b) \in Nat
ASSUME MaxTimeoutsAssumption == MaxTimeouts \in Nat

VARIABLES
    body,         \* the buffers that the sender sends
    wmsg, wptr,   \* the message it is writing and how far it is in it
    wpc,          \* "writing", or "failed" once a send threw
    wire,         \* the bytes in the kernel
    up,           \* whether the connection is up
    rpc,          \* the reader is in wait_read ("select"), in read ("recv"), or has "failed"
    part,         \* it receives the "packet" of a message or its "body"
    buf,          \* the bytes it has of this message
    need,         \* the size that the packet has announced
    received,     \* the messages it has
    timeouts      \* how many receives timed out

senderVars == <<wmsg, wptr, wpc>>
readerVars == <<rpc, part, buf, need, received, timeouts>>
streamVars == <<body, senderVars, wire, up, readerVars>>

Msgs == 1 .. Messages
Byte == Msgs \X (Nat \ {0})
Total(i) == Header + Len(body[i])

TypeOK ==
    /\ body \in [Msgs -> Bodies]
    /\ wmsg \in 1 .. Messages + 1
    /\ wptr \in Nat
    /\ wpc \in {"writing", "failed"}
    /\ wire \in Seq(Byte)
    /\ up \in BOOLEAN
    /\ rpc \in {"select", "recv", "failed"}
    /\ part \in {"packet", "body"}
    /\ buf \in Seq(Byte)
    /\ need \in Nat
    /\ received \in Seq(Seq(Byte))
    /\ timeouts \in 0 .. MaxTimeouts

StreamInit ==
    /\ body \in [Msgs -> Bodies]
    /\ wmsg = 1 /\ wptr = 0 /\ wpc = "writing"
    /\ wire = <<>> /\ up = TRUE
    /\ rpc = "select" /\ part = "packet" /\ buf = <<>> /\ need = 0
    /\ received = <<>> /\ timeouts = 0

-----------------------------------------------------------------------------
(***************************************************************************)
(* The sender.                                                              *)
(***************************************************************************)

\* Where the write under way ends: send_packet, then send_buffer if there is a body.
ItemEnd(i, k) == IF k < Header THEN Header ELSE Total(i)

\* remain in Socket::Impl::write
WriteRemain == ItemEnd(wmsg, wptr) - wptr

\* Mutant of Send: ptr is not advanced.
SendFromStart(n) ==
    /\ wpc = "writing" /\ wmsg <= Messages
    /\ n \in 1 .. WriteRemain
    /\ IF up
       THEN Len(wire) + n <= Capacity
            /\ wire' = wire \o [k \in 1 .. n |-> <<wmsg, (IF wptr < Header THEN 0 ELSE Header) + k>>]
       ELSE wire' = wire
    /\ IF wptr + n = Total(wmsg) THEN wmsg' = wmsg + 1 /\ wptr' = 0
                                 ELSE wmsg' = wmsg /\ wptr' = wptr + n
    /\ UNCHANGED <<body, wpc, up, readerVars>>

\* Mutant of Send: ptr is one byte behind.
SendBehind(n) ==
    /\ wpc = "writing" /\ wmsg <= Messages
    /\ n \in 1 .. WriteRemain
    /\ IF up
       THEN Len(wire) + n <= Capacity /\ wire' = wire \o [k \in 1 .. n |-> <<wmsg, wptr + k - 1>>]
       ELSE wire' = wire
    /\ IF wptr + n = Total(wmsg) THEN wmsg' = wmsg + 1 /\ wptr' = 0
                                 ELSE wmsg' = wmsg /\ wptr' = wptr + n
    /\ UNCHANGED <<body, wpc, up, readerVars>>

\* ::send takes n bytes, no more than there is room for; on a connection that was cut
\* they are dropped, as long as no error was reported.
Send(n) ==
    /\ wpc = "writing" /\ wmsg <= Messages
    /\ n \in 1 .. WriteRemain
    /\ IF up
       THEN Len(wire) + n <= Capacity /\ wire' = wire \o [k \in 1 .. n |-> <<wmsg, wptr + k>>]
       ELSE wire' = wire
    /\ IF wptr + n = Total(wmsg) THEN wmsg' = wmsg + 1 /\ wptr' = 0
                                 ELSE wmsg' = wmsg /\ wptr' = wptr + n
    /\ UNCHANGED <<body, wpc, up, readerVars>>

\* "Failed to send"
SendFails ==
    /\ wpc = "writing" /\ wmsg <= Messages /\ ~up
    /\ wpc' = "failed"
    /\ UNCHANGED <<body, wmsg, wptr, wire, up, readerVars>>

-----------------------------------------------------------------------------
(***************************************************************************)
(* The reader.                                                              *)
(***************************************************************************)

\* A descriptor is readable when bytes are there, and for ever after a cut.
Readable == wire # <<>> \/ ~up

\* wait_read returns true
WaitRead ==
    /\ rpc = "select" /\ Readable
    /\ rpc' = "recv"
    /\ UNCHANGED <<body, senderVars, wire, up, part, buf, need, received, timeouts>>

\* Mutant of TimedOut: the time limit is that of the whole receive, not of its first byte.
TimedOutAnywhere ==
    /\ rpc \in {"select", "recv"} /\ ~Readable
    /\ timeouts < MaxTimeouts
    /\ timeouts' = timeouts + 1
    /\ rpc' = "select"
    /\ buf' = IF rpc = "recv" THEN <<>> ELSE buf
    /\ UNCHANGED <<body, senderVars, wire, up, part, need, received>>

\* wait_read returns false: "Receive timed out" is thrown. The library's own receives
\* have no time limit; a caller that gave one may receive the same item again.
TimedOut ==
    /\ rpc = "select" /\ ~Readable
    /\ timeouts < MaxTimeouts
    /\ timeouts' = timeouts + 1
    /\ UNCHANGED <<body, senderVars, wire, up, rpc, part, buf, need, received>>

\* remain in Socket::Impl::read
ReadRemain == (IF part = "packet" THEN Header ELSE Header + need) - Len(buf)

\* ::recv delivers the first n bytes.
Recv(n) ==
    /\ rpc = "recv"
    /\ n <= Len(wire)
    /\ wire' = SubSeq(wire, n + 1, Len(wire))

With(n) == buf \o SubSeq(wire, 1, n)

\* The size in a packet: garbage unless its bytes are those of one packet, in order.
Announced(bytes) ==
    LET sent == {i \in Msgs : bytes = [k \in 1 .. Header |-> <<i, k>>]}
    IN  IF sent # {} THEN {Len(body[i]) : i \in sent} ELSE {Len(b) : b \in Bodies}

\* The message is complete; the next one begins with a packet.
Complete(message) ==
    /\ received' = Append(received, message)
    /\ rpc' = "select" /\ part' = "packet" /\ buf' = <<>> /\ need' = 0

\* Mutant of RecvSome: what one recv returned is taken for the whole body.
RecvOnce(n) ==
    /\ n \in 1 .. ReadRemain - 1
    /\ Recv(n)
    /\ IF part = "body" THEN Complete(With(n)) ELSE buf' = With(n) /\ UNCHANGED <<rpc, part, need, received>>
    /\ UNCHANGED <<body, senderVars, up, timeouts>>

\* Fewer bytes than asked for: read goes on.
RecvSome(n) ==
    /\ n \in 1 .. ReadRemain - 1
    /\ Recv(n)
    /\ buf' = With(n)
    /\ UNCHANGED <<body, senderVars, up, rpc, part, need, received, timeouts>>

\* Mutant of RecvPacket: an empty buffer is received like any other.
RecvPacketEager ==
    /\ part = "packet"
    /\ Recv(ReadRemain)
    /\ \E size \in Announced(With(ReadRemain)) :
        /\ rpc' = "select" /\ part' = "body" /\ buf' = With(ReadRemain) /\ need' = size
        /\ UNCHANGED received
    /\ UNCHANGED <<body, senderVars, up, timeouts>>

\* recv_packet returns; the buffer is resized to the size announced, and recv_buffer
\* has something to do if that is not 0.
RecvPacket ==
    /\ part = "packet"
    /\ Recv(ReadRemain)
    /\ \E size \in Announced(With(ReadRemain)) :
        IF size = 0
        THEN Complete(With(ReadRemain))
        ELSE /\ rpc' = "select" /\ part' = "body" /\ buf' = With(ReadRemain) /\ need' = size
             /\ UNCHANGED received
    /\ UNCHANGED <<body, senderVars, up, timeouts>>

\* recv_buffer returns.
RecvBody ==
    /\ part = "body"
    /\ Recv(ReadRemain)
    /\ Complete(With(ReadRemain))
    /\ UNCHANGED <<body, senderVars, up, timeouts>>

\* recv returns 0 or an error: "Socket closed" or "Failed to receive".
RecvFails ==
    /\ rpc = "recv" /\ wire = <<>> /\ ~up
    /\ rpc' = "failed"
    /\ UNCHANGED <<body, senderVars, wire, up, part, buf, need, received, timeouts>>

-----------------------------------------------------------------------------

\* A process ends or the connection is reset: of the bytes on their way a prefix arrives.
Cut ==
    /\ up
    /\ up' = FALSE
    /\ \E n \in 0 .. Len(wire) : wire' = SubSeq(wire, 1, n)
    /\ UNCHANGED <<body, senderVars, readerVars>>

Sender == (\E n \in 1 .. Capacity : Send(n)) \/ SendFails
Reader ==
    \/ WaitRead \/ TimedOut \/ RecvPacket \/ RecvBody \/ RecvFails
    \/ \E n \in 1 .. Capacity : RecvSome(n)

StreamNext == Sender \/ Reader \/ Cut

StreamSpec == StreamInit /\ [][StreamNext]_streamVars

-----------------------------------------------------------------------------
(***************************************************************************)
(* Properties.                                                              *)
(***************************************************************************)

Message(i) == [k \in 1 .. Total(i) |-> <<i, k>>]

\* What was received is what was sent, byte for byte, however sends and receives were
\* split; and what a receive has got when the connection is cut is a prefix of its item
\* (zeros follow: the buffer was resized before, and its caller is not told).
ReceivedAsSent ==
    /\ Len(received) <= Messages
    /\ \A i \in 1 .. Len(received) : received[i] = Message(i)
    /\ \A k \in 1 .. Len(buf) : buf[k] = <<Len(received) + 1, k>>

\* A receive starts, also again after it timed out, with the first byte of the item it
\* asks for: select limits the wait for this byte only, and no time-out leaves read.
StartsAtItem ==
    rpc = "select" /\ wire # <<>> =>
        wire[1] = <<Len(received) + 1, IF part = "packet" THEN 1 ELSE Header + 1>>

\* While the connection is up, a reader in the middle of a message that finds no byte waits
\* for one that the sender is still to send: it is exactly where the reader is.
SenderOwes ==
    up /\ wire = <<>> /\ buf # <<>> =>
        /\ wpc = "writing"
        /\ wmsg = Len(received) + 1 /\ wptr = Len(buf)
        /\ wmsg <= Messages /\ wptr < Total(wmsg)

\* The items of a message are numbered 2i - 1, its packet, and 2i, its buffer unless that
\* is empty. An item is on its way, or received, with its last byte.
LastItem(i) == IF Len(body[i]) = 0 THEN 2 * i - 1 ELSE 2 * i
EndsItem(b) == b[2] \in {Header, Total(b[1])}
Number(b) == IF b[2] = Header THEN 2 * b[1] - 1 ELSE 2 * b[1]
ItemsIn(bytes) == {Number(bytes[k]) : k \in {l \in 1 .. Len(bytes) : EndsItem(bytes[l])}}

AllItems == {2 * i - 1 : i \in Msgs} \cup {LastItem(i) : i \in Msgs}
LastSent ==
    IF wptr >= Header THEN 2 * wmsg - 1 ELSE IF wmsg = 1 THEN 0 ELSE LastItem(wmsg - 1)
AllReceived == ItemsIn(buf) \cup UNION {ItemsIn(received[i]) : i \in 1 .. Len(received)}

Whole == INSTANCE Channel WITH
    items <- AllItems, put <- LastSent, queue <- ItemsIn(wire), taken <- AllReceived, up <- up

\* Bytes in pieces, in a kernel of any size, implement a channel of whole items.
KeepsItems == Whole!Spec

=============================================================================
