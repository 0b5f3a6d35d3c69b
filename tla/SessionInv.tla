---------------------------- MODULE SessionInv -----------------------------
(***************************************************************************)
(* The inductive invariant behind the safety properties of Session.         *)
(*                                                                          *)
(* At most one call is live: the one after the last answered call. While    *)
(* the line is intact, what is in the two streams, what the holder of the   *)
(* mutex does next and what the server thread does next determine each      *)
(* other; once it is cut, streams only shrink, and each reader still finds  *)
(* a prefix of what it would have read.                                     *)
(***************************************************************************)
EXTENDS Session

Reading == {"result", "payload", "ack"}
Serving == {"body", "eval", "payload", "tail", "ack"}
Resting == {"recv", "dead", "released", "killed"}
Verdicts == {kControlCodeAccept, kControlCodeReject}

\* What the holder of the mutex does next.
Phase == IF mutex = NoThread THEN "idle" ELSE pc[mutex]

\* The call the two sides may be working on.
Live == answered + 1

\* Neither end knows of an error.
Intact == csock = "open" /\ ssock = "open"

\* Only the holder of the mutex is in an exchange; processes die as a whole.
MutexInv ==
    /\ \A t \in Threads : pc[t] \in Busy => mutex = t
    /\ \A t \in Threads : mutex = t => pc[t] # "idle"
    /\ \A t \in Threads : pc[t] = "killed" => csock = "closed"

SockInv ==
    /\ csock \in {"reset", "broken"} => ssock # "open"
    /\ ssock \in {"reset", "broken"} => csock # "open"
    /\ ssock = "closed" => spc \in {"released", "killed"}
    /\ spc \in {"released", "killed"} => ssock = "closed"

\* Calls are numbered in the order of issue and answered in that order.
NumberInv ==
    /\ answered <= issued
    /\ \A i \in Calls : i <= answered <=> outcome[i] \in {"accepted", "rejected"}
    /\ \A i \in Calls : i > issued => outcome[i] = "none"
    /\ \A i \in Calls : i < issued => outcome[i] # "none"
    /\ \A t \in Threads : pc[t] \in Busy =>
            issued \in Calls /\ call[t].id = issued /\ outcome[issued] = "none"
    /\ \A t \in Threads : pc[t] = "idle" /\ mutex = NoThread =>
            \A i \in Calls : i <= issued => outcome[i] # "none"

\* How much is under way.
UpLen == Len(c2s)
DownLen == Len(s2c)

\* After a lost call nothing can be sent or received any more.
LostInv == \A i \in Calls : outcome[i] = "lost" => ~Intact /\ DownLen = 0

\* What a client in phase p can find in the n items of s: the rest of an answer.
IsAck(m) == m.kind = "packet" /\ m.code \in Verdicts

Framed(p, n, s) ==
    /\ p \notin Reading => n = 0
    /\ p = "ack" => n <= 1 /\ (n = 1 => IsAck(s[1]))
    /\ p = "payload" =>
        /\ n <= 2
        /\ n >= 1 => s[1].kind = "bytes"
        /\ n = 2 => IsAck(s[2])
    /\ p = "result" =>
        /\ n <= 3
        /\ n >= 1 => s[1].kind = "packet"
        /\ n >= 2 => s[1].code # kControlCodeReject
        /\ n = 2 /\ s[1].size = 0 => IsAck(s[2])
        /\ n >= 2 /\ s[1].size # 0 => s[2].kind = "bytes"
        /\ n = 3 => s[1].size # 0 /\ IsAck(s[3])

\* They end with the acknowledgement that the client will read last.
Complete(p, n, s) ==
    \/ p = "ack" /\ n = 1
    \/ p = "payload" /\ n = 2
    \/ p = "result" /\ n = 1 /\ s[1].code = kControlCodeReject
    \/ p = "result" /\ n = 2 /\ s[1].size = 0
    \/ p = "result" /\ n = 3

\* They are the whole answer but the acknowledgement.
ResultSent(p, n, s) ==
    \/ p = "result" /\ n = 1 /\ s[1].size = 0 /\ s[1].code # kControlCodeReject
    \/ p = "result" /\ n = 2 /\ s[1].size # 0
    \/ p = "payload" /\ n = 1
    \/ p = "ack" /\ n = 0

DownInv ==
    /\ Framed(Phase, DownLen, s2c)
    /\ Complete(Phase, DownLen, s2c) => spc \in Resting /\ UpLen = 0
    /\ spc = "eval" => DownLen = 0 /\ (Intact => Phase = FirstAnswer(req.code))
    /\ spc = "payload" => rsize # 0
    /\ spc = "payload" /\ Intact =>
        \/ Phase = "result" /\ DownLen = 1 /\ s2c[1].size # 0 /\ s2c[1].code # kControlCodeReject
        \/ Phase = "payload" /\ DownLen = 0
    /\ spc = "tail" /\ Intact => ResultSent(Phase, DownLen, s2c)
    /\ spc = "ack" /\ Intact =>
        ResultSent(Phase, DownLen, s2c) \/ (Phase = "result" /\ DownLen = 0)

\* The packet that the holder of the mutex sends first.
RequestPacket == PacketItem(call[mutex].id, call[mutex].code, call[mutex].size)

\* What the server thread can find in its stream where it receives a packet,
UpRecv ==
    spc = "recv" /\ UpLen # 0 =>
        /\ UpLen <= 2
        /\ c2s[1].kind = "packet" /\ c2s[1].code \in Codes
        /\ c2s[1].size # 0 => CarriesBody(c2s[1].code)
        /\ UpLen = 2 => c2s[1].size # 0 /\ c2s[2] = BytesItem(Live, c2s[1].size)
        /\ Intact =>
            \/ Phase = "body" /\ UpLen = 1
            \/ Phase = FirstAnswer(c2s[1].code) /\ (c2s[1].size # 0 => UpLen = 2)

\* where it receives a body,
UpBody ==
    spc = "body" =>
        /\ UpLen <= 1
        /\ UpLen = 1 => c2s[1] = BytesItem(req.id, req.size)
        /\ Intact => \/ Phase = "body" /\ UpLen = 0
                     \/ Phase = FirstAnswer(req.code) /\ UpLen # 0

\* and elsewhere. No answer is under way before the whole request was received.
UpRest ==
    /\ spc \in Serving \ {"body"} => UpLen = 0
    /\ UpLen # 0 \/ spc = "body" => DownLen = 0

\* How far the server thread is while the client has more to send.
UpClient ==
    /\ Phase \in {"idle", "packet"} /\ Intact => UpLen = 0 /\ spc \in Resting
    /\ Phase \in {"packet", "body"} /\ call[mutex].size # 0 => CarriesBody(call[mutex].code)
    /\ Phase = "body" => call[mutex].size # 0
    /\ Phase = "body" /\ Intact =>
        \/ spc \in Resting /\ UpLen = 1 /\ c2s[1] = RequestPacket
        \/ spc = "body" /\ UpLen = 0 /\ req = RequestPacket

UpInv == UpRecv /\ UpBody /\ UpRest /\ UpClient

\* Everything under way belongs to the live call, which is not yet executed.
LiveInv ==
    /\ \A k \in 1 .. UpLen : c2s[k].id = Live
    /\ \A k \in 1 .. DownLen : s2c[k].id = Live
    /\ spc \in Serving \/ UpLen # 0 => Live \in Calls /\ Live <= issued
    /\ spc \in Serving => req.id = Live
    /\ UpLen # 0 \/ spc \in Serving \ {"ack"} => status[Live] = "none"
    /\ Phase \in {"packet", "body"} /\ Intact => status[Live] = "none"
    /\ \A i \in Calls : status[i] # "none" => i <= Live /\ i <= issued

\* The acknowledgement under way tells what was done with the live call.
Tells(code) ==
    /\ code = kControlCodeReject => status[Live] = "refused"
    /\ code = kControlCodeAccept => status[Live] \in {"ran", "ignored"}

TruthInv ==
    /\ OutcomeTruthful
    /\ spc = "ack" => Tells(verdict)
    /\ Complete(Phase, DownLen, s2c) => Tells(s2c[DownLen].code)

IInv ==
    /\ TypeOK
    /\ MutexInv
    /\ SockInv
    /\ NumberInv
    /\ LostInv
    /\ DownInv
    /\ UpInv
    /\ LiveInv
    /\ TruthInv

=============================================================================
