------------------------------ MODULE Session ------------------------------
(***************************************************************************)
(* One connection of stdsc: a Client object shared by several threads of    *)
(* the client process, the TCP connection, and the ServerThread that serves *)
(* it in the server process.                                                *)
(*                                                                          *)
(* A thread of the client holds Client::Impl::mutex_ for a whole exchange   *)
(* (stdsc_client.cpp): packet, body if the code has one, then the answer.   *)
(* The server thread (ServerThread::Impl::exec) receives a packet,          *)
(* evaluates it and acknowledges. Streams carry items: a packet, or the     *)
(* bytes announced by the packet before it. A reader asks for the bytes it  *)
(* expects and takes what is at the head, whatever it is; an item carries   *)
(* the number of the call it was sent for, which no reader looks at.        *)
(*                                                                          *)
(* The library installs no signal handler and sends with flags 0, so a send *)
(* on a connection whose error was already reported raises SIGPIPE and      *)
(* kills the process.                                                       *)
(***************************************************************************)
EXTENDS Integers, Sequences, ControlCode

CONSTANTS
    Threads,      \* threads of the client that share the Client object
    NoThread,     \* the mutex is free
    Codes,        \* control codes the client uses
    Handled,      \* control codes with a callback of their kind registered
    ResultCode,   \* control code of the packet that announces a result
    Sizes,        \* sizes of bodies and results
    MaxCalls,     \* bound on the calls issued
    Faults        \* the faults that may happen

ASSUME ThreadsAssumption == NoThread \notin Threads
ASSUME CodesAssumption ==
    /\ Codes \subseteq Nat /\ Codes # {}
    /\ Handled \subseteq Codes
    /\ ResultCode \in Nat
    /\ MayAnnounceBody(ResultCode)      \* or make_data_packet throws
    \* the client announces a body exactly when the server expects one
    /\ \A c \in Codes : GroupOf(c) # "none" /\ (CarriesBody(c) <=> MayAnnounceBody(c))
ASSUME SizesAssumption == Sizes \subseteq Nat /\ Sizes # {}
ASSUME MaxCallsAssumption == MaxCalls \in Nat
ASSUME FaultsAssumption == Faults \subseteq {"reset", "kill", "abort"}

VARIABLES
    mutex,        \* Client::Impl::mutex_
    pc,           \* what each client thread does next
    call,         \* the arguments of the call each client thread makes
    issued,       \* how many calls were made
    spc,          \* what the server thread does next
    req,          \* its local variable packet
    rsize,        \* size of the result its callback has announced
    verdict,      \* the acknowledgement it is about to send
    c2s, s2c,     \* the two streams
    csock, ssock, \* the two ends of the connection
    status,       \* history: what the server did with each call
    outcome,      \* history: what the caller of each call was told
    answered      \* history: how many calls were answered by an acknowledgement

clientVars  == <<mutex, pc, call, issued>>
serverVars  == <<spc, req, rsize, verdict>>
netVars     == <<c2s, s2c, csock, ssock>>
historyVars == <<status, outcome, answered>>
vars == <<clientVars, serverVars, netVars, historyVars>>

Calls == 1 .. MaxCalls
CallRecord == [id : 0 .. MaxCalls, code : Codes, size : Nat]

PacketItem(id, code, size) == [kind |-> "packet", id |-> id, code |-> code, size |-> size]
BytesItem(id, size) == [kind |-> "bytes", id |-> id, code |-> kControlCodeNil, size |-> size]
Item == [kind : {"packet", "bytes"}, id : 0 .. MaxCalls, code : Nat, size : Nat]

\* An end of the connection. "reset": an error is pending and will be reported;
\* "broken": it was reported, a send now raises SIGPIPE.
SockState == {"open", "reset", "broken", "closed"}

ClientPC == {"idle", "packet", "body", "result", "payload", "ack", "killed"}
ServerPC == {"recv", "body", "eval", "payload", "tail", "ack", "dead", "released", "killed"}
Statuses == {"none", "ran", "refused", "ignored", "aborted"}
Outcomes == {"none", "accepted", "rejected", "lost"}
Busy     == {"packet", "body", "result", "payload", "ack"}

TypeOK ==
    /\ mutex \in Threads \cup {NoThread}
    /\ pc \in [Threads -> ClientPC]
    /\ call \in [Threads -> CallRecord]
    /\ issued \in 0 .. MaxCalls
    /\ spc \in ServerPC
    /\ req \in Item
    /\ rsize \in Nat
    /\ verdict \in {kControlCodeAccept, kControlCodeReject}
    /\ c2s \in Seq(Item)
    /\ s2c \in Seq(Item)
    /\ csock \in SockState
    /\ ssock \in SockState
    /\ status \in [Calls -> Statuses]
    /\ outcome \in [Calls -> Outcomes]
    /\ answered \in Nat

NoCall == [id |-> 0, code |-> CHOOSE c \in Codes : TRUE, size |-> 0]

\* A connection just accepted, the server thread invoked.
Init ==
    /\ mutex = NoThread
    /\ pc = [t \in Threads |-> "idle"]
    /\ call = [t \in Threads |-> NoCall]
    /\ issued = 0
    /\ spc = "recv"
    /\ req = PacketItem(0, kControlCodeNil, 0)
    /\ rsize = 0
    /\ verdict = kControlCodeAccept
    /\ c2s = <<>> /\ s2c = <<>>
    /\ csock = "open" /\ ssock = "open"
    /\ status = [i \in Calls |-> "none"]
    /\ outcome = [i \in Calls |-> "none"]
    /\ answered = 0

-----------------------------------------------------------------------------
(***************************************************************************)
(* The connection.                                                          *)
(***************************************************************************)

\* Socket::Impl::write succeeds. What is sent to a closed end is dropped; the
\* sender learns of it later, by an error or not at all.
ClientPut(item) ==
    /\ csock = "open"
    /\ IF ssock = "closed"
       THEN csock' \in {"open", "reset", "broken"} /\ c2s' = c2s
       ELSE csock' = csock /\ c2s' = Append(c2s, item)
    /\ UNCHANGED <<s2c, ssock>>

ServerPut(item) ==
    /\ ssock = "open"
    /\ IF csock = "closed"
       THEN ssock' \in {"open", "reset", "broken"} /\ s2c' = s2c
       ELSE ssock' = ssock /\ s2c' = Append(s2c, item)
    /\ UNCHANGED <<c2s, csock>>

\* Socket::Impl::read finds no byte and never will: recv returns 0 or an error.
ClientAtEnd == s2c = <<>> /\ (csock \in {"reset", "broken"} \/ ssock = "closed")
ServerAtEnd == c2s = <<>> /\ (ssock \in {"reset", "broken"} \/ csock = "closed")

\* The error of an end is reported once.
Reported(sock) == IF sock = "reset" THEN "broken" ELSE sock

\* What is left of a stream when the connection is reset.
Prefixes(s) == {SubSeq(s, 1, n) : n \in 0 .. Len(s)}

\* An end is closed: a reset for the other one if bytes were left unread.
CloseClientEnd ==
    /\ csock' = "closed"
    /\ ssock' = IF s2c # <<>> /\ ssock = "open" THEN "reset" ELSE ssock
    /\ c2s' \in IF s2c # <<>> THEN Prefixes(c2s) ELSE {c2s}
    /\ s2c' = <<>>

CloseServerEnd ==
    /\ ssock' = "closed"
    /\ csock' = IF c2s # <<>> /\ csock = "open" THEN "reset" ELSE csock
    /\ s2c' \in IF c2s # <<>> THEN Prefixes(s2c) ELSE {s2c}
    /\ c2s' = <<>>

-----------------------------------------------------------------------------
(***************************************************************************)
(* The client: send_request, send_data, recv_data and send_recv_data are    *)
(* one exchange whose steps depend on the group of the code.                *)
(***************************************************************************)

\* Mutant of Lock: no lock_guard.
LockUnguarded(t) ==
    /\ pc[t] = "idle"
    /\ issued < MaxCalls
    /\ issued' = issued + 1
    /\ mutex' = t
    /\ pc' = [pc EXCEPT ![t] = "packet"]
    /\ \E c \in Codes, n \in Sizes :
        call' = [call EXCEPT ![t] =
                    [id |-> issued + 1, code |-> c, size |-> IF CarriesBody(c) THEN n ELSE 0]]
    /\ UNCHANGED <<serverVars, netVars, historyVars>>

\* lock_guard on mutex_; the arguments of the call are those of its caller.
Lock(t) ==
    /\ pc[t] = "idle"
    /\ mutex = NoThread
    /\ issued < MaxCalls
    /\ issued' = issued + 1
    /\ mutex' = t
    /\ pc' = [pc EXCEPT ![t] = "packet"]
    /\ \E c \in Codes, n \in Sizes :
        call' = [call EXCEPT ![t] =
                    [id |-> issued + 1, code |-> c, size |-> IF CarriesBody(c) THEN n ELSE 0]]
    /\ UNCHANGED <<serverVars, netVars, historyVars>>

\* What the client expects after all it had to send.
FirstAnswer(code) == IF YieldsResult(code) THEN "result" ELSE "ack"

SendPacket(t) ==
    /\ pc[t] = "packet"
    /\ ClientPut(PacketItem(call[t].id, call[t].code, call[t].size))
    /\ pc' = [pc EXCEPT ![t] = IF call[t].size # 0 THEN "body" ELSE FirstAnswer(call[t].code)]
    /\ UNCHANGED <<mutex, call, issued, serverVars, historyVars>>

\* Only a body that is not empty: send_buffer does nothing for an empty one.
SendBody(t) ==
    /\ pc[t] = "body"
    /\ ClientPut(BytesItem(call[t].id, call[t].size))
    /\ pc' = [pc EXCEPT ![t] = FirstAnswer(call[t].code)]
    /\ UNCHANGED <<mutex, call, issued, serverVars, historyVars>>

\* The lock_guard leaves scope and the call returns or throws.
Finish(t, o) ==
    /\ mutex' = NoThread
    /\ pc' = [pc EXCEPT ![t] = "idle"]
    /\ outcome' = [outcome EXCEPT ![call[t].id] = o]
    /\ answered' = IF o = "lost" THEN answered ELSE answered + 1
    /\ UNCHANGED <<call, issued, status>>

ClientTake == s2c # <<>> /\ s2c' = Tail(s2c) /\ UNCHANGED <<c2s, csock, ssock>>

\* recv_data and send_recv_data: the packet before the payload.
RecvResult(t) ==
    /\ pc[t] = "result"
    /\ ClientTake
    /\ IF Head(s2c).code = kControlCodeReject
       THEN Finish(t, "rejected")
       ELSE /\ pc' = [pc EXCEPT ![t] = IF Head(s2c).size # 0 THEN "payload" ELSE "ack"]
            /\ UNCHANGED <<mutex, call, issued, historyVars>>
    /\ UNCHANGED serverVars

RecvPayload(t) ==
    /\ pc[t] = "payload"
    /\ ClientTake
    /\ pc' = [pc EXCEPT ![t] = "ack"]
    /\ UNCHANGED <<mutex, call, issued, serverVars, historyVars>>

\* Mutant of RecvAck: the code of the acknowledgement is not looked at.
RecvAckUnchecked(t) ==
    /\ pc[t] = "ack"
    /\ ClientTake
    /\ Finish(t, "accepted")
    /\ UNCHANGED serverVars

\* Any code but Reject and Failed is an acceptance; no server sends Failed.
RecvAck(t) ==
    /\ pc[t] = "ack"
    /\ ClientTake
    /\ Finish(t, IF Head(s2c).code = kControlCodeReject THEN "rejected" ELSE "accepted")
    /\ UNCHANGED serverVars

\* Mutant of ClientError: a receive gives up after a while, the connection stays.
ClientTimeout(t) ==
    /\ \/ pc[t] \in {"packet", "body"} /\ csock \in {"reset", "closed"}
       \/ pc[t] \in {"result", "payload", "ack"} /\ s2c = <<>>
    /\ csock' = Reported(csock)
    /\ Finish(t, "lost")
    /\ UNCHANGED <<serverVars, c2s, s2c, ssock>>

\* A send or a receive throws SocketException. The public functions of Client
\* catch it and return as if the call had succeeded.
ClientError(t) ==
    /\ \/ pc[t] \in {"packet", "body"} /\ csock \in {"reset", "closed"}
       \/ pc[t] \in {"result", "payload", "ack"} /\ ClientAtEnd
    /\ csock' = Reported(csock)
    /\ Finish(t, "lost")
    /\ UNCHANGED <<serverVars, c2s, s2c, ssock>>

\* The client process ends; its kernel closes the connection.
ClientDies ==
    /\ pc' = [t \in Threads |-> "killed"]
    /\ CloseClientEnd
    /\ UNCHANGED <<mutex, call, issued, serverVars, historyVars>>

\* SIGPIPE: a thread sends once more after the error was reported.
ClientPipe(t) ==
    /\ pc[t] \in {"packet", "body"}
    /\ csock = "broken"
    /\ ClientDies

\* Mutant of Close: it does not wait for the mutex.
CloseAnytime(t) ==
    /\ pc[t] = "idle"
    /\ csock # "closed"
    /\ CloseClientEnd
    /\ UNCHANGED <<clientVars, serverVars, historyVars>>

\* Client::close, and the destructor of Client::Impl.
Close(t) ==
    /\ pc[t] = "idle"
    /\ mutex = NoThread
    /\ csock # "closed"
    /\ CloseClientEnd
    /\ UNCHANGED <<clientVars, serverVars, historyVars>>

-----------------------------------------------------------------------------
(***************************************************************************)
(* The server thread: ServerThread::Impl::exec with                         *)
(* CallbackFunctionContainer::eval and the callback it calls.               *)
(***************************************************************************)

ServerTake == c2s # <<>> /\ c2s' = Tail(c2s) /\ UNCHANGED <<s2c, csock, ssock>>

\* Mutant of RecvPacket: the packet is peeked at and stays in the stream.
PeekPacket ==
    /\ spc = "recv"
    /\ c2s # <<>> /\ UNCHANGED netVars
    /\ req' = Head(c2s)
    /\ spc' = IF CarriesBody(Head(c2s).code) /\ Head(c2s).size # 0 THEN "body" ELSE "eval"
    /\ UNCHANGED <<rsize, verdict, clientVars, historyVars>>

\* Mutant of RecvPacket: a body is read only if a callback will look at it.
RecvPacketLazily ==
    /\ spc = "recv"
    /\ ServerTake
    /\ req' = Head(c2s)
    /\ spc' = IF Head(c2s).code \in Handled /\ CarriesBody(Head(c2s).code) /\ Head(c2s).size # 0
              THEN "body" ELSE "eval"
    /\ UNCHANGED <<rsize, verdict, clientVars, historyVars>>

RecvPacket ==
    /\ spc = "recv"
    /\ ServerTake
    /\ req' = Head(c2s)
    /\ spc' = IF CarriesBody(Head(c2s).code) /\ Head(c2s).size # 0 THEN "body" ELSE "eval"
    /\ UNCHANGED <<rsize, verdict, clientVars, historyVars>>

\* The body is read before funcmap_ is looked at, and for every data code.
RecvBody ==
    /\ spc = "body"
    /\ ServerTake
    /\ spc' = "eval"
    /\ UNCHANGED <<req, rsize, verdict, clientVars, historyVars>>

\* Mutant of Evaluated: a refused call is answered by Failed (0x0103).
EvaluatedFailed(s, ack) ==
    /\ status' = [status EXCEPT ![req.id] = s]
    /\ verdict' = IF s = "refused" THEN 259 ELSE ack
    /\ spc' = "ack"
    /\ UNCHANGED <<req, rsize, clientVars, netVars, outcome, answered>>

\* Mutant of Evaluated: a refused call is not answered.
EvaluatedSilently(s, ack) ==
    /\ status' = [status EXCEPT ![req.id] = s]
    /\ verdict' = ack
    /\ spc' = IF s = "refused" THEN "recv" ELSE "ack"
    /\ UNCHANGED <<req, rsize, clientVars, netVars, outcome, answered>>

\* eval is over and the acknowledgement is chosen.
Evaluated(s, ack) ==
    /\ status' = [status EXCEPT ![req.id] = s]
    /\ verdict' = ack
    /\ spc' = "ack"
    /\ UNCHANGED <<req, rsize, clientVars, netVars, outcome, answered>>

\* No function is registered for the code: eval returns, the client is told Accept.
Ignore ==
    /\ spc = "eval"
    /\ req.code \notin Handled
    /\ Evaluated("ignored", kControlCodeAccept)

\* Where a callback may return: one that yields a result has sent it.
AtReturn == spc = (IF YieldsResult(req.code) THEN "tail" ELSE "eval")

Run ==
    /\ AtReturn
    /\ req.code \in Handled
    /\ Evaluated("ran", kControlCodeAccept)

\* Mutant of Refuse: CallbackException is caught too late, Accept is sent.
RefuseAccepting ==
    /\ spc \in {"eval", "tail"}
    /\ req.code \in Handled
    /\ Evaluated("refused", kControlCodeAccept)

\* The callback throws CallbackException, before or after it has sent a result.
Refuse ==
    /\ spc \in {"eval", "tail"}
    /\ req.code \in Handled
    /\ Evaluated("refused", kControlCodeReject)

\* The callback sends its result: make_data_packet, then the bytes.
SendResult ==
    /\ spc = "eval"
    /\ req.code \in Handled
    /\ YieldsResult(req.code)
    /\ \E n \in Sizes :
        /\ ServerPut(PacketItem(req.id, ResultCode, n))
        /\ rsize' = n
        /\ spc' = IF n # 0 THEN "payload" ELSE "tail"
    /\ UNCHANGED <<req, verdict, clientVars, historyVars>>

SendPayload ==
    /\ spc = "payload"
    /\ ServerPut(BytesItem(req.id, rsize))
    /\ spc' = "tail"
    /\ UNCHANGED <<req, rsize, verdict, clientVars, historyVars>>

SendAck ==
    /\ spc = "ack"
    /\ ServerPut(PacketItem(req.id, verdict, 0))
    /\ spc' = "recv"
    /\ UNCHANGED <<req, rsize, verdict, clientVars, historyVars>>

\* The points at which the server thread sends.
Sending ==
    \/ spc \in {"payload", "ack"}
    \/ spc = "eval" /\ req.code \in Handled /\ YieldsResult(req.code)

\* The thread leaves its loop on any exception but CallbackException; nothing
\* closes the socket, and a callback it was in is cut short.
ServerError ==
    /\ \/ spc \in {"recv", "body"} /\ ServerAtEnd
       \/ Sending /\ ssock = "reset"
    /\ ssock' = Reported(ssock)
    /\ spc' = "dead"
    /\ status' = IF spc \in {"eval", "payload"}
                 THEN [status EXCEPT ![req.id] = "aborted"] ELSE status
    /\ UNCHANGED <<req, rsize, verdict, clientVars, c2s, s2c, csock, outcome, answered>>

\* The callback throws another exception: the thread ends with its socket open.
Abort ==
    /\ "abort" \in Faults
    /\ spc \in {"eval", "tail"}
    /\ req.code \in Handled
    /\ status' = [status EXCEPT ![req.id] = "aborted"]
    /\ spc' = "dead"
    /\ UNCHANGED <<req, rsize, verdict, clientVars, netVars, outcome, answered>>

\* ResourceContainer::wait and release, once the server was told to stop.
Release ==
    /\ spc = "dead"
    /\ spc' = "released"
    /\ CloseServerEnd
    /\ UNCHANGED <<req, rsize, verdict, clientVars, historyVars>>

ServerDies ==
    /\ spc' = "killed"
    /\ CloseServerEnd
    /\ UNCHANGED <<req, rsize, verdict, clientVars, historyVars>>

ServerPipe ==
    /\ Sending
    /\ ssock = "broken"
    /\ ServerDies

-----------------------------------------------------------------------------
(***************************************************************************)
(* Faults.                                                                  *)
(***************************************************************************)

\* The network drops the connection; bytes not yet received are lost.
Reset ==
    /\ "reset" \in Faults
    /\ csock = "open" /\ ssock = "open"
    /\ csock' = "reset" /\ ssock' = "reset"
    /\ c2s' \in Prefixes(c2s)
    /\ s2c' \in Prefixes(s2c)
    /\ UNCHANGED <<clientVars, serverVars, historyVars>>

KillClient ==
    /\ "kill" \in Faults
    /\ \E t \in Threads : pc[t] # "killed"
    /\ ClientDies

KillServer ==
    /\ "kill" \in Faults
    /\ spc \notin {"released", "killed"}
    /\ ServerDies

ClientStep(t) ==
    \/ SendPacket(t) \/ SendBody(t)
    \/ RecvResult(t) \/ RecvPayload(t) \/ RecvAck(t)
    \/ ClientError(t) \/ ClientPipe(t)

ServerStep ==
    \/ RecvPacket \/ RecvBody
    \/ Ignore \/ Run \/ Refuse
    \/ SendResult \/ SendPayload \/ SendAck
    \/ ServerError \/ ServerPipe

\* What the two processes do, and what happens to them.
Proceed ==
    \/ \E t \in Threads : Lock(t) \/ Close(t) \/ ClientStep(t)
    \/ ServerStep \/ Release
Fault == Abort \/ Reset \/ KillClient \/ KillServer

Next == Proceed \/ Fault

Spec == Init /\ [][Next]_vars

\* The kernel runs every thread that can run; a thread need not make a call, and
\* nobody has to stop the server.
FairSpec ==
    /\ Spec
    /\ \A t \in Threads : WF_vars(ClientStep(t))
    /\ WF_vars(ServerStep)

-----------------------------------------------------------------------------
(***************************************************************************)
(* Properties.                                                              *)
(***************************************************************************)

\* The streams stay in step: what a thread finds where it reads is of the kind
\* it expects and belongs to the call it makes or serves, whatever threads share
\* the client, whichever codes are handled, and wherever a fault cut the streams.
InStep ==
    /\ \A t \in Threads :
        pc[t] \in {"result", "payload", "ack"} /\ s2c # <<>> =>
            /\ Head(s2c).id = call[t].id
            /\ Head(s2c).kind = IF pc[t] = "payload" THEN "bytes" ELSE "packet"
    /\ spc = "recv" /\ c2s # <<>> => Head(c2s).kind = "packet"
    /\ spc = "body" /\ c2s # <<>> =>
            Head(c2s) = BytesItem(req.id, req.size)

\* A caller told that its call was accepted or rejected was told the truth about
\* that very call; Accept covers a code for which nothing is registered.
OutcomeTruthful ==
    \A i \in Calls :
        /\ outcome[i] = "accepted" => status[i] \in {"ran", "ignored"}
        /\ outcome[i] = "rejected" => status[i] = "refused"

\* Calls of different threads are executed one after the other: when one is
\* executed, the earlier ones have been answered, so after a call whose exception
\* was swallowed no later call of any thread takes effect.
SerialExecution ==
    \A i, j \in Calls :
        i < j /\ status[j] # "none" => outcome[i] \in {"accepted", "rejected"}

\* The server never executes a call twice, nor changes what it did with it.
ExecutesAtMostOnce ==
    [][\A i \in Calls : status[i] # "none" => status'[i] = status[i]]_vars

\* Close and the destructor wait for the mutex, so they cut no exchange short: as long
\* as no fault happens no process dies of SIGPIPE, and a call whose exception was
\* swallowed has not been executed.
NothingLost ==
    /\ \A t \in Threads : pc[t] # "killed"
    /\ spc # "killed"
    /\ \A i \in Calls : outcome[i] = "lost" => status[i] = "none"

\* What the connection promises, in terms of calls alone.
Promise == INSTANCE Rpc WITH
    MaxCalls <- MaxCalls, issued <- issued, status <- status, outcome <- outcome

\* Whatever the interleaving of the threads, the two processes and the faults, the
\* session is a sequence of calls each executed at most once, in order, with
\* truthful answers, until one is lost.
KeepsPromise == Promise!Spec

\* The two sides never wait for each other while the connection is up: a client that waits
\* for an answer has part of it, or the server thread has something to receive or to do,
\* unless an exception of a callback has ended it; and the server thread waits for a body
\* only if a client is about to send it.
NoMutualWait ==
    csock = "open" /\ ssock = "open" =>
        /\ \A t \in Threads :
            pc[t] \in {"result", "payload", "ack"} /\ s2c = <<>> =>
                spc \notin {"recv", "body"} \/ c2s # <<>>
        /\ spc = "body" /\ c2s = <<>> => \E t \in Threads : pc[t] = "body"

\* A call ends, and with it the possession of the mutex that every other thread
\* of the client, and close, have to wait for.
CallReturns ==
    \A t \in Threads : pc[t] \in Busy ~> pc[t] \in {"idle", "killed"}

=============================================================================
