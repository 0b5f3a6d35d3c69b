---------------------------- MODULE QuietProof -----------------------------
(***************************************************************************)
(* Proofs about SessionQuiet: what a close can do to the calls of other     *)
(* threads.                                                                 *)
(***************************************************************************)
EXTENDS SessionProof, SessionQuiet

\* The only end that is closed is the client's, unless the server has been stopped after
\* that; nobody is then in the middle of an exchange, and nothing is under way.
Departed ==
    /\ c2s = <<>> /\ s2c = <<>>
    /\ spc \in {"recv", "dead", "released"}
    /\ Phase \in {"idle", "packet"}

QuietInv ==
    quiet =>
        /\ NothingLost
        /\ csock \in {"open", "closed"}
        /\ ssock # "open" => ssock = "closed" /\ csock = "closed"
        /\ spc \in {"dead", "released"} => csock = "closed"
        /\ csock = "closed" => Departed
        /\ Phase = "packet" => status[issued] = "none"

\* A thread in a call is the one that Phase tells of.
LEMMA Caller ==
    ASSUME IInv, NEW t \in Threads, pc[t] \in Busy
    PROVE  mutex = t /\ Phase = pc[t] /\ call[t].id = issued /\ issued \in Calls
BY Holder

\* While nothing has failed and the server is in an exchange, both ends are open, no call
\* is lost, and no client has only begun its call.
LEMMA ServingIntact ==
    ASSUME IInv, QuietInv, quiet, spc \in Serving
    PROVE  /\ csock = "open" /\ ssock = "open"
           /\ \A i \in Calls : outcome[i] # "lost"
           /\ Phase # "packet"
<1>1. csock = "open" /\ ssock = "open" /\ Intact
  BY DEF QuietInv, Departed, Serving, Intact
<1>2. \A i \in Calls : outcome[i] # "lost"
  BY <1>1 DEF IInv, LostInv
<1>3. spc \notin Resting
  BY DEF Serving, Resting
<1> QED BY <1>1, <1>2, <1>3 DEF IInv, UpInv, UpClient

\* Steps of the client that send, receive or begin a call.
LEMMA ClientQuiet ==
    ASSUME IInv, IInv', QuietInv, quiet, NEW t \in Threads, Lock(t) \/ ClientStep(t)
    PROVE  QuietInv'
<1>1. CASE Lock(t)
  <2>1. /\ mutex = NoThread /\ mutex' = t /\ pc' = [pc EXCEPT ![t] = "packet"]
        /\ issued' = issued + 1 /\ UNCHANGED <<spc, c2s, s2c, csock, ssock, status, outcome>>
    BY <1>1 DEF Lock, serverVars, netVars, historyVars
  <2>2. Phase' = "packet"
    BY <2>1, ThreadsAssumption DEF Phase, IInv, TypeOK
  <2>3. issued' \in Calls /\ status'[issued'] = "none"
    <3>1. issued \in Nat /\ issued' \in Calls
      BY <1>1, <2>1, MaxCallsAssumption DEF IInv, TypeOK, Lock, Calls
    <3> QED BY <2>1, <3>1 DEF IInv, LiveInv
  <2>4. NothingLost'
    BY <2>1 DEF QuietInv, NothingLost, IInv, TypeOK
  <2>5. Departed => Departed'
    BY <2>1, <2>2 DEF Departed
  <2> QED BY <2>1, <2>2, <2>3, <2>4, <2>5 DEF QuietInv
<1>2. CASE ~Lock(t)
  <2>1. pc[t] \in Busy
    BY <1>2 DEF ClientStep, SendPacket, SendBody, RecvResult, RecvPayload, RecvAck, ClientError,
                ClientPipe, Busy
  <2>2. mutex = t /\ Phase = pc[t] /\ call[t].id = issued /\ issued \in Calls
    BY <2>1, Caller
  <2>3. CASE SendPacket(t) \/ SendBody(t)
    <3>1. /\ csock = "open" /\ ssock = "open" /\ csock' = csock /\ ssock' = ssock
          /\ UNCHANGED <<mutex, spc, status, outcome>>
      BY <2>3 DEF SendPacket, SendBody, ClientPut, QuietInv, serverVars, historyVars
    <3>2. \E p \in ClientPC \ {"packet", "killed"} : pc' = [pc EXCEPT ![t] = p]
      BY <2>3 DEF SendPacket, SendBody, FirstAnswer, ClientPC
    <3>3. Phase' # "packet" /\ \A u \in Threads : pc'[u] # "killed"
      BY <2>2, <3>1, <3>2, ThreadsAssumption DEF Phase, IInv, TypeOK, QuietInv, NothingLost
    <3> QED BY <3>1, <3>3 DEF QuietInv, NothingLost
  <2>4. CASE RecvResult(t) \/ RecvPayload(t) \/ RecvAck(t)
    <3>1. csock = "open" /\ ssock = "open"
      BY <2>2, <2>4 DEF QuietInv, Departed, RecvResult, RecvPayload, RecvAck
    <3>2. UNCHANGED <<csock, ssock, spc, status>>
      BY <2>4 DEF RecvResult, RecvPayload, RecvAck, ClientTake, Finish, serverVars, historyVars
    <3>3. /\ \E p \in {"idle", "payload", "ack"} : pc' = [pc EXCEPT ![t] = p]
          /\ \/ mutex' = t /\ outcome' = outcome
             \/ /\ mutex' = NoThread
                /\ \E o \in {"accepted", "rejected"} : outcome' = [outcome EXCEPT ![issued] = o]
      BY <2>2, <2>4 DEF RecvResult, RecvPayload, RecvAck, Finish, historyVars
    <3>4. Phase' # "packet" /\ \A u \in Threads : pc'[u] # "killed"
      BY <3>3, ThreadsAssumption DEF Phase, IInv, TypeOK, QuietInv, NothingLost
    <3>5. \A i \in Calls : outcome'[i] = "lost" => outcome[i] = "lost"
      BY <2>2, <3>3 DEF IInv, TypeOK
    <3> QED BY <3>1, <3>2, <3>4, <3>5 DEF QuietInv, NothingLost
  <2>5. CASE ClientError(t)
    <3>1. csock = "closed" /\ Phase = "packet" /\ Departed
      BY <2>2, <2>5 DEF ClientError, ClientAtEnd, QuietInv, Departed
    <3>2. /\ csock' = csock /\ mutex' = NoThread /\ pc' = [pc EXCEPT ![t] = "idle"]
          /\ outcome' = [outcome EXCEPT ![issued] = "lost"]
          /\ UNCHANGED <<spc, c2s, s2c, ssock, status>>
      BY <2>2, <2>5, <3>1 DEF ClientError, Reported, Finish, serverVars
    <3>3. Phase' = "idle" /\ \A u \in Threads : pc'[u] # "killed"
      BY <3>2 DEF Phase, IInv, TypeOK, QuietInv, NothingLost
    <3>4. \A i \in Calls : outcome'[i] = "lost" => status'[i] = "none"
      BY <2>2, <3>1, <3>2 DEF IInv, TypeOK, QuietInv, NothingLost
    <3>5. Departed'
      BY <3>1, <3>2, <3>3 DEF Departed
    <3> QED BY <3>2, <3>3, <3>4, <3>5 DEF QuietInv, NothingLost
  <2>6. CASE ClientPipe(t)
    BY <2>6 DEF ClientPipe, QuietInv
  <2> QED BY <1>2, <2>3, <2>4, <2>5, <2>6 DEF ClientStep
<1> QED BY <1>1, <1>2

\* A close finds both streams empty and the server thread waiting for a packet.
LEMMA CloseQuiet ==
    ASSUME IInv, QuietInv, quiet, NEW t \in Threads, Close(t)
    PROVE  QuietInv'
<1>1. /\ mutex = NoThread /\ Phase = "idle" /\ csock = "open" /\ ssock = "open" /\ Intact
  BY DEF Close, QuietInv, Phase, Intact
<1>2. c2s = <<>> /\ s2c = <<>> /\ spc \in {"recv", "dead", "released"}
  <2>1. UpLen = 0 /\ spc \in Resting
    BY <1>1 DEF IInv, UpInv, UpClient
  <2>2. DownLen = 0
    BY <1>1 DEF IInv, DownInv, Framed, Reading
  <2> QED BY <2>1, <2>2, LengthTypes DEF IInv, Resting, QuietInv, NothingLost
<1>3. /\ csock' = "closed" /\ ssock' = ssock /\ c2s' = c2s /\ s2c' = s2c
      /\ UNCHANGED <<mutex, pc, spc, status, outcome>>
  BY <1>2 DEF Close, CloseClientEnd, clientVars, serverVars, historyVars
<1>4. Phase' = "idle"
  BY <1>1, <1>3 DEF Phase
<1>5. Departed'
  BY <1>2, <1>3, <1>4 DEF Departed
<1> QED BY <1>1, <1>3, <1>4, <1>5 DEF QuietInv, NothingLost

\* Steps of the server thread, and its release.
LEMMA ServerQuiet ==
    ASSUME IInv, QuietInv, quiet, ServerStep \/ Release
    PROVE  QuietInv'
<1>1. UNCHANGED <<mutex, pc, issued, outcome>>
  BY DEF ServerStep, RecvPacket, RecvBody, Ignore, Run, Refuse, Evaluated, SendResult, SendPayload,
         SendAck, ServerError, ServerPipe, ServerDies, Release, clientVars, historyVars
<1>2. Phase' = Phase /\ \A t \in Threads : pc'[t] # "killed"
  BY <1>1 DEF Phase, QuietInv, NothingLost
<1>3. CASE RecvPacket
  <2>1. csock = "open" /\ ssock = "open"
    BY <1>3 DEF RecvPacket, ServerTake, QuietInv, Departed
  <2>2. UNCHANGED <<csock, ssock, status>> /\ spc' \in {"body", "eval"}
    BY <1>3 DEF RecvPacket, ServerTake, historyVars
  <2> QED BY <1>1, <1>2, <2>1, <2>2 DEF QuietInv, NothingLost
<1>4. CASE RecvBody \/ Ignore \/ Run \/ Refuse \/ SendResult \/ SendPayload \/ SendAck
  <2>1. spc \in Serving
    BY <1>4 DEF RecvBody, Ignore, Run, Refuse, AtReturn, SendResult, SendPayload, SendAck, Serving
  <2>2. /\ csock = "open" /\ ssock = "open" /\ Phase # "packet"
        /\ \A i \in Calls : outcome[i] # "lost"
    BY <2>1, ServingIntact
  <2>3. UNCHANGED <<csock, ssock>>
    BY <1>4, <2>2 DEF RecvBody, ServerTake, Ignore, Run, Refuse, Evaluated, SendResult, SendPayload,
                      SendAck, ServerPut, netVars
  <2>4. spc' \in {"recv", "eval", "payload", "tail", "ack"}
    BY <1>4 DEF RecvBody, Ignore, Run, Refuse, Evaluated, SendResult, SendPayload, SendAck
  <2> QED BY <1>1, <1>2, <2>2, <2>3, <2>4 DEF QuietInv, NothingLost
<1>5. CASE ServerError
  <2>1. csock = "closed" /\ Departed /\ spc = "recv" /\ ssock \in {"open", "closed"}
    BY <1>5 DEF ServerError, ServerAtEnd, QuietInv, Departed
  <2>2. UNCHANGED <<csock, ssock, c2s, s2c, status>> /\ spc' = "dead"
    BY <1>5, <2>1 DEF ServerError, Reported
  <2>3. Departed'
    BY <1>2, <2>1, <2>2 DEF Departed
  <2> QED BY <1>1, <1>2, <2>1, <2>2, <2>3 DEF QuietInv, NothingLost
<1>6. CASE ServerPipe
  BY <1>6 DEF ServerPipe, QuietInv
<1>7. CASE Release
  <2>1. csock = "closed" /\ Departed
    BY <1>7 DEF Release, QuietInv
  <2>2. /\ UNCHANGED <<csock, c2s, s2c, status>> /\ ssock' = "closed" /\ spc' = "released"
    BY <1>7, <2>1 DEF Release, CloseServerEnd, Departed, historyVars
  <2>3. Departed'
    BY <1>2, <2>1, <2>2 DEF Departed
  <2> QED BY <1>1, <1>2, <2>1, <2>2, <2>3 DEF QuietInv, NothingLost
<1> QED BY <1>3, <1>4, <1>5, <1>6, <1>7 DEF ServerStep

LEMMA QuietKeeps ==
    ASSUME IInv, QuietInv, [QuietNext]_<<vars, quiet>>
    PROVE  IInv' /\ QuietInv'
<1>1. [Next]_vars /\ IInv'
  BY NextKeeps DEF QuietNext, Next
<1>2. CASE ~quiet'
  BY <1>1, <1>2 DEF QuietInv
<1>3. CASE quiet' /\ UNCHANGED <<vars, quiet>>
  <2>1. /\ quiet
        /\ UNCHANGED <<mutex, pc, issued, spc, c2s, s2c, csock, ssock, status, outcome>>
    BY <1>3 DEF vars, clientVars, serverVars, netVars, historyVars
  <2>2. Phase' = Phase /\ (Departed => Departed') /\ (NothingLost => NothingLost')
    BY <2>1 DEF Phase, Departed, NothingLost
  <2> QED BY <1>1, <2>1, <2>2 DEF QuietInv
<1>4. CASE quiet' /\ Proceed /\ quiet' = quiet
  BY <1>1, <1>4, ClientQuiet, CloseQuiet, ServerQuiet DEF Proceed
<1> QED BY <1>2, <1>3, <1>4 DEF QuietNext

\* Until the first fault the streams are empty and the server thread waits whenever an end
\* is closed, in every reachable state.
THEOREM QuietInvariant == QuietSpec => [](IInv /\ QuietInv)
<1>1. QuietInit => IInv /\ QuietInv
  <2> SUFFICES ASSUME QuietInit PROVE IInv /\ QuietInv
    OBVIOUS
  <2>1. IInv
    BY InitKeeps DEF QuietInit
  <2>2. Phase = "idle"
    BY DEF QuietInit, Init, Phase
  <2>3. NothingLost
    BY DEF QuietInit, Init, NothingLost
  <2> QED BY <2>1, <2>2, <2>3 DEF QuietInit, Init, QuietInv
<1>2. IInv /\ QuietInv /\ [QuietNext]_<<vars, quiet>> => (IInv /\ QuietInv)'
  BY QuietKeeps
<1> QED BY <1>1, <1>2, PTL DEF QuietSpec

\* Close and the destructor of a Client, called by any thread at any time, lose no call
\* that was executed and kill no process, for every number of threads and calls, as long
\* as no fault happens.
THEOREM CloseIsClean == QuietSpec => []CloseLosesNothing
<1>1. QuietInv => CloseLosesNothing
  BY DEF QuietInv, CloseLosesNothing
<1> QED BY <1>1, QuietInvariant, PTL

=============================================================================
