---------------------------- MODULE ServerProof ----------------------------
(***************************************************************************)
(* Theorems about Server, for every number of connections, descriptors and  *)
(* starts.                                                                  *)
(***************************************************************************)
EXTENDS Server, SequenceTheorems, TLAPS

\* How many connections were accepted in this run, and are waiting.
Accepted == Len(resources)
Waiting == Len(backlog)

\* Sockets and open descriptors determine each other.
FileInv ==
    /\ \A c \in Conns : sock[c] # None => file[sock[c]] = c
    /\ \A f \in Fds : file[f] \in Conns => sock[file[f]] = f
    /\ listen_socket # None => file[listen_socket] = Listen
    /\ \A f \in Fds : file[f] = Listen => listen_socket = f

\* The containers that hold a socket are those the server thread has yet to join.
ResourceInv ==
    /\ \A i, j \in 1 .. Accepted : resources[i] = resources[j] => i = j
    /\ \A c \in Conns : sock[c] # None <=> \E i \in next .. Accepted : resources[i] = c
    /\ \A c \in Conns : thread[c] = "serving" => sock[c] # None
    /\ \A i \in 1 .. Accepted : thread[resources[i]] # "none"

\* What waits to be accepted was not accepted before.
BacklogInv ==
    /\ \A i, j \in 1 .. Waiting : backlog[i] = backlog[j] => i = j
    /\ \A i \in 1 .. Waiting : thread[backlog[i]] = "none" /\ client[backlog[i]] # "away"
    /\ \A c \in Conns : client[c] = "away" => thread[c] = "none"

\* Where the server thread is.
PhaseInv ==
    /\ spc \in {"none", "ended"} => next > Accepted
    /\ listen_socket # None <=> spc \in {"check", "accept", "join"}
    /\ spc \in {"listen", "check", "accept"} => next = 1
    /\ main = "idle" => spc \in {"none", "ended"}

\* A connection is late when the server was told to stop while it was accepting.
LateInv ==
    /\ late <= 1
    /\ spc = "accept" \/ ~force_finish => late = 0

IInv == TypeOK /\ FileInv /\ ResourceInv /\ BacklogInv /\ PhaseInv /\ LateInv


-----------------------------------------------------------------------------
(* The actions that only move the server thread or the main thread, or only *)
(* touch the common data.                                                   *)

LEMMA Lengths ==
    ASSUME TypeOK
    PROVE  /\ Accepted \in Nat /\ (resources = <<>> <=> Accepted = 0)
           /\ Waiting \in Nat /\ (backlog = <<>> <=> Waiting = 0)
           /\ \A i \in 1 .. Accepted : resources[i] \in Conns
           /\ \A i \in 1 .. Waiting : backlog[i] \in Conns
<1>1. resources \in Seq(Conns) /\ backlog \in Seq(Conns)
  BY DEF TypeOK
<1>2. Accepted \in Nat /\ (resources = <<>> <=> Accepted = 0)
  BY <1>1, EmptySeq, LenProperties DEF Accepted
<1>3. Waiting \in Nat /\ (backlog = <<>> <=> Waiting = 0)
  BY <1>1, EmptySeq, LenProperties DEF Waiting
<1>4. \A i \in 1 .. Accepted : resources[i] \in Conns
  BY <1>1, ElementOfSeq DEF Accepted
<1>5. \A i \in 1 .. Waiting : backlog[i] \in Conns
  BY <1>1, ElementOfSeq DEF Waiting
<1> QED BY <1>2, <1>3, <1>4, <1>5

LEMMA InitInv == Init => IInv
<1> SUFFICES ASSUME Init PROVE IInv
  OBVIOUS
<1> USE DEF Init
<1>0. <<>> \in Seq(Conns)
  BY EmptySeq
<1>1. TypeOK
  <2>1. resources \in Seq(Conns) /\ backlog \in Seq(Conns)
    BY <1>0
  <2>2. /\ client \in [Conns -> {"away", "open", "gone"}]
        /\ thread \in [Conns -> {"none", "serving", "dead"}]
        /\ sock \in [Conns -> Fds \cup {None}]
        /\ file \in [Fds -> Conns \cup {Listen, None}]
        /\ cdatamap \in [Fds -> Conns \cup {Initial, None}]
        /\ seen \in [Conns -> Conns \cup {Initial, None}]
    OBVIOUS
  <2>3. starts \in 0 .. MaxStarts /\ next \in Nat \ {0} /\ late \in Nat
    BY MaxStartsAssumption
  <2> QED BY <2>1, <2>2, <2>3 DEF TypeOK
<1>2. Accepted = 0 /\ Waiting = 0
  BY DEF Accepted, Waiting
<1>3. FileInv
  BY ConnsAssumption, NamesAssumption DEF FileInv
<1>4. ResourceInv
  BY <1>2 DEF ResourceInv
<1>5. BacklogInv
  BY <1>2 DEF BacklogInv
<1> QED BY <1>1, <1>2, <1>3, <1>4, <1>5 DEF IInv, PhaseInv, LateInv

\* A step that leaves descriptors, containers and the backlog alone.
LEMMA QuietKeeps ==
    ASSUME IInv, TypeOK', UNCHANGED <<listen_socket, resources, next, connVars, file>>,
           PhaseInv', LateInv'
    PROVE  IInv'
<1> USE DEF connVars
<1>1. Accepted' = Accepted /\ Waiting' = Waiting
  BY DEF Accepted, Waiting
<1> QED BY <1>1 DEF IInv, FileInv, ResourceInv, BacklogInv

LEMMA StopKeeps == ASSUME IInv, Stop PROVE IInv'
<1>1. TypeOK' /\ UNCHANGED <<listen_socket, resources, next, connVars, file>>
  BY DEF IInv, TypeOK, Stop, loopVars, connVars, dataVars
<1>2. PhaseInv' /\ LateInv'
  BY DEF IInv, PhaseInv, LateInv, Stop, loopVars, Accepted
<1> QED BY <1>1, <1>2, QuietKeeps

LEMMA WaitKeeps == ASSUME IInv, Wait PROVE IInv'
<1>1. TypeOK' /\ UNCHANGED <<listen_socket, resources, next, connVars, file>>
  BY DEF IInv, TypeOK, Wait, loopVars, connVars, dataVars
<1>2. PhaseInv' /\ LateInv'
  BY DEF IInv, PhaseInv, LateInv, Wait, loopVars, Accepted
<1> QED BY <1>1, <1>2, QuietKeeps

LEMMA CheckKeeps ==
    ASSUME IInv, Check \/ AcceptFails \/ ListenFails
    PROVE  IInv'
<1>1. /\ UNCHANGED <<listen_socket, resources, next, mainVars, connVars, file, dataVars, late>>
      /\ \/ spc = "check" /\ spc' = IF force_finish THEN "join" ELSE "accept"
         \/ spc = "accept" /\ spc' = "check"
         \/ spc = "listen" /\ spc' = "terminated"
  BY DEF Check, AcceptFails, ListenFails
<1>2. TypeOK'
  BY <1>1 DEF IInv, TypeOK, mainVars, connVars, dataVars
<1>3. PhaseInv' /\ LateInv'
  BY <1>1 DEF IInv, PhaseInv, LateInv, mainVars, Accepted
<1> QED BY <1>1, <1>2, <1>3, QuietKeeps

LEMMA EvalKeeps == ASSUME IInv, NEW c \in Conns, Eval(c) PROVE IInv'
<1>1. sock[c] \in Fds
  BY DEF IInv, TypeOK, ResourceInv, Eval
<1>2. TypeOK' /\ UNCHANGED <<listen_socket, resources, next, connVars, file>>
  BY <1>1 DEF IInv, TypeOK, Eval, mainVars, loopVars, connVars
<1>3. PhaseInv' /\ LateInv'
  BY DEF IInv, PhaseInv, LateInv, Eval, mainVars, loopVars, Accepted
<1> QED BY <1>2, <1>3, QuietKeeps

-----------------------------------------------------------------------------
(* Clients and server threads.                                              *)

LEMMA DisconnectKeeps == ASSUME IInv, NEW c \in Conns, Disconnect(c) PROVE IInv'
<1> USE DEF Disconnect, mainVars, loopVars, dataVars
<1>1. TypeOK'
  BY DEF IInv, TypeOK
<1>2. Accepted' = Accepted /\ Waiting' = Waiting
  BY DEF Accepted, Waiting
<1>3. \A d \in Conns : client'[d] = "away" <=> client[d] = "away"
  BY DEF IInv, TypeOK
<1>4. \A i \in 1 .. Waiting : backlog[i] \in Conns
  BY Lengths DEF IInv
<1>5. BacklogInv'
  BY <1>2, <1>3, <1>4 DEF IInv, BacklogInv
<1>6. FileInv' /\ ResourceInv' /\ PhaseInv' /\ LateInv'
  BY <1>2 DEF IInv, FileInv, ResourceInv, PhaseInv, LateInv
<1> QED BY <1>1, <1>5, <1>6 DEF IInv

LEMMA ThreadEndsKeeps == ASSUME IInv, NEW c \in Conns, ThreadEnds(c) PROVE IInv'
<1> USE DEF ThreadEnds, mainVars, loopVars, dataVars
<1>1. TypeOK'
  BY DEF IInv, TypeOK
<1>2. Accepted' = Accepted /\ Waiting' = Waiting
  BY DEF Accepted, Waiting
<1>3. \A d \in Conns : /\ thread'[d] = "none" <=> thread[d] = "none"
                       /\ thread'[d] = "serving" => thread[d] = "serving"
  BY DEF IInv, TypeOK
<1>4. /\ \A i \in 1 .. Accepted : resources[i] \in Conns
      /\ \A i \in 1 .. Waiting : backlog[i] \in Conns
  BY Lengths DEF IInv
<1>5. BacklogInv'
  BY <1>2, <1>3, <1>4 DEF IInv, BacklogInv
<1>6. ResourceInv'
  BY <1>2, <1>3, <1>4 DEF IInv, ResourceInv
<1>7. FileInv' /\ PhaseInv' /\ LateInv'
  BY <1>2 DEF IInv, FileInv, PhaseInv, LateInv
<1> QED BY <1>1, <1>5, <1>6, <1>7 DEF IInv

LEMMA ConnectKeeps == ASSUME IInv, NEW c \in Conns, Connect(c) PROVE IInv'
<1> USE DEF Connect, mainVars, loopVars, dataVars
<1>1. backlog \in Seq(Conns) /\ backlog' = Append(backlog, c)
  BY DEF IInv, TypeOK
<1>2. TypeOK'
  BY <1>1 DEF IInv, TypeOK
<1>3. /\ Accepted' = Accepted /\ Waiting \in Nat /\ Waiting' = Waiting + 1
      /\ \A i \in 1 .. Waiting : backlog'[i] = backlog[i] /\ backlog[i] \in Conns
      /\ backlog'[Waiting + 1] = c
  BY <1>1, AppendProperties, Lengths DEF IInv, Accepted, Waiting
<1>4. /\ \A d \in Conns : d # c => client'[d] = client[d]
      /\ client[c] = "away" /\ client'[c] = "open" /\ thread[c] = "none"
  BY DEF IInv, TypeOK, BacklogInv
<1>5. \A i \in 1 .. Waiting : backlog[i] # c
  BY <1>4 DEF IInv, BacklogInv
<1>6. BacklogInv'
  <2>1. \A i \in 1 .. Waiting' : i \in 1 .. Waiting \/ i = Waiting + 1
    BY <1>3
  <2>2. \A i \in 1 .. Waiting' : thread[backlog'[i]] = "none" /\ client'[backlog'[i]] # "away"
    BY <1>3, <1>4, <1>5, <2>1 DEF IInv, BacklogInv
  <2>3. \A i, j \in 1 .. Waiting' : backlog'[i] = backlog'[j] => i = j
    BY <1>3, <1>5, <2>1 DEF IInv, BacklogInv
  <2>4. \A d \in Conns : client'[d] = "away" => thread[d] = "none"
    BY <1>4 DEF IInv, BacklogInv
  <2> QED BY <2>2, <2>3, <2>4 DEF BacklogInv
<1>7. FileInv' /\ ResourceInv' /\ PhaseInv' /\ LateInv'
  BY <1>3 DEF IInv, FileInv, ResourceInv, PhaseInv, LateInv
<1> QED BY <1>2, <1>6, <1>7 DEF IInv

-----------------------------------------------------------------------------
(* Starting, listening and closing the listening socket.                    *)

LEMMA StartKeeps == ASSUME IInv, Start PROVE IInv'
<1> USE DEF Start, connVars, dataVars
<1>1. TypeOK'
  <2>1. resources' \in Seq(Conns)
    BY EmptySeq
  <2>2. starts' \in 0 .. MaxStarts
    BY MaxStartsAssumption DEF IInv, TypeOK
  <2>3. next' = 1 /\ late' = 0 /\ force_finish' \in BOOLEAN
    BY Zenon
  <2>4. main' \in {"running", "waiting"} /\ spc' = "listen"
        /\ UNCHANGED <<listen_socket, backlog, client, thread, sock, file, cdatamap, seen>>
    OBVIOUS
  <2> HIDE DEF Start
  <2> QED BY <2>1, <2>2, <2>3, <2>4 DEF IInv, TypeOK
<1>2. Accepted' = 0 /\ Waiting' = Waiting
  BY DEF Accepted, Waiting
<1>3. next > Accepted /\ Accepted \in Nat /\ next \in Nat
  BY Lengths DEF IInv, PhaseInv, TypeOK
<1>4. \A c \in Conns : sock[c] = None
  BY <1>3 DEF IInv, ResourceInv
<1>5. ResourceInv'
  BY <1>2, <1>4 DEF IInv, ResourceInv
<1>6. FileInv' /\ BacklogInv'
  BY <1>2 DEF IInv, FileInv, BacklogInv
<1>7. PhaseInv' /\ LateInv'
  BY <1>2 DEF IInv, PhaseInv, LateInv
<1> QED BY <1>1, <1>5, <1>6, <1>7 DEF IInv

LEMMA MakeListenSocketKeeps == ASSUME IInv, MakeListenSocket PROVE IInv'
<1> USE DEF mainVars, connVars, dataVars
<1>1. PICK f \in Fds : Opens(f, Listen) /\ listen_socket' = f
  BY DEF MakeListenSocket
<1>2. /\ file[f] = None /\ file' = [file EXCEPT ![f] = Listen]
      /\ spc = "listen" /\ spc' = "check"
      /\ UNCHANGED <<resources, next, main, starts, force_finish, backlog, client, thread,
                     sock, cdatamap, seen, late>>
  BY <1>1 DEF MakeListenSocket, Opens, Free
<1>3. TypeOK'
  BY <1>1, <1>2 DEF IInv, TypeOK
<1>4. Accepted' = Accepted /\ Waiting' = Waiting
  BY <1>2 DEF Accepted, Waiting
<1>5. listen_socket = None
  BY <1>2 DEF IInv, PhaseInv
<1>6. file'[f] = Listen /\ \A g \in Fds : g # f => file'[g] = file[g] /\ file[g] # Listen
  BY <1>2, <1>5, FdsAssumption DEF IInv, TypeOK, FileInv
<1>7. FileInv'
  <2>1. \A c \in Conns : sock[c] # None => sock[c] \in Fds /\ sock[c] # f
    BY <1>2, ConnsAssumption DEF IInv, TypeOK, FileInv
  <2>2. \A c \in Conns : sock'[c] # None => file'[sock'[c]] = c
    BY <1>2, <1>6, <2>1 DEF IInv, FileInv
  <2>3. \A g \in Fds : file'[g] \in Conns => sock'[file'[g]] = g
    BY <1>2, <1>6, ConnsAssumption DEF IInv, FileInv
  <2> QED BY <1>1, <1>6, <2>2, <2>3 DEF FileInv
<1>8. ResourceInv' /\ BacklogInv' /\ LateInv'
  BY <1>2, <1>4 DEF IInv, ResourceInv, BacklogInv, LateInv
<1>9. PhaseInv'
  BY <1>1, <1>2, <1>4, FdsAssumption DEF IInv, PhaseInv
<1> QED BY <1>3, <1>7, <1>8, <1>9 DEF IInv

LEMMA CloseListenSocketKeeps == ASSUME IInv, CloseListenSocket PROVE IInv'
<1> USE DEF mainVars, dataVars
<1>1. /\ spc = "join" /\ next > Accepted
      /\ file' = [file EXCEPT ![listen_socket] = None] /\ listen_socket' = None
      /\ backlog' = <<>> /\ spc' = "ended"
      /\ UNCHANGED <<resources, next, thread, sock, main, starts, force_finish, cdatamap, seen,
                     late>>
  BY DEF CloseListenSocket, Accepted
<1>2. \A c \in Conns : client'[c] \in {"gone", client[c]}
  BY DEF CloseListenSocket
<1>3. listen_socket \in Fds /\ file[listen_socket] = Listen
  BY <1>1 DEF IInv, TypeOK, PhaseInv, FileInv
<1>4. Accepted' = Accepted /\ Waiting' = 0
  BY <1>1 DEF Accepted, Waiting
<1>5. TypeOK'
  <2>1. backlog' \in Seq(Conns)
    BY <1>1, EmptySeq
  <2>2. client' \in [Conns -> {"away", "open", "gone"}]
    BY DEF CloseListenSocket, IInv, TypeOK
  <2>3. file' \in [Fds -> Conns \cup {Listen, None}]
    BY <1>1 DEF IInv, TypeOK
  <2> QED BY <1>1, <2>1, <2>2, <2>3 DEF IInv, TypeOK
<1>6. /\ file'[listen_socket] = None
      /\ \A g \in Fds : g # listen_socket => file'[g] = file[g]
  BY <1>1, <1>3 DEF IInv, TypeOK
<1>7. FileInv'
  <2>1. \A c \in Conns : sock[c] # None => sock[c] \in Fds /\ sock[c] # listen_socket
    BY <1>3, ConnsAssumption DEF IInv, TypeOK, FileInv
  <2>2. \A c \in Conns : sock'[c] # None => file'[sock'[c]] = c
    BY <1>1, <1>6, <2>1 DEF IInv, FileInv
  <2>3. \A g \in Fds : file'[g] \in Conns => sock'[file'[g]] = g
    BY <1>1, <1>6, ConnsAssumption DEF IInv, FileInv
  <2>4. \A g \in Fds : file'[g] # Listen
    BY <1>6, NamesAssumption DEF IInv, FileInv
  <2> QED BY <1>1, <2>2, <2>3, <2>4 DEF FileInv
<1>8. BacklogInv'
  BY <1>1, <1>2, <1>4 DEF IInv, BacklogInv
<1>9. ResourceInv' /\ LateInv' /\ PhaseInv'
  BY <1>1, <1>4 DEF IInv, ResourceInv, LateInv, PhaseInv
<1> QED BY <1>5, <1>7, <1>8, <1>9 DEF IInv

-----------------------------------------------------------------------------
(* Accepting a connection, and giving it up.                                *)

LEMMA AcceptKeeps == ASSUME IInv, Accept PROVE IInv'
<1> DEFINE c == backlog[1]
<1>0. Head(backlog) = c
  OBVIOUS
<1>1. PICK f \in Fds :
        /\ file[f] = None /\ file' = [file EXCEPT ![f] = c]
        /\ sock' = [sock EXCEPT ![c] = f]
        /\ thread' = [thread EXCEPT ![c] = "serving"]
        /\ resources' = Append(resources, c)
  BY <1>0 DEF Accept, Opens, Free
<1>2. /\ spc = "accept" /\ spc' = "check" /\ backlog # <<>> /\ backlog' = Tail(backlog)
      /\ late' = IF force_finish THEN late + 1 ELSE late
      /\ UNCHANGED <<listen_socket, next, client, main, starts, force_finish, cdatamap, seen>>
  BY DEF Accept, mainVars, dataVars
<1>3. resources \in Seq(Conns) /\ backlog \in Seq(Conns)
  BY DEF IInv, TypeOK
<1>4. /\ Waiting \in Nat \ {0} /\ Accepted \in Nat
      /\ \A i \in 1 .. Accepted : resources[i] \in Conns
      /\ \A i \in 1 .. Waiting : backlog[i] \in Conns
  BY <1>2, Lengths DEF IInv
<1>5. c \in Conns /\ thread[c] = "none" /\ client[c] # "away"
  BY <1>4 DEF IInv, BacklogInv
<1>6. /\ backlog' \in Seq(Conns) /\ Waiting' = Waiting - 1
      /\ \A i \in 1 .. Waiting' : backlog'[i] = backlog[i + 1]
  BY <1>2, <1>3, HeadTailProperties DEF Waiting
<1>7. /\ resources' \in Seq(Conns) /\ Accepted' = Accepted + 1
      /\ \A i \in 1 .. Accepted : resources'[i] = resources[i]
      /\ resources'[Accepted + 1] = c
  BY <1>1, <1>3, <1>5, AppendProperties DEF Accepted
<1>8. /\ sock'[c] = f /\ thread'[c] = "serving" /\ file'[f] = c
      /\ \A d \in Conns : d # c => sock'[d] = sock[d] /\ thread'[d] = thread[d]
      /\ \A g \in Fds : g # f => file'[g] = file[g]
  BY <1>1, <1>5 DEF IInv, TypeOK
<1>9. next = 1 /\ late = 0
  BY <1>2 DEF IInv, PhaseInv, LateInv
<1> HIDE DEF c
<1>10. \A i \in 1 .. Accepted : resources[i] # c
  BY <1>5 DEF IInv, ResourceInv
<1>11. sock[c] = None
  BY <1>4, <1>5, <1>9, <1>10 DEF IInv, ResourceInv
<1>12. TypeOK'
  <2>1. sock' \in [Conns -> Fds \cup {None}] /\ thread' \in [Conns -> {"none", "serving", "dead"}]
    BY <1>1, <1>5 DEF IInv, TypeOK
  <2>2. file' \in [Fds -> Conns \cup {Listen, None}]
    BY <1>1, <1>5 DEF IInv, TypeOK
  <2>3. late' \in Nat
    BY <1>2, <1>9
  <2> QED BY <1>2, <1>6, <1>7, <2>1, <2>2, <2>3 DEF IInv, TypeOK
<1>13. FileInv'
  <2>1. \A d \in Conns : sock[d] # None => sock[d] \in Fds /\ sock[d] # f
    BY <1>1, ConnsAssumption DEF IInv, TypeOK, FileInv
  <2>2. \A d \in Conns : sock'[d] # None => file'[sock'[d]] = d
    BY <1>8, <2>1 DEF IInv, FileInv
  <2>3. \A g \in Fds : file'[g] \in Conns => sock'[file'[g]] = g
    <3> SUFFICES ASSUME NEW g \in Fds, file'[g] \in Conns PROVE sock'[file'[g]] = g
      OBVIOUS
    <3>1. CASE g = f
      BY <1>8, <3>1
    <3>2. CASE g # f
      <4>1. sock[file[g]] = g /\ file'[g] = file[g]
        BY <1>8, <3>2 DEF IInv, FileInv
      <4>2. g # None
        BY FdsAssumption
      <4> QED BY <1>8, <1>11, <4>1, <4>2
    <3> QED BY <3>1, <3>2
  <2>4. listen_socket # None => listen_socket \in Fds /\ listen_socket # f
    BY <1>1, NamesAssumption DEF IInv, TypeOK, FileInv
  <2>5. \A g \in Fds : file'[g] = Listen => listen_socket' = g
    BY <1>2, <1>5, <1>8, ConnsAssumption DEF IInv, FileInv
  <2> QED BY <1>2, <1>8, <2>2, <2>3, <2>4, <2>5 DEF IInv, FileInv
<1>14. ResourceInv'
  <2>1. \A i \in 1 .. Accepted' : i \in 1 .. Accepted \/ i = Accepted + 1
    BY <1>4, <1>7
  <2>2. \A i, j \in 1 .. Accepted' : resources'[i] = resources'[j] => i = j
    BY <1>7, <1>10, <2>1 DEF IInv, ResourceInv
  <2>3. \A d \in Conns : sock'[d] # None <=> \E i \in 1 .. Accepted' : resources'[i] = d
    <3> SUFFICES ASSUME NEW d \in Conns
                 PROVE sock'[d] # None <=> \E i \in 1 .. Accepted' : resources'[i] = d
      OBVIOUS
    <3>1. CASE d = c
      <4>1. sock'[d] # None
        BY <1>8, <3>1, FdsAssumption
      <4>2. Accepted + 1 \in 1 .. Accepted' /\ resources'[Accepted + 1] = d
        BY <1>4, <1>7, <3>1
      <4> QED BY <4>1, <4>2
    <3>2. CASE d # c
      <4>1. sock[d] # None <=> \E i \in 1 .. Accepted : resources[i] = d
        BY <1>9 DEF IInv, ResourceInv
      <4>2. (\E i \in 1 .. Accepted : resources[i] = d)
              <=> \E i \in 1 .. Accepted' : resources'[i] = d
        BY <1>4, <1>7, <2>1, <3>2
      <4> QED BY <1>8, <3>2, <4>1, <4>2
    <3> QED BY <3>1, <3>2
  <2>4. \A d \in Conns : thread'[d] = "serving" => sock'[d] # None
    BY <1>8, FdsAssumption DEF IInv, ResourceInv
  <2>5. \A i \in 1 .. Accepted' : thread'[resources'[i]] # "none"
    BY <1>4, <1>7, <1>8, <1>10, <2>1 DEF IInv, ResourceInv
  <2> QED BY <1>2, <1>9, <2>2, <2>3, <2>4, <2>5 DEF ResourceInv
<1>15. BacklogInv'
  <2>1. \A i \in 1 .. Waiting' : i + 1 \in 1 .. Waiting /\ i + 1 # 1
    BY <1>4, <1>6
  <2>2. 1 \in 1 .. Waiting
    BY <1>4
  <2>3. \A i \in 1 .. Waiting' : backlog'[i] \in Conns /\ backlog'[i] # c
    BY <1>4, <1>6, <2>1, <2>2 DEF IInv, BacklogInv, c
  <2>4. \A i \in 1 .. Waiting' : thread'[backlog'[i]] = "none" /\ client'[backlog'[i]] # "away"
    <3> SUFFICES ASSUME NEW i \in 1 .. Waiting'
                 PROVE  thread'[backlog'[i]] = "none" /\ client'[backlog'[i]] # "away"
      OBVIOUS
    <3>1. backlog'[i] = backlog[i + 1] /\ i + 1 \in 1 .. Waiting
      BY <1>6, <2>1
    <3>2. thread[backlog[i + 1]] = "none" /\ client[backlog[i + 1]] # "away"
      BY <3>1 DEF IInv, BacklogInv
    <3>3. thread'[backlog'[i]] = thread[backlog'[i]]
      BY <1>8, <2>3
    <3> QED BY <1>2, <3>1, <3>2, <3>3
  <2>5. \A i, j \in 1 .. Waiting' : backlog'[i] = backlog'[j] => i = j
    BY <1>6, <2>1 DEF IInv, BacklogInv
  <2>6. \A d \in Conns : client'[d] = "away" => thread'[d] = "none"
    BY <1>2, <1>5, <1>8 DEF IInv, BacklogInv
  <2> QED BY <2>4, <2>5, <2>6 DEF BacklogInv
<1>16. PhaseInv' /\ LateInv'
  BY <1>2, <1>4, <1>7, <1>9 DEF IInv, PhaseInv, LateInv
<1> QED BY <1>12, <1>13, <1>14, <1>15, <1>16 DEF IInv

LEMMA SetUpFailsKeeps == ASSUME IInv, SetUpFails PROVE IInv'
<1> DEFINE c == backlog[1]
<1>1. /\ spc = "accept" /\ spc' = "check" /\ backlog # <<>> /\ backlog' = Tail(backlog)
      /\ client' = [client EXCEPT ![c] = "gone"]
      /\ late' = IF force_finish THEN late + 1 ELSE late
      /\ UNCHANGED <<listen_socket, resources, next, thread, sock, main, starts, force_finish,
                     file, cdatamap, seen>>
  BY DEF SetUpFails, mainVars, dataVars
<1>2. /\ Waiting \in Nat /\ Waiting # 0
      /\ \A i \in 1 .. Waiting : backlog[i] \in Conns
      /\ backlog \in Seq(Conns)
  BY <1>1, Lengths DEF IInv, TypeOK
<1>3. 1 \in 1 .. Waiting /\ c \in Conns
  BY <1>2
<1> HIDE DEF c
<1>4. /\ backlog' \in Seq(Conns) /\ Waiting' = Waiting - 1
      /\ \A i \in 1 .. Waiting' : i + 1 \in 1 .. Waiting /\ backlog'[i] = backlog[i + 1]
  BY <1>1, <1>2, HeadTailProperties DEF Waiting
<1>5. Accepted' = Accepted
  BY <1>1 DEF Accepted
<1>6. client'[c] = "gone" /\ \A d \in Conns : d # c => client'[d] = client[d]
  BY <1>1, <1>3 DEF IInv, TypeOK
<1>7. TypeOK'
  <2>1. client' \in [Conns -> {"away", "open", "gone"}]
    BY <1>1 DEF IInv, TypeOK
  <2>2. late' \in Nat
    BY <1>1 DEF IInv, TypeOK
  <2> QED BY <1>1, <1>4, <2>1, <2>2 DEF IInv, TypeOK
<1>8. BacklogInv'
  <2>1. \A i \in 1 .. Waiting' : thread[backlog[i + 1]] = "none" /\ client'[backlog[i + 1]] # "away"
    BY <1>2, <1>4, <1>6 DEF IInv, BacklogInv
  <2>2. \A i, j \in 1 .. Waiting' : backlog'[i] = backlog'[j] => i = j
    <3> SUFFICES ASSUME NEW i \in 1 .. Waiting', NEW j \in 1 .. Waiting',
                        backlog'[i] = backlog'[j]
                 PROVE  i = j
      OBVIOUS
    <3>1. backlog[i + 1] = backlog[j + 1] /\ i + 1 \in 1 .. Waiting /\ j + 1 \in 1 .. Waiting
      BY <1>4
    <3>2. i + 1 = j + 1
      BY <3>1 DEF IInv, BacklogInv
    <3> QED BY <3>2, <1>2, <1>4
  <2>3. \A d \in Conns : client'[d] = "away" => thread[d] = "none"
    BY <1>6 DEF IInv, BacklogInv
  <2> QED BY <1>1, <1>4, <2>1, <2>2, <2>3 DEF BacklogInv
<1>9. FileInv' /\ ResourceInv'
  BY <1>1, <1>5 DEF IInv, FileInv, ResourceInv
<1>10. PhaseInv' /\ LateInv'
  BY <1>1, <1>5 DEF IInv, PhaseInv, LateInv
<1> QED BY <1>7, <1>8, <1>9, <1>10 DEF IInv

LEMMA JoinNextKeeps == ASSUME IInv, JoinNext PROVE IInv'
<1> DEFINE c == resources[next]
<1>1. /\ spc = "join" /\ next <= Accepted /\ next' = next + 1
      /\ thread[c] = "dead"
      /\ file' = [file EXCEPT ![sock[c]] = None]
      /\ sock' = [sock EXCEPT ![c] = None]
      /\ client' = [client EXCEPT ![c] = "gone"]
      /\ UNCHANGED <<spc, listen_socket, resources, main, starts, force_finish, backlog, thread,
                     cdatamap, seen, late>>
  BY DEF JoinNext, Accepted, mainVars, dataVars
<1>2. /\ Accepted \in Nat /\ next \in Nat \ {0} /\ Waiting \in Nat
      /\ \A i \in 1 .. Accepted : resources[i] \in Conns
      /\ \A i \in 1 .. Waiting : backlog[i] \in Conns
  BY Lengths DEF IInv, TypeOK
<1>3. next \in 1 .. Accepted /\ next \in next .. Accepted /\ c \in Conns
  BY <1>1, <1>2
<1>4. sock[c] # None /\ sock[c] \in Fds /\ file[sock[c]] = c
  BY <1>3 DEF IInv, TypeOK, ResourceInv, FileInv
<1>5. /\ sock'[c] = None /\ file'[sock[c]] = None /\ client'[c] = "gone"
      /\ \A d \in Conns : d # c => sock'[d] = sock[d] /\ client'[d] = client[d]
      /\ \A g \in Fds : g # sock[c] => file'[g] = file[g]
  BY <1>1, <1>3, <1>4 DEF IInv, TypeOK
<1>6. Accepted' = Accepted /\ Waiting' = Waiting
  BY <1>1 DEF Accepted, Waiting
<1>7. TypeOK'
  <2>1. /\ sock' \in [Conns -> Fds \cup {None}]
        /\ client' \in [Conns -> {"away", "open", "gone"}]
        /\ file' \in [Fds -> Conns \cup {Listen, None}]
    BY <1>1 DEF IInv, TypeOK
  <2>2. next' \in Nat \ {0}
    BY <1>1, <1>2
  <2> QED BY <1>1, <2>1, <2>2 DEF IInv, TypeOK
<1>8. \A i \in 1 .. Accepted : resources[i] = c <=> i = next
  BY <1>3 DEF IInv, ResourceInv
<1> HIDE DEF c
<1>9. FileInv'
  <2>1. \A d \in Conns : d # c /\ sock[d] # None => sock[d] \in Fds /\ sock[d] # sock[c]
    BY <1>4 DEF IInv, TypeOK, FileInv
  <2>2. \A d \in Conns : sock'[d] # None => file'[sock'[d]] = d
    BY <1>5, <2>1 DEF IInv, FileInv
  <2>3. \A g \in Fds : file'[g] \in Conns => sock'[file'[g]] = g
    <3> SUFFICES ASSUME NEW g \in Fds, file'[g] \in Conns PROVE sock'[file'[g]] = g
      OBVIOUS
    <3>1. g # sock[c] /\ file'[g] = file[g]
      BY <1>5, ConnsAssumption
    <3>2. sock[file[g]] = g
      BY <3>1 DEF IInv, FileInv
    <3> QED BY <1>5, <3>1, <3>2
  <2>4. listen_socket # None => listen_socket \in Fds /\ listen_socket # sock[c]
    BY <1>3, <1>4, ConnsAssumption DEF IInv, TypeOK, FileInv
  <2>5. \A g \in Fds : file'[g] = Listen => listen_socket' = g
    BY <1>1, <1>5, NamesAssumption DEF IInv, FileInv
  <2> QED BY <1>1, <1>5, <2>2, <2>3, <2>4, <2>5 DEF IInv, FileInv
<1>10. ResourceInv'
  <2>1. \A i \in next .. Accepted : i \in 1 .. Accepted
    BY <1>2
  <2>2. \A i \in next + 1 .. Accepted : i \in next .. Accepted /\ i # next
    BY <1>2
  <2>3. \A i \in next .. Accepted : i # next => i \in next + 1 .. Accepted
    BY <1>2
  <2>4. \A d \in Conns : sock'[d] # None <=> \E i \in next + 1 .. Accepted : resources[i] = d
    <3> SUFFICES ASSUME NEW d \in Conns
                 PROVE sock'[d] # None <=> \E i \in next + 1 .. Accepted : resources[i] = d
      OBVIOUS
    <3>1. CASE d = c
      BY <1>5, <1>8, <2>1, <2>2, <3>1
    <3>2. CASE d # c
      <4>1. sock[d] # None <=> \E i \in next .. Accepted : resources[i] = d
        BY DEF IInv, ResourceInv
      <4> QED BY <1>5, <1>8, <2>1, <2>2, <2>3, <3>2, <4>1
    <3> QED BY <3>1, <3>2
  <2>5. thread[c] = "dead"
    BY <1>1 DEF c
  <2>6. \A d \in Conns : thread'[d] = "serving" => sock'[d] # None
    BY <1>1, <1>5, <2>5 DEF IInv, ResourceInv
  <2> QED BY <1>1, <1>6, <2>4, <2>6 DEF IInv, ResourceInv
<1>11. BacklogInv'
  <2>1. \A d \in Conns : client'[d] = "away" => client[d] = "away"
    BY <1>5
  <2>2. \A i \in 1 .. Waiting : client'[backlog[i]] # "away"
    BY <1>2, <1>5 DEF IInv, BacklogInv
  <2> QED BY <1>1, <1>6, <2>1, <2>2 DEF IInv, BacklogInv
<1>12. PhaseInv' /\ LateInv'
  BY <1>1, <1>6 DEF IInv, PhaseInv, LateInv
<1> QED BY <1>7, <1>9, <1>10, <1>11, <1>12 DEF IInv

-----------------------------------------------------------------------------
(* The theorems.                                                            *)

LEMMA StepKeeps == IInv /\ [Next]_vars => IInv'
<1> SUFFICES ASSUME IInv, [Next]_vars PROVE IInv'
  OBVIOUS
<1>1. CASE Start \/ Stop \/ Wait
  BY <1>1, StartKeeps, StopKeeps, WaitKeeps
<1>2. CASE MakeListenSocket \/ CloseListenSocket
  BY <1>2, MakeListenSocketKeeps, CloseListenSocketKeeps
<1>3. CASE Check \/ AcceptFails \/ ListenFails
  BY <1>3, CheckKeeps
<1>4. CASE Accept \/ SetUpFails \/ JoinNext
  BY <1>4, AcceptKeeps, SetUpFailsKeeps, JoinNextKeeps
<1>5. CASE \E c \in Conns : Connect(c) \/ Disconnect(c) \/ Eval(c) \/ ThreadEnds(c)
  BY <1>5, ConnectKeeps, DisconnectKeeps, EvalKeeps, ThreadEndsKeeps
<1>6. CASE UNCHANGED vars
  <2>1. /\ TypeOK' /\ PhaseInv' /\ LateInv'
        /\ UNCHANGED <<listen_socket, resources, next, connVars, file>>
    BY <1>6 DEF IInv, TypeOK, PhaseInv, LateInv, Accepted, vars, mainVars, loopVars, connVars,
                dataVars
  <2> QED BY <2>1, QuietKeeps
<1> QED BY <1>1, <1>2, <1>3, <1>4, <1>5, <1>6 DEF Next, ServerStep

\* The invariant of the server (Server::Impl::exec, ResourceContainer): descriptors,
\* containers and the place of the server thread in its loop determine each other.
THEOREM ServerInvariant == Spec => []IInv
<1>1. Init => IInv
  BY InitInv
<1>2. IInv /\ [Next]_vars => IInv'
  BY StepKeeps
<1> QED BY <1>1, <1>2, PTL DEF Spec

\* Every variable of the server keeps its type.
THEOREM ServerTypes == Spec => []TypeOK
<1>1. IInv => TypeOK
  BY DEF IInv
<1> QED BY <1>1, ServerInvariant, PTL

\* A socket that the server holds is open and is the connection it was accepted for
\* (descriptors are copied without dup and closed only by ResourceContainer::release).
THEOREM DescriptorsValid == Spec => []SocketsValid
<1>1. IInv => SocketsValid
  BY DEF IInv, FileInv, ResourceInv, SocketsValid
<1> QED BY <1>1, ServerInvariant, PTL

\* When Server::wait has returned no descriptor is open and no thread of a connection
\* uses a container, which is destroyed then.
THEOREM ServerLeavesNothing == Spec => []NothingLeft
<1>1. IInv => NothingLeft
  <2> SUFFICES ASSUME IInv, main = "idle"
               PROVE  (\A f \in Fds : file[f] = None) /\ \A c \in Conns : thread[c] # "serving"
    BY DEF NothingLeft
  <2>1. spc \in {"none", "ended"} /\ next > Accepted /\ listen_socket = None
    BY DEF IInv, PhaseInv
  <2>2. next \in Nat /\ Accepted \in Nat
    BY Lengths DEF IInv, TypeOK
  <2>3. \A c \in Conns : sock[c] = None
    <3>1. next .. Accepted = {}
      BY <2>1, <2>2
    <3> QED BY <3>1 DEF IInv, ResourceInv
  <2>4. \A f \in Fds : file[f] \in Conns \cup {Listen, None} /\ f # None
    BY FdsAssumption DEF IInv, TypeOK
  <2>5. \A f \in Fds : file[f] = None
    BY <2>1, <2>3, <2>4 DEF IInv, FileInv
  <2> QED BY <2>3, <2>5 DEF IInv, ResourceInv
<1> QED BY <1>1, ServerInvariant, PTL

\* The server accepts at most one connection after it was told to stop: force_finish
\* is looked at once in each round of the loop.
THEOREM LateOnce == Spec => []OneLateConnection
<1>1. IInv => OneLateConnection
  BY DEF IInv, LateInv, OneLateConnection
<1> QED BY <1>1, ServerInvariant, PTL

-----------------------------------------------------------------------------
(* The common data until the server is started again.                       *)

\* Until then an entry of the map belongs to the connection that has its key; while the
\* server accepts, no descriptor with an entry is free to be handed out.
DataInv ==
    /\ spc # "none" => starts >= 1
    /\ starts <= 1 =>
        /\ OwnCommonData
        /\ \A c \in Conns : sock[c] # None => cdatamap[sock[c]] \in {None, c}
        /\ spc \in {"none", "listen", "check", "accept"} =>
              \A f \in Fds : cdatamap[f] # None => file[f] \in Conns

LEMMA StartKeepsData == ASSUME IInv, DataInv, Start PROVE DataInv'
<1>1. starts \in Nat
  BY MaxStartsAssumption DEF IInv, TypeOK
<1>2. starts' = starts + 1 /\ spc' = "listen" /\ spc \in {"none", "ended"}
      /\ UNCHANGED <<sock, file, cdatamap, seen>>
  BY DEF Start, connVars, dataVars
<1>3. CASE spc = "none"
  BY <1>1, <1>2, <1>3 DEF DataInv, OwnCommonData
<1>4. CASE spc = "ended"
  BY <1>1, <1>2, <1>4 DEF DataInv
<1> QED BY <1>2, <1>3, <1>4

LEMMA ListenKeepsData == ASSUME IInv, DataInv, MakeListenSocket PROVE DataInv'
<1>1. PICK f \in Fds : file[f] = None /\ file' = [file EXCEPT ![f] = Listen]
  BY DEF MakeListenSocket, Opens, Free
<1>2. spc = "listen" /\ spc' = "check" /\ UNCHANGED <<starts, sock, cdatamap, seen>>
  BY DEF MakeListenSocket, mainVars, connVars, dataVars
<1>3. \A g \in Fds : file[g] \in Conns => file'[g] = file[g]
  BY <1>1, ConnsAssumption DEF IInv, TypeOK
<1> QED BY <1>2, <1>3 DEF DataInv, OwnCommonData

LEMMA AcceptKeepsData == ASSUME IInv, DataInv, Accept PROVE DataInv'
<1> DEFINE c == Head(backlog)
<1>1. PICK f \in Fds : file[f] = None /\ file' = [file EXCEPT ![f] = c]
                       /\ sock' = [sock EXCEPT ![c] = f]
  BY DEF Accept, Opens, Free
<1>2. spc = "accept" /\ spc' = "check" /\ backlog # <<>> /\ UNCHANGED <<starts, cdatamap, seen>>
  BY DEF Accept, mainVars, dataVars
<1>3. c \in Conns
  BY <1>2, HeadTailProperties DEF IInv, TypeOK
<1> HIDE DEF c
<1>4. \A d \in Conns : sock'[d] = IF d = c THEN f ELSE sock[d]
  BY <1>1, <1>3 DEF IInv, TypeOK
<1>5. \A g \in Fds : file[g] \in Conns => file'[g] \in Conns
  BY <1>1, <1>3 DEF IInv, TypeOK
<1>6. spc' # "none" => starts' >= 1
  BY <1>2 DEF DataInv
<1>7. ASSUME starts <= 1
      PROVE  /\ OwnCommonData'
             /\ \A d \in Conns : sock'[d] # None => cdatamap'[sock'[d]] \in {None, d}
             /\ \A g \in Fds : cdatamap'[g] # None => file'[g] \in Conns
  <2>1. cdatamap[f] = None
    BY <1>1, <1>2, <1>7, ConnsAssumption DEF DataInv
  <2>2. \A d \in Conns : sock'[d] # None => cdatamap'[sock'[d]] \in {None, d}
    BY <1>2, <1>4, <1>7, <2>1 DEF DataInv
  <2>3. \A g \in Fds : cdatamap'[g] # None => file'[g] \in Conns
    BY <1>2, <1>5, <1>7 DEF DataInv
  <2>4. OwnCommonData'
    BY <1>2, <1>7 DEF DataInv, OwnCommonData
  <2> QED BY <2>2, <2>3, <2>4
<1> QED BY <1>2, <1>6, <1>7 DEF DataInv

LEMMA EvalKeepsData == ASSUME IInv, DataInv, NEW c \in Conns, Eval(c) PROVE DataInv'
<1>1. sock[c] \in Fds /\ file[sock[c]] = c
  BY DEF IInv, TypeOK, ResourceInv, FileInv, Eval
<1>2. /\ UNCHANGED <<spc, starts, sock, file>>
      /\ seen' = [seen EXCEPT ![c] = IF cdatamap[sock[c]] = None THEN Initial
                                                                 ELSE cdatamap[sock[c]]]
      /\ cdatamap' = [cdatamap EXCEPT ![sock[c]] = c]
  BY DEF Eval, mainVars, loopVars, connVars
<1>3. \A f \in Fds : cdatamap'[f] = IF f = sock[c] THEN c ELSE cdatamap[f]
  BY <1>1, <1>2 DEF IInv, TypeOK
<1>4. \A d \in Conns : d # c => seen'[d] = seen[d]
  BY <1>2 DEF IInv, TypeOK
<1>5. seen'[c] = IF cdatamap[sock[c]] = None THEN Initial ELSE cdatamap[sock[c]]
  BY <1>2 DEF IInv, TypeOK
<1>6. spc' # "none" => starts' >= 1
  BY <1>2 DEF DataInv
<1>7. ASSUME starts <= 1
      PROVE  /\ OwnCommonData'
             /\ \A d \in Conns : sock'[d] # None => cdatamap'[sock'[d]] \in {None, d}
             /\ spc' \in {"none", "listen", "check", "accept"} =>
                   \A f \in Fds : cdatamap'[f] # None => file'[f] \in Conns
  <2>1. seen'[c] \in {None, Initial, c}
    BY <1>1, <1>5, <1>7, FdsAssumption DEF DataInv
  <2>2. OwnCommonData'
    BY <1>4, <1>7, <2>1 DEF DataInv, OwnCommonData
  <2>3. \A d \in Conns : sock[d] # None => sock[d] \in Fds /\ (sock[d] = sock[c] => d = c)
    BY <1>1 DEF IInv, TypeOK, FileInv
  <2>4. \A d \in Conns : sock'[d] # None => cdatamap'[sock'[d]] \in {None, d}
    BY <1>2, <1>3, <1>7, <2>3 DEF DataInv
  <2>5. spc' \in {"none", "listen", "check", "accept"} =>
           \A f \in Fds : cdatamap'[f] # None => file'[f] \in Conns
    BY <1>1, <1>2, <1>3, <1>7 DEF DataInv
  <2> QED BY <2>2, <2>4, <2>5
<1> QED BY <1>2, <1>6, <1>7 DEF DataInv

LEMMA JoinNextKeepsData == ASSUME IInv, DataInv, JoinNext PROVE DataInv'
<1>1. PICK c : sock' = [sock EXCEPT ![c] = None]
  BY DEF JoinNext
<1>2. spc = "join" /\ spc' = "join" /\ UNCHANGED <<starts, cdatamap, seen>>
  BY DEF JoinNext, mainVars, dataVars
<1>3. \A d \in Conns : sock'[d] # None => sock'[d] = sock[d]
  BY <1>1 DEF IInv, TypeOK
<1> QED BY <1>2, <1>3 DEF DataInv, OwnCommonData

\* The steps that change neither the sockets nor the data, and hand out no descriptor.
LEMMA OtherKeepsData ==
    ASSUME IInv, DataInv, UNCHANGED <<starts, sock, cdatamap, seen>>,
           \/ spc' = spc /\ file' = file /\ spc # "join"
           \/ spc = "listen" /\ spc' = "terminated"
           \/ spc \in {"check", "accept"} /\ spc' \in {"check", "accept", "join"} /\ file' = file
           \/ spc = "join" /\ spc' \in {"join", "ended"}
    PROVE  DataInv'
BY DEF DataInv, OwnCommonData

LEMMA StepKeepsData == IInv /\ DataInv /\ [Next]_vars => DataInv'
<1> SUFFICES ASSUME IInv, DataInv, [Next]_vars PROVE DataInv'
  OBVIOUS
<1> USE DEF vars, mainVars, loopVars, connVars, dataVars
<1>1. CASE Start
  BY <1>1, StartKeepsData
<1>2. CASE MakeListenSocket
  BY <1>2, ListenKeepsData
<1>3. CASE Accept
  BY <1>3, AcceptKeepsData
<1>4. CASE JoinNext
  BY <1>4, JoinNextKeepsData
<1>5. CASE \E c \in Conns : Eval(c)
  BY <1>5, EvalKeepsData
<1>6. CASE Stop \/ Wait
  BY <1>6, OtherKeepsData DEF Stop, Wait
<1>7. CASE Check \/ AcceptFails \/ SetUpFails \/ ListenFails
  BY <1>7, OtherKeepsData DEF Check, AcceptFails, SetUpFails, ListenFails
<1>8. CASE CloseListenSocket
  BY <1>8, OtherKeepsData DEF CloseListenSocket
<1>9. CASE \E c \in Conns : Connect(c) \/ Disconnect(c) \/ ThreadEnds(c)
  BY <1>9, OtherKeepsData DEF Connect, Disconnect, ThreadEnds
<1>10. CASE UNCHANGED vars
  BY <1>10, OtherKeepsData
<1> QED
  BY <1>1, <1>2, <1>3, <1>4, <1>5, <1>6, <1>7, <1>8, <1>9, <1>10 DEF Next, ServerStep

\* Until the server is started a second time a callback finds the common data of its own
\* connection, although cdatamap_ is keyed by descriptor (CallbackFunctionContainer::Impl::eval).
THEOREM DataUntilRestart == Spec => []OwnDataUntilRestart
<1>1. Init => DataInv
  BY MaxStartsAssumption, FdsAssumption DEF Init, DataInv, OwnCommonData
<1>2. IInv /\ DataInv /\ [Next]_vars => DataInv'
  BY StepKeepsData
<1>3. DataInv => OwnDataUntilRestart
  BY DEF DataInv, OwnDataUntilRestart
<1> QED BY <1>1, <1>2, <1>3, ServerInvariant, PTL DEF Spec

-----------------------------------------------------------------------------
(* A stopped server comes to an end.                                        *)

\* The flag is set before the main thread waits, and no container is joined that is not
\* there.
StopInv ==
    /\ main = "stopped" => force_finish
    /\ next <= Accepted + 1

\* How many steps the server thread has left at most once the flag is set: it accepts once
\* more, joins every container and closes its socket.
StepsLeft ==
    LET joins == Accepted + 1 - next
    IN  CASE spc = "listen" -> joins + 3
          [] spc = "accept" -> joins + 4
          [] spc = "check"  -> joins + 2
          [] spc = "join"   -> joins + 1
          [] OTHER -> 0

\* Every step of the thread takes something off, and nobody else adds to it until the
\* server is started again.
StopAdvances ==
    main = "stopped" =>
        /\ StepsLeft \in Nat
        /\ ServerStep => StepsLeft' < StepsLeft
        /\ StepsLeft' <= StepsLeft

LEMMA StopInvKeeps == IInv /\ StopInv /\ [Next]_vars => StopInv'
<1> SUFFICES ASSUME IInv, StopInv, [Next]_vars PROVE StopInv'
  OBVIOUS
<1> USE DEF vars, mainVars, loopVars, connVars, dataVars
<1>1. Accepted \in Nat /\ next \in Nat /\ resources \in Seq(Conns)
  BY Lengths DEF IInv, TypeOK
<1>2. CASE Start
  BY <1>2 DEF Start, StopInv, Accepted
<1>3. CASE Stop \/ Wait
  BY <1>3 DEF Stop, Wait, StopInv, Accepted
<1>4. CASE Accept
  <2>1. PICK c : resources' = Append(resources, c)
    BY <1>4 DEF Accept
  <2>2. Accepted' = Accepted + 1
    BY <1>1, <2>1 DEF Accepted
  <2> QED BY <1>1, <1>4, <2>2 DEF Accept, StopInv
<1>5. CASE JoinNext
  BY <1>1, <1>5 DEF JoinNext, StopInv, Accepted
<1>6. CASE MakeListenSocket \/ ListenFails \/ Check \/ AcceptFails \/ SetUpFails \/ CloseListenSocket
  BY <1>6 DEF MakeListenSocket, ListenFails, Check, AcceptFails, SetUpFails, CloseListenSocket,
              StopInv, Accepted
<1>7. CASE \E c \in Conns : Connect(c) \/ Disconnect(c) \/ Eval(c) \/ ThreadEnds(c)
  BY <1>7 DEF Connect, Disconnect, Eval, ThreadEnds, StopInv, Accepted
<1>8. CASE UNCHANGED vars
  BY <1>8 DEF StopInv, Accepted
<1> QED BY <1>2, <1>3, <1>4, <1>5, <1>6, <1>7, <1>8 DEF Next, ServerStep

\* Once it was stopped the server thread makes a bounded number of steps, at most four more
\* than there are connections to join: what keeps it from its end are only accept, which waits
\* for somebody to connect, and the threads that it joins.
THEOREM StopEnds == Spec => [][StopAdvances]_vars
<1>1. ASSUME IInv, StopInv, (StepsLeft \in Nat)', Next, main = "stopped"
      PROVE  StepsLeft \in Nat /\ (ServerStep => StepsLeft' < StepsLeft) /\ StepsLeft' <= StepsLeft
  <2> USE DEF mainVars, loopVars, connVars, dataVars
  <2>1. Accepted \in Nat /\ next \in Nat /\ next <= Accepted + 1 /\ force_finish
    BY <1>1, Lengths DEF IInv, TypeOK, StopInv
  <2>2. StepsLeft \in Nat
    BY <2>1 DEF StepsLeft
  <2>3. ASSUME ServerStep PROVE StepsLeft' < StepsLeft
    <3>1. CASE MakeListenSocket
      <4>1. spc = "listen" /\ spc' = "check" /\ Accepted' = Accepted /\ next' = next
        BY <3>1 DEF MakeListenSocket, Accepted
      <4> QED BY <2>1, <4>1 DEF StepsLeft
    <3>2. CASE ListenFails
      <4>1. spc = "listen" /\ spc' = "terminated"
        BY <3>2 DEF ListenFails
      <4> QED BY <2>1, <4>1 DEF StepsLeft
    <3>3. CASE Check
      <4>1. spc = "check" /\ spc' = "join" /\ Accepted' = Accepted /\ next' = next
        BY <2>1, <3>3 DEF Check, Accepted
      <4> QED BY <2>1, <4>1 DEF StepsLeft
    <3>4. CASE Accept
      <4>1. spc = "accept" /\ spc' = "check" /\ next' = next
        BY <3>4 DEF Accept
      <4>2. PICK c : resources' = Append(resources, c)
        BY <3>4 DEF Accept
      <4>3. Accepted' = Accepted + 1
        BY <1>1, <4>2 DEF Accepted, IInv, TypeOK
      <4> QED BY <2>1, <4>1, <4>3 DEF StepsLeft
    <3>5. CASE AcceptFails \/ SetUpFails
      <4>1. spc = "accept" /\ spc' = "check" /\ Accepted' = Accepted /\ next' = next
        BY <3>5 DEF AcceptFails, SetUpFails, Accepted
      <4> QED BY <2>1, <4>1 DEF StepsLeft
    <3>6. CASE JoinNext
      <4>1. spc = "join" /\ spc' = "join" /\ Accepted' = Accepted /\ next' = next + 1
        BY <3>6 DEF JoinNext, Accepted
      <4> QED BY <2>1, <4>1 DEF StepsLeft
    <3>7. CASE CloseListenSocket
      <4>1. spc = "join" /\ spc' = "ended"
        BY <3>7 DEF CloseListenSocket
      <4> QED BY <2>1, <4>1 DEF StepsLeft
    <3> QED BY <2>3, <3>1, <3>2, <3>3, <3>4, <3>5, <3>6, <3>7 DEF ServerStep
  <2>4. ASSUME ~ServerStep PROVE StepsLeft' = StepsLeft
    <3>1. UNCHANGED <<spc, resources, next>>
      BY <1>1, <2>4 DEF Next, Start, Stop, Wait, Connect, Disconnect, Eval, ThreadEnds
    <3> QED BY <3>1 DEF StepsLeft, Accepted
  <2> QED BY <1>1, <2>2, <2>3, <2>4
<1>2. Init => StopInv
  BY DEF Init, StopInv, Accepted
<1>3. IInv /\ StopInv /\ (StepsLeft \in Nat)' /\ [Next]_vars => [StopAdvances]_vars
  BY <1>1 DEF StopAdvances
<1>4. IInv /\ StopInv /\ [Next]_vars => StopInv'
  BY StopInvKeeps
<1>5. IInv /\ StopInv => StepsLeft \in Nat
  BY Lengths DEF IInv, TypeOK, StopInv, StepsLeft
<1> QED BY <1>2, <1>3, <1>4, <1>5, ServerInvariant, PTL DEF Spec

=============================================================================
