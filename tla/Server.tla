------------------------------- MODULE Server -------------------------------
(***************************************************************************)
(* The life of a Server (stdsc_server.cpp): the thread that accepts         *)
(* connections, one ServerThread for each of them, and the main thread that *)
(* starts, stops and waits, possibly several times.                         *)
(*                                                                          *)
(* A connection is served by a thread that owns nothing: the descriptor is  *)
(* a number, copied from Socket to Socket without dup, and closed only by   *)
(* ResourceContainer::release, after the server was stopped and the thread  *)
(* joined. What happens on one connection is the subject of Session; here   *)
(* it is the evaluation of a packet, which may look at and change the       *)
(* common data of the connection.                                           *)
(***************************************************************************)
EXTENDS Naturals, Sequences

CONSTANTS
    Conns,       \* connections that clients may make
    Fds,         \* descriptors the process may have open, numbers
    None,        \* no descriptor, no file, no data
    Listen,      \* the file of a listening socket
    Initial,     \* the common data given to set_commondata
    MaxStarts,   \* bound on the calls of Server::start
    PortTaken    \* whether bind may fail

ASSUME ConnsAssumption == None \notin Conns /\ Listen \notin Conns /\ Initial \notin Conns
ASSUME NamesAssumption == None # Listen /\ None # Initial
ASSUME FdsAssumption == Fds \subseteq Nat /\ None \notin Fds
ASSUME MaxStartsAssumption == MaxStarts \in Nat
ASSUME PortTakenAssumption == PortTaken \in BOOLEAN

VARIABLES
    main,          \* the main thread: "idle", "running" after start, "waiting" inside it,
                   \* "stopped" after stop
    starts,        \* how often the server was started
    force_finish,  \* ServerParam::force_finish
    spc,           \* what the server thread does next
    listen_socket, \* its listening socket
    resources,     \* the connections it has accepted, in order
    next,          \* the resource it joins next
    backlog,       \* connections made and not yet accepted
    client,        \* the other end of each connection
    thread,        \* the ServerThread of each connection
    sock,          \* the descriptor in each ResourceContainer
    file,          \* what each descriptor of the process stands for
    cdatamap,      \* CallbackFunctionContainer::Impl::cdatamap_
    seen,          \* history: the common data the latest evaluation began with
    late           \* history: connections accepted since the server was told to stop

mainVars == <<main, starts, force_finish>>
loopVars == <<spc, listen_socket, resources, next>>
connVars == <<backlog, client, thread, sock>>
dataVars == <<cdatamap, seen>>
vars == <<mainVars, loopVars, connVars, file, dataVars, late>>

TypeOK ==
    /\ main \in {"idle", "running", "waiting", "stopped"}
    /\ starts \in 0 .. MaxStarts
    /\ force_finish \in BOOLEAN
    /\ spc \in {"none", "listen", "check", "accept", "join", "ended", "terminated"}
    /\ listen_socket \in Fds \cup {None}
    /\ resources \in Seq(Conns)
    /\ next \in Nat \ {0}
    /\ backlog \in Seq(Conns)
    /\ client \in [Conns -> {"away", "open", "gone"}]
    /\ thread \in [Conns -> {"none", "serving", "dead"}]
    /\ sock \in [Conns -> Fds \cup {None}]
    /\ file \in [Fds -> Conns \cup {Listen, None}]
    /\ cdatamap \in [Fds -> Conns \cup {Initial, None}]
    /\ seen \in [Conns -> Conns \cup {Initial, None}]
    /\ late \in Nat

Init ==
    /\ main = "idle" /\ starts = 0 /\ force_finish = FALSE
    /\ spc = "none" /\ listen_socket = None /\ resources = <<>> /\ next = 1
    /\ backlog = <<>>
    /\ client = [c \in Conns |-> "away"]
    /\ thread = [c \in Conns |-> "none"]
    /\ sock = [c \in Conns |-> None]
    /\ file = [f \in Fds |-> None]
    /\ cdatamap = [f \in Fds |-> None]
    /\ seen = [c \in Conns |-> None]
    /\ late = 0

-----------------------------------------------------------------------------
(***************************************************************************)
(* Descriptors.                                                             *)
(***************************************************************************)

Free == {f \in Fds : file[f] = None}

\* The kernel opens the lowest free descriptor, f.
Opens(f, what) ==
    /\ f \in Free
    /\ \A g \in Free : f <= g
    /\ file' = [file EXCEPT ![f] = what]

-----------------------------------------------------------------------------
(***************************************************************************)
(* The main thread.                                                         *)
(***************************************************************************)

\* start returns at once if it is asked to (async), and otherwise waits.
Start ==
    /\ main = "idle" /\ starts < MaxStarts
    /\ spc \in {"none", "ended"}
    /\ main' \in {"running", "waiting"} /\ starts' = starts + 1 /\ force_finish' = FALSE
    /\ spc' = "listen"
    /\ resources' = <<>> /\ next' = 1
    /\ late' = 0
    /\ UNCHANGED <<listen_socket, connVars, file, dataVars>>

Stop ==
    /\ main = "running"
    /\ main' = "stopped" /\ force_finish' = TRUE
    /\ UNCHANGED <<starts, loopVars, connVars, file, dataVars, late>>

\* Server::wait returns: the thread is joined, no exception was set.
Wait ==
    /\ main # "idle" /\ spc = "ended"
    /\ main' = "idle"
    /\ UNCHANGED <<starts, force_finish, loopVars, connVars, file, dataVars, late>>

-----------------------------------------------------------------------------
(***************************************************************************)
(* The server thread: Server::Impl::exec.                                   *)
(***************************************************************************)

MakeListenSocket ==
    /\ spc = "listen"
    /\ \E f \in Fds : Opens(f, Listen) /\ listen_socket' = f
    /\ spc' = "check"
    /\ UNCHANGED <<resources, next, mainVars, connVars, dataVars, late>>

\* An exception of make_listen_socket leaves the thread: std::terminate.
ListenFails ==
    /\ spc = "listen" /\ (Free = {} \/ PortTaken)
    /\ spc' = "terminated"
    /\ UNCHANGED <<listen_socket, resources, next, mainVars, connVars, file, dataVars, late>>

\* Mutant of Check: the flag is not looked at.
CheckNothing ==
    /\ spc = "check"
    /\ spc' = "accept"
    /\ UNCHANGED <<listen_socket, resources, next, mainVars, connVars, file, dataVars, late>>

\* while (!args.force_finish)
Check ==
    /\ spc = "check"
    /\ spc' = IF force_finish THEN "join" ELSE "accept"
    /\ UNCHANGED <<listen_socket, resources, next, mainVars, connVars, file, dataVars, late>>

\* Mutant of Accept: the destructor of the local Socket closes the descriptor.
AcceptClosing ==
    /\ spc = "accept" /\ backlog # <<>>
    /\ \E f \in Fds :
        LET c == Head(backlog)
        IN  /\ f \in Free /\ UNCHANGED file
            /\ sock' = [sock EXCEPT ![c] = f]
            /\ thread' = [thread EXCEPT ![c] = "serving"]
            /\ resources' = Append(resources, c)
    /\ backlog' = Tail(backlog)
    /\ spc' = "check"
    /\ late' = IF force_finish THEN late + 1 ELSE late
    /\ UNCHANGED <<listen_socket, next, client, mainVars, dataVars>>

\* Mutant of Accept: the loop accepts as long as somebody is waiting.
AcceptEagerly ==
    /\ spc = "accept" /\ backlog # <<>>
    /\ \E f \in Fds :
        LET c == Head(backlog)
        IN  /\ Opens(f, c)
            /\ sock' = [sock EXCEPT ![c] = f]
            /\ thread' = [thread EXCEPT ![c] = "serving"]
            /\ resources' = Append(resources, c)
    /\ backlog' = Tail(backlog)
    /\ spc' = IF Tail(backlog) # <<>> THEN "accept" ELSE "check"
    /\ late' = IF force_finish THEN late + 1 ELSE late
    /\ UNCHANGED <<listen_socket, next, client, mainVars, dataVars>>

\* Mutant of Accept: the container is not remembered.
AcceptForgetting ==
    /\ spc = "accept" /\ backlog # <<>>
    /\ \E f \in Fds :
        LET c == Head(backlog)
        IN  /\ Opens(f, c)
            /\ sock' = [sock EXCEPT ![c] = f]
            /\ thread' = [thread EXCEPT ![c] = "serving"]
            /\ resources' = resources
    /\ backlog' = Tail(backlog)
    /\ spc' = "check"
    /\ late' = IF force_finish THEN late + 1 ELSE late
    /\ UNCHANGED <<listen_socket, next, client, mainVars, dataVars>>

\* accept_connection, the ResourceContainer with a copy of the socket, its thread.
Accept ==
    /\ spc = "accept" /\ backlog # <<>>
    /\ \E f \in Fds :
        LET c == Head(backlog)
        IN  /\ Opens(f, c)
            /\ sock' = [sock EXCEPT ![c] = f]
            /\ thread' = [thread EXCEPT ![c] = "serving"]
            /\ resources' = Append(resources, c)
    /\ backlog' = Tail(backlog)
    /\ spc' = "check"
    /\ late' = IF force_finish THEN late + 1 ELSE late
    /\ UNCHANGED <<listen_socket, next, client, mainVars, dataVars>>

\* accept fails for want of a descriptor; the exception is swallowed.
AcceptFails ==
    /\ spc = "accept" /\ backlog # <<>> /\ Free = {}
    /\ spc' = "check"
    /\ UNCHANGED <<listen_socket, resources, next, mainVars, connVars, file, dataVars, late>>

\* A socket option of the accepted socket cannot be set: the descriptor, a free one, is
\* closed again, and the exception is swallowed.
SetUpFails ==
    /\ spc = "accept" /\ backlog # <<>> /\ Free # {}
    /\ client' = [client EXCEPT ![Head(backlog)] = "gone"]
    /\ backlog' = Tail(backlog)
    /\ spc' = "check"
    /\ late' = IF force_finish THEN late + 1 ELSE late
    /\ UNCHANGED <<listen_socket, resources, next, thread, sock, mainVars, file, dataVars>>

\* ResourceContainer::wait: the thread has ended, by an exception, which is thrown
\* again here; release shuts down and closes, once.
JoinNext ==
    /\ spc = "join" /\ next <= Len(resources)
    /\ LET c == resources[next]
       IN  /\ thread[c] = "dead"
           /\ file' = [file EXCEPT ![sock[c]] = None]
           /\ sock' = [sock EXCEPT ![c] = None]
           /\ client' = [client EXCEPT ![c] = "gone"]
    /\ next' = next + 1
    /\ UNCHANGED <<spc, listen_socket, resources, mainVars, backlog, thread, dataVars, late>>

\* The listening socket is closed; the kernel resets what was not accepted.
CloseListenSocket ==
    /\ spc = "join" /\ next > Len(resources)
    /\ file' = [file EXCEPT ![listen_socket] = None]
    /\ listen_socket' = None
    /\ client' = [c \in Conns |->
                    IF \E i \in 1 .. Len(backlog) : backlog[i] = c THEN "gone" ELSE client[c]]
    /\ backlog' = <<>>
    /\ spc' = "ended"
    /\ UNCHANGED <<resources, next, thread, sock, mainVars, dataVars, late>>

-----------------------------------------------------------------------------
(***************************************************************************)
(* Clients and the threads that serve them.                                 *)
(***************************************************************************)

Alive == spc # "terminated"

Connect(c) ==
    /\ Alive /\ listen_socket # None
    /\ client[c] = "away"
    /\ client' = [client EXCEPT ![c] = "open"]
    /\ backlog' = Append(backlog, c)
    /\ UNCHANGED <<thread, sock, mainVars, loopVars, file, dataVars, late>>

Disconnect(c) ==
    /\ Alive /\ client[c] = "open"
    /\ client' = [client EXCEPT ![c] = "gone"]
    /\ UNCHANGED <<backlog, thread, sock, mainVars, loopVars, file, dataVars, late>>

\* Mutant of Eval: the descriptor is stored where the data should be.
EvalStoringDescriptor(c) ==
    /\ Alive /\ thread[c] = "serving" /\ client[c] = "open"
    /\ seen' = [seen EXCEPT ![c] = Initial]
    /\ cdatamap' = [cdatamap EXCEPT ![sock[c]] = sock[c]]
    /\ UNCHANGED <<mainVars, loopVars, connVars, file, late>>

\* A packet is evaluated: cdatamap_.emplace does nothing if the descriptor has an
\* entry; the callback sees the entry and leaves its mark on it.
Eval(c) ==
    /\ Alive /\ thread[c] = "serving" /\ client[c] = "open"
    /\ seen' = [seen EXCEPT ![c] =
                    IF cdatamap[sock[c]] = None THEN Initial ELSE cdatamap[sock[c]]]
    /\ cdatamap' = [cdatamap EXCEPT ![sock[c]] = c]
    /\ UNCHANGED <<mainVars, loopVars, connVars, file, late>>

\* Mutant of ThreadEnds: the thread closes the descriptor when it is done.
ThreadEndsClosing(c) ==
    /\ Alive /\ thread[c] = "serving"
    /\ thread' = [thread EXCEPT ![c] = "dead"]
    /\ file' = [file EXCEPT ![sock[c]] = None]
    /\ UNCHANGED <<backlog, client, sock, mainVars, loopVars, dataVars, late>>

\* The peer is gone, or a callback throws something else than CallbackException:
\* the thread sets its exception and ends. Its socket stays open.
ThreadEnds(c) ==
    /\ Alive /\ thread[c] = "serving"
    /\ thread' = [thread EXCEPT ![c] = "dead"]
    /\ UNCHANGED <<backlog, client, sock, mainVars, loopVars, file, dataVars, late>>

ServerStep ==
    \/ MakeListenSocket \/ ListenFails \/ Check \/ Accept \/ AcceptFails \/ SetUpFails
    \/ JoinNext \/ CloseListenSocket

Next ==
    \/ Start \/ Stop \/ Wait
    \/ ServerStep
    \/ \E c \in Conns : Connect(c) \/ Disconnect(c) \/ Eval(c) \/ ThreadEnds(c)

Spec == Init /\ [][Next]_vars

\* Threads run. A thread must end once its peer is gone; a callback need not throw,
\* nobody has to connect, to disconnect or to stop the server.
FairSpec ==
    /\ Spec
    /\ WF_vars(Wait) /\ WF_vars(ServerStep)
    /\ \A c \in Conns : WF_vars(client[c] = "gone" /\ ThreadEnds(c))

\* And clients leave.
LeavingSpec == FairSpec /\ \A c \in Conns : WF_vars(Disconnect(c))

-----------------------------------------------------------------------------
(***************************************************************************)
(* Properties.                                                              *)
(***************************************************************************)

\* A socket that the server holds is the connection it was accepted for: no
\* descriptor is closed, and handed out again, while a copy of it is in use.
SocketsValid ==
    /\ \A c \in Conns : sock[c] # None => file[sock[c]] = c
    /\ \A c \in Conns : thread[c] = "serving" => sock[c] # None

\* When wait has returned nothing is left of the run: no descriptor is open, and no
\* thread uses the sockets and states of containers that are destroyed.
NothingLeft ==
    main = "idle" =>
        /\ \A f \in Fds : file[f] = None
        /\ \A c \in Conns : thread[c] # "serving"

\* At most one connection is accepted after the server was told to stop.
OneLateConnection == late <= 1

\* A callback finds the data of its connection: what was registered or what an
\* evaluation of the same connection left.
OwnCommonData == \A c \in Conns : seen[c] \in {None, Initial, c}

\* Until the server is started again every connection has data of its own: the map is
\* keyed by descriptor, and none that was evaluated on is closed while the server runs.
OwnDataUntilRestart == starts <= 1 => OwnCommonData

\* stop ends the server, or a port in use the process, if clients leave and somebody
\* connects once more: the thread joins every connection and waits in accept.
Knocked == main = "stopped" /\ spc = "accept" ~> backlog # <<>> \/ late > 0 \/ spc # "accept"
StopCompletes == Knocked => (main = "stopped" ~> main = "idle" \/ ~Alive)

\* What the prompt of the example server says: after a key was hit, the server exits,
\* at least when its clients go away.
StopTerminates == main = "stopped" ~> main = "idle" \/ ~Alive

=============================================================================
