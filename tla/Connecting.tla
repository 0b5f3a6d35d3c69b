----------------------------- MODULE Connecting -----------------------------
(***************************************************************************)
(* Client::connect and Client::close (stdsc_client.cpp) on the descriptors  *)
(* of the process: the loop that tries to establish a connection, with the  *)
(* mutex held, and the points at which establish_connection                 *)
(* (stdsc_socket.cpp) may fail. Several threads share the client, and the   *)
(* rest of the process opens and closes descriptors as well.                *)
(*                                                                          *)
(* The socket is a blocking one, so connect never ends with EINPROGRESS and *)
(* the branch of establish_connection that waits for it is not taken.       *)
(***************************************************************************)
EXTENDS Retry, FiniteSets

CONSTANTS
    Threads,      \* threads that share the client
    NoThread,     \* the mutex is free
    Fds,          \* descriptors of the process
    None,         \* INVALID_SOCKET
    Intervals,    \* values of retry_interval_usec
    Timeouts,     \* values of timeout_sec
    MaxConnects   \* bound on the calls of connect

ASSUME ThreadNamesAssumption == NoThread \notin Threads
ASSUME FdNamesAssumption ==
    IsFiniteSet(Fds) /\ None \notin Fds /\ None \notin {"client", "other"}
ASSUME OptionsAssumption == Intervals \subseteq Nat /\ Timeouts \subseteq Nat
ASSUME MaxConnectsAssumption == MaxConnects \in Nat

VARIABLES
    mutex,        \* Client::Impl::mutex_
    pc,           \* where the thread that has it is
    option,       \* the arguments of its connect
    retry,        \* its local variable retry_count
    is_success,   \* ... and is_success
    made,         \* the socket establish_connection works on
    sock,         \* Client::Impl::sock_
    file,         \* whose each descriptor is
    connects,     \* history: how many calls of connect were made,
    tries,        \* how often the present one has tried,
    before,       \* the socket the client had when it began,
    replaced,     \* how many open sockets were replaced by another connect,
    told          \* what the last connect has told its caller

loopVars == <<mutex, pc, option, retry, is_success>>
fdVars == <<made, sock, file>>
historyVars == <<connects, tries, before, replaced, told>>
vars == <<loopVars, fdVars, historyVars>>

Option == [interval : Intervals, timeout : Timeouts, port : {"valid", "invalid"}]
Places == {"none", "loop", "setup", "connect", "blocking", "sleep"}

max_retry_count == calc_retry_count(option.timeout, option.interval)

TypeOK ==
    /\ mutex \in Threads \cup {NoThread}
    /\ pc \in Places
    /\ option \in Option
    /\ retry \in Nat
    /\ is_success \in BOOLEAN
    /\ made \in Fds \cup {None}
    /\ sock \in Fds \cup {None}
    /\ file \in [Fds -> {"client", "other", None}]
    /\ connects \in 0 .. MaxConnects
    /\ tries \in Nat
    /\ before \in Fds \cup {None}
    /\ replaced \in Nat
    /\ told \in {"nothing", "connected", "timeout", "invalid"}

Init ==
    /\ mutex = NoThread /\ pc = "none"
    /\ option \in Option
    /\ retry = 0 /\ is_success = FALSE
    /\ made = None /\ sock = None
    /\ file = [f \in Fds |-> None]
    /\ connects = 0 /\ tries = 0 /\ before = None /\ replaced = 0
    /\ told = "nothing"

-----------------------------------------------------------------------------
(***************************************************************************)
(* Client::connect.                                                         *)
(***************************************************************************)

\* A thread calls connect and has the mutex.
Lock(t) ==
    /\ mutex = NoThread
    /\ connects < MaxConnects
    /\ mutex' = t /\ pc' = "loop"
    /\ option' \in Option
    /\ retry' = 0 /\ is_success' = FALSE
    /\ connects' = connects + 1 /\ tries' = 0 /\ before' = sock
    /\ UNCHANGED <<fdVars, replaced, told>>

\* It returns, or throws, and gives the mutex back.
Unlock(what) ==
    /\ mutex' = NoThread /\ pc' = "none"
    /\ told' = what
    /\ UNCHANGED <<option, retry, is_success, connects, tries, before, replaced>>

\* The condition of the while loop.
Again == ~is_success /\ max_retry_count > retry

\* The port is out of range: an exception that the loop does not catch.
InvalidPort ==
    /\ pc = "loop" /\ Again
    /\ option.port = "invalid"
    /\ Unlock("invalid")
    /\ UNCHANGED fdVars

MakeSocket ==
    /\ pc = "loop" /\ Again
    /\ option.port = "valid"
    /\ \E f \in Fds :
        /\ file[f] = None
        /\ file' = [file EXCEPT ![f] = "client"]
        /\ made' = f
    /\ pc' = "setup"
    /\ tries' = tries + 1
    /\ UNCHANGED <<mutex, option, retry, is_success, sock, connects, before, replaced, told>>

\* Mutant of Caught: the attempts left are counted.
CaughtCountingDown ==
    /\ retry' = retry - 1
    /\ pc' = "sleep"
    /\ UNCHANGED <<mutex, option, is_success, sock, connects, before, replaced, told>>

\* SocketException: the attempt is counted and the thread goes to sleep.
Caught ==
    /\ retry' = retry + 1
    /\ pc' = "sleep"
    /\ UNCHANGED <<mutex, option, is_success, sock, connects, before, replaced, told>>

\* Mutant of SocketFails: an attempt without a socket does not count.
SocketFailsUncounted ==
    /\ pc = "loop" /\ Again
    /\ option.port = "valid"
    /\ \A f \in Fds : file[f] # None
    /\ pc' = "sleep"
    /\ UNCHANGED <<mutex, option, retry, is_success, fdVars, historyVars>>

\* socket() finds no descriptor.
SocketFails ==
    /\ pc = "loop" /\ Again
    /\ option.port = "valid"
    /\ \A f \in Fds : file[f] # None
    /\ tries' = tries + 1
    /\ Caught
    /\ UNCHANGED <<made, file>>

\* Mutant of EstablishFails: SOCKET_IF_CHECK in place of SOCKET_IF_CHECK_CLOSE.
EstablishFailsOpen ==
    /\ pc \in {"setup", "connect", "blocking"}
    /\ made' = None
    /\ Caught
    /\ UNCHANGED <<file, tries>>

\* An option or the address, connect, or fcntl fails: the socket is closed.
EstablishFails ==
    /\ pc \in {"setup", "connect", "blocking"}
    /\ file' = [file EXCEPT ![made] = None]
    /\ made' = None
    /\ Caught
    /\ UNCHANGED tries

\* The options are set and the host is found.
SetUp ==
    /\ pc = "setup"
    /\ pc' = "connect"
    /\ UNCHANGED <<mutex, option, retry, is_success, fdVars, historyVars>>

\* Mutant of Connect: the client has the socket as soon as it is connected.
ConnectEarly ==
    /\ pc = "connect"
    /\ pc' = "blocking"
    /\ sock' = made
    /\ UNCHANGED <<mutex, option, retry, is_success, made, file, historyVars>>

\* ::connect succeeds.
Connect ==
    /\ pc = "connect"
    /\ pc' = "blocking"
    /\ UNCHANGED <<mutex, option, retry, is_success, fdVars, historyVars>>

\* Mutant of Established: the attempt is counted although it has succeeded.
EstablishedCounted ==
    /\ pc = "blocking"
    /\ pc' = "loop"
    /\ is_success' = TRUE /\ retry' = retry + 1
    /\ sock' = made /\ made' = None
    /\ replaced' = IF sock # None THEN replaced + 1 ELSE replaced
    /\ UNCHANGED <<mutex, option, file, connects, tries, before, told>>

\* make_blocking succeeds: the socket takes the place of the one the client had,
\* which nobody closes.
Established ==
    /\ pc = "blocking"
    /\ pc' = "loop"
    /\ is_success' = TRUE
    /\ sock' = made /\ made' = None
    /\ replaced' = IF sock # None THEN replaced + 1 ELSE replaced
    /\ UNCHANGED <<mutex, option, retry, file, connects, tries, before, told>>

Sleep ==
    /\ pc = "sleep"
    /\ pc' = "loop"
    /\ UNCHANGED <<mutex, option, retry, is_success, fdVars, historyVars>>

\* The loop ends. The count tells success from a time-out.
Leave ==
    /\ pc = "loop" /\ ~Again
    /\ Unlock(IF max_retry_count > retry THEN "connected" ELSE "timeout")
    /\ UNCHANGED fdVars

-----------------------------------------------------------------------------
(***************************************************************************)
(* close, and the rest of the process.                                      *)
(***************************************************************************)

\* Mutant of Close: close_socket does not set the number to INVALID_SOCKET.
CloseKeeping ==
    /\ mutex = NoThread
    /\ sock # None
    /\ file' = [file EXCEPT ![sock] = None]
    /\ UNCHANGED <<sock, made, loopVars, historyVars>>

\* Client::close, and the destructor.
Close ==
    /\ mutex = NoThread
    /\ sock # None
    /\ file' = [file EXCEPT ![sock] = None]
    /\ sock' = None
    /\ UNCHANGED <<made, loopVars, historyVars>>

OtherOpens(f) ==
    /\ file[f] = None
    /\ file' = [file EXCEPT ![f] = "other"]
    /\ UNCHANGED <<sock, made, loopVars, historyVars>>

OtherCloses(f) ==
    /\ file[f] = "other"
    /\ file' = [file EXCEPT ![f] = None]
    /\ UNCHANGED <<sock, made, loopVars, historyVars>>

Step ==
    \/ InvalidPort \/ MakeSocket \/ SocketFails \/ EstablishFails
    \/ SetUp \/ Connect \/ Established \/ Sleep \/ Leave

Others == \E f \in Fds : OtherOpens(f) \/ OtherCloses(f)

Next == (\E t \in Threads : Lock(t)) \/ Step \/ Close \/ Others

Spec == Init /\ [][Next]_vars

\* The thread in connect runs; connect() of a blocking socket ends, since the kernel
\* gives up after some retransmissions.
FairSpec == Spec /\ WF_vars(Step)

-----------------------------------------------------------------------------

\* The client's socket is open and its own, and no attempt leaves a descriptor behind,
\* however it ends: what is open is in use, but for sockets that were replaced.
Ours == {f \in Fds : file[f] = "client"}
InUse == {sock, made} \ {None}
NothingLeaks == InUse \subseteq Ours /\ Cardinality(Ours \ InUse) = replaced

\* connect and close never close a descriptor of another part of the process.
OthersUntouched ==
    [][Step \/ Close => \A f \in Fds : file[f] = "other" => file'[f] = "other"]_vars

\* A connect that throws has left the client the connection it had, unless that was
\* closed since.
FailureHasNoEffect ==
    mutex = NoThread /\ told \in {"timeout", "invalid"} => sock \in {before, None}

\* connect throws "Connection time out" when it has used up its attempts, all of
\* which have failed, and returns only with a connection.
AttemptsUsed ==
    /\ tries <= max_retry_count
    /\ told = "timeout" /\ mutex = NoThread => tries = max_retry_count /\ ~is_success
    /\ told = "connected" /\ mutex = NoThread => is_success

\* connect ends, although it tries again and sleeps with the mutex that the other
\* threads need for their calls and for close.
ConnectReturns == mutex # NoThread ~> mutex = NoThread

=============================================================================
