# Formal models of stdsc

stdsc is a C++ library for client/server programs: a client sends requests and
data over one TCP connection, a server runs a callback per control code, gated
by a state machine. This directory holds TLA+ modules that model its core, the
TLC configurations that check them on small instances, and theorems that TLAPS
proves for every value of the constants.

## 1. Inventory

Paths are relative to `src/stdsc` unless they begin with `examples`.

| component | state | operations | who calls whom |
|---|---|---|---|
| **Client** (`stdsc_client.cpp`) | `sock_`, `mutex_` | `connect`, `close`, `send_request`, `send_data`, `recv_data`, `send_recv_data` | several application threads share one object; every operation holds `mutex_` from beginning to end |
| **blocking calls** (`stdsc_client.cpp:338-461`) | locals `retry_count`, `is_success` | `*_blocking` | repeat the plain calls while they throw `RejectException`, without holding the mutex while they sleep |
| **Server** (`stdsc_server.cpp:42-194`) | `param_.force_finish`, listening socket, vector of `ResourceContainer` | `start`, `stop`, `wait`; the loop `exec` | main thread starts and waits; the server thread accepts and creates one container and `ServerThread` per connection |
| **ServerThread** (`stdsc_server.cpp:200-288`) | reference to socket and state of its container | `exec`: receive a packet, `eval`, acknowledge | calls the container of callbacks; ends by an exception that the joining thread sees |
| **CallbackFunctionContainer** (`stdsc_callback_function_container.cpp`) | `funcmap_`, common data, `cdatamap_` | `set`, `set_commondata`, `eval` | one object, used by the threads of all connections, without a lock |
| **CallbackFunction** (`stdsc_callback_function.cpp`) | the application's | `request_function`, `data_function`, `download_function`, `updownload_function` | may throw `CallbackException` (answered by Reject) or anything else |
| **Socket** (`stdsc_socket.cpp`) | a descriptor number | make, accept, establish, send, receive, shutdown, close | copied without `dup`; the destructor closes nothing |
| **Packet, control codes** (`stdsc_packet.hpp`) | none | `make_packet`, `make_data_packet` | group bits decide what follows a packet on the wire |
| **State, StateContext** (`stdsc_state.cpp`) | `state_` | `set`, `next_state`, `current_state` | called by callbacks; copies share the first `State` object |
| **Thread, ThreadException** (`stdsc_thread.*`) | `std::thread`, `exception_ptr` | `start`, `join`, `set_current_exception`, `rethrow_if_has_exception` | base of Server and ServerThread |
| **Buffer, BufferStream** (`stdsc_buffer.cpp`) | a vector, a get and a put position | `setup`, `seekoff`, `seekpos` | used by applications to serialise |
| **PlainData, BasicData** (`stdsc_plaindata.hpp`) | a vector of numbers | `save_to_stream`, `load_from_stream`, `stream_size`, files | data that is saved into a BufferStream and sent as a buffer |
| **Utility, Log** | none | `split`, time stamps, output | helpers |
| **examples** add_server, multi_client | shared `CallbackParam`, states Init, Ready, Computed | callbacks A, B, compute, result | show how the library is meant to be used; the repository has no tests |

What is hard in this code, and what it should nevertheless guarantee:

* *Threads share a client.* An answer carries no call number, so correctness rests
  on the mutex and on both sides reading exactly what the other side wrote, also
  for codes without a callback, callbacks that refuse after they have sent a
  result, and connections that fail anywhere. (Session)
* *Errors are swallowed.* The public calls catch `SocketException` and return
  normally; later calls must not take effect as if nothing had happened. (Session,
  Blocking)
* *Retries.* Only a refusal may be repeated; arguments are rounded to seconds.
  (Blocking)
* *Descriptors.* Numbers are copied, kept as keys and closed late: use after close,
  leaks and stale data depend on the order of accept, join, close and restart.
  (Server)
* *Connecting.* Every step of an attempt may fail with a socket in hand; success is
  told from a time-out by a count. (Connecting)
* *Bytes come in pieces.* A send or a receive moves as many bytes as it likes, a time
  limit may end a receive, a connection may be cut inside an item; the rest of the
  library relies on items that arrive whole. (Stream)
* *Seeks and serialisation.* One seek moves one position, the other, or both; a buffer
  may be larger or smaller than what is saved in it. (BufferStream, PlainData, Transfer)
* *One map for all threads.* `cdatamap_` is changed by the threads of all connections
  without a lock. (Container)
* *Shared states.* Connections begin with one `State` object and set its flags without
  a lock. (AddServer)
* *Termination.* No receive has a time limit; a call, `stop` and `wait` return only
  if the other side does something. (Session, Server)

`PROJECT.json` lists every component with its status and every hazard at its line.

## 2. Modules

| module | models | role |
|---|---|---|
| `Retry` | `calc_retry_count` | how often a loop of the client tries |
| `ControlCode` | `stdsc_packet.hpp`, dispatch of `eval` | values and groups of control codes, what each group carries |
| `Rpc` | what a connection promises | abstract specification: calls are issued one at a time, served at most once and in order, answered truthfully, and nothing is served after a lost call |
| `Session` | `Client`, the two streams, `ServerThread::Impl::exec`, `eval`, faults | detailed specification; implements `Rpc` (`KeepsPromise`) |
| `SessionInv`, `SessionProof` | | inductive invariant and theorems |
| `SessionQuiet` | Session with a history variable that tells whether a fault has happened | what the code guarantees only without faults |
| `QuietProof` | | its inductive invariant and theorems |
| `Blocking` | the blocking calls | built on `Rpc` (`Wire == INSTANCE Rpc`) in place of a connection |
| `BlockingProof` | | its inductive invariant and theorems |
| `Server` | `Server::Impl::exec`, `ResourceContainer`, `start`/`stop`/`wait`, descriptors, the map of common data | |
| `ServerProof` | | its inductive invariants and theorems |
| `Connecting` | `Client::connect`, `close`, `Socket::establish_connection` | |
| `ConnectingProof` | | its inductive invariant and theorems |
| `AddServer` | callbacks, states and client script of the examples, `StateContext` | what an application does with the library |
| `AddServerProof` | | its inductive invariant and theorems |
| `Channel` | what one direction of a connection promises | abstract specification: items arrive whole, once and in order; a cut leaves a prefix |
| `Stream` | `send_packet`, `send_buffer`, `recv_packet`, `recv_buffer` with `wait_read`, `read` and `write` | bytes in pieces; implements `Channel` (`KeepsItems`) |
| `StreamProof` | | its inductive invariant and theorems |
| `BufferStream` | `setup`, `seekoff`, `seekpos` and the streambuf under them | operators on a buffer with two positions |
| `PlainData` | `save_to_stream`, `load_from_stream`, `stream_size`, `clear` | operators on a vector of unsigned numbers and the bytes of its text |
| `Transfer` | an application that saves, sends, receives, seeks and loads | composes `Stream`, `BufferStream` and `PlainData` |
| `TransferProof` | | theorems on all seeks, the inductive invariant of the composition, and its theorems |
| `Container` | `CallbackFunctionContainer::Impl::eval` on several threads | the race on `cdatamap_` |
| `MCSession`, `MCSessionQuiet`, `MCBlocking`, `MCServer`, `MCConnecting`, `MCAddServer`, `MCTransfer` | | values of constants and symmetry sets for TLC |

Composition: Session shows that one connection implements Rpc; Blocking uses Rpc
as its connection, so what it shows holds over any Session. Server is the layer
above Session: what Session does in a whole exchange is the single step `Eval`
there, and the ways in which `ServerThread::exec` leaves its loop are `ThreadEnds`.
Connecting is what precedes a Session in the client. Below Session, Stream shows that
a connection which moves bytes in pieces is the `Channel` of whole items that Session
takes for granted; Transfer puts PlainData over BufferStream over Stream. Container
opens the step `Eval` of Server, for several threads at once. AddServer is the layer above
all of them: an exchange of Session, or of Blocking with its refusals, is one step
of a connection.

### Session

A stream is a sequence of *items*: a packet, or the bytes announced by the packet
before it. A reader takes the head, whatever it is; that it is what the reader
expected is the property `InStep`, not a guard. Items carry the number of the call
they were sent for, which only properties look at. Correspondence:

* `Lock`, `SendPacket`, `SendBody`, `RecvResult`, `RecvPayload`, `RecvAck`: the
  steps of `send_request`, `send_data`, `recv_data`, `send_recv_data`, with the
  group of the code deciding which ones occur. `ClientError` is a `SocketException`,
  swallowed by the wrapper. `Close` is `close` and the destructor.
* `RecvPacket`, `RecvBody`, `Ignore`, `Run`, `Refuse`, `SendResult`, `SendPayload`,
  `SendAck`, `ServerError`, `Abort`: `ServerThread::Impl::exec`, the `eval` of the
  container and a callback, which may refuse before or after it has sent a result.
  `Release` is what the server does with the socket when it is stopped.
* `Reset`, `KillClient`, `KillServer`: faults of the environment. A reset leaves any
  prefix of each stream to be read and an error pending at both ends. The error is
  reported once; a send after that raises SIGPIPE and ends the process
  (`ClientPipe`, `ServerPipe`), since the library sends with flags 0 and installs no
  handler. A send to a closed end may succeed, the item is dropped.

### Channel, Stream

A message is a packet that announces a size, and a buffer of that size. Bytes are named
by their message and place; the reader does not look at the name. `Send(n)` is one
`::send` in the loop of `write`, which takes any part of what remains; `ItemEnd` is
where that loop ends, first for `send_packet`, then for `send_buffer`. The reader is in
`wait_read` (`WaitRead`, `TimedOut`) or in `read` (`RecvSome`, and `RecvPacket` or
`RecvBody` with the last piece), which never looks at the time again. `Announced` is
garbage unless the bytes of a packet are those of one packet, so a reader that loses
its place is not rescued by the model. `Cut` leaves a prefix of the bytes on their way.
One direction is modelled and nothing holds the sender back, which is the harder case:
the server sends a result and an acknowledgement without waiting. In the abstraction to
`Channel` the items of a connection are numbers: of message `i` the packet is `2i - 1`,
its buffer, unless that is empty, `2i`. An item is put on its way, and taken, with its
last byte, so a channel is the last item that was put (`LastSent`) and the sets of items
on their way (`ItemsIn(wire)`) and taken (`AllReceived`). `Put` is the next item of the
connection, `Take` the least of those on their way, so the order is in the numbers.

### BufferStream, PlainData, Transfer

Both areas of a `BufferStream` are the whole buffer, so a stream is its bytes and two
positions. `seekoff` follows the code branch by branch: the place relative to `end` is
counted from the last byte, a place behind the last byte is refused, and a seek in both
directions is refused unless both come to the same place.

`PlainData` is text, and modelled as its bytes: a line of decimal digits for the length,
then one for each number (`numeral`, `Line`, `Lines`). `sputn` cuts the text after any
byte of the buffer, in a number too; a larger buffer goes on with zero bytes. `values`
and `rest` are one extraction of `std::istream`: white space is skipped, digits are
taken. A number that was cut is read as the digits that came (12 as 1); a zero byte is no
digit, gives 0 and ends the reading; a stream that is at its end leaves a variable that
was not initialised (`Junk`). The end of the stream is noticed when the digits reach it,
so a stream that is not good is one with no bytes left. `load_from_stream` gives the set
of vectors it may leave. The module is about unsigned types: the text of a `double` has
six digits, and does not give the number back.

In Transfer the receiving application opens a stream on each
buffer it receives, reads and seeks as it likes, goes back and loads into one and the
same object.

### Container

An `unordered_map` is a list of nodes. `Emplace` reads the head of the list and `Link`
makes the new node the head; `LookUp` and `LinkEmpty` are `operator[]`, which inserts an
empty vector when it does not find the key. What else a data race may do (a rehash under
a reader, a torn pointer) is worse, and not needed for the finding.

### Blocking

An operation is one call of a `*_blocking` function on a thread of its own. Each
attempt is a call of Rpc; waiting for the mutex is the guard of `Rpc!Issue`. The
environment lets the server serve, refuse or abort any call and lets a connection
be lost. `calc_retry_count` is translated with its integer division. Time is not
modelled, except for the sum of what the thread was told to sleep. A call whose
connection failed is *lost* and still ends the loop (`Succeed`): its caller cannot
tell it from one that was accepted.

### Server

A connection is a value; descriptors are numbers and the kernel hands out the lowest
free one. `file[f]` is what descriptor `f` stands for and `sock[c]` the number in the
container of `c`: that these agree is `SocketsValid`. `cdatamap` maps numbers to the
connection that last changed the entry. `late` counts connections accepted after `stop`.
After `Start` the main thread goes on or, if it was not asked to be `async`, waits.
`SetUpFails` is a `setsockopt` that throws after `accept`: the descriptor is
closed again, the client sees its connection end, and the loop goes on. An exception of `make_listen_socket` leaves
a `std::thread`: the process ends (`terminated`).

### Connecting

The loop of `connect` holds the mutex; `Again` is its condition. Within an attempt
the model stops where the code may fail with a socket in hand (`setup`, `connect`,
`blocking`); before that `socket()` may fail (`SocketFails`), and an invalid port
raises an exception that the loop does not catch (`InvalidPort`). `file` says whose
each descriptor is, since the rest of the process opens and closes descriptors as
well (`Others`). A connect on a connected client replaces `sock_` without closing
it: `replaced` counts that, and `NothingLeaks` says that it is the only leak.
The branch for `EINPROGRESS` is not taken: the socket is a blocking one.

### AddServer

`param`, `state` and `flags` are the `CallbackParam`, the current `State` object of
each connection and the two flags of the one `StateInit` object that all connections
begin with, since a `StateContext` copies a pointer. `Receive` and `TestFlags` are the
two halves of a value callback: other threads may set or read flags between them.
`compares` tells the two examples apart: the server of add_server sends the sum, the
one of multi_client receives the sum that the client `Expected` and sends a verdict
(`Answer`).
The flags are plain bools used without a lock, so a thread need not see what another
one has set (`Readings`). `After` is the transition of the later states, `Refuse` the
`CallbackException` of a request that comes too early. Scripted connections follow
the client of the examples, the others send anything. A connection that is not
scripted can leave `StateInit` after one value of its own, when somebody else has
set the other flag, and then computes with a value that was never set; the theorems
show that this harms nobody who follows the script.

## 3. Runs

| run | instance | shows |
|---|---|---|
| `Session_faults` | 2 threads, 5 codes (one of each group, one without a callback), bodies empty or not, 3 calls, every fault | `TypeOK`, `IInv`, `InStep`, `OutcomeTruthful`, `SerialExecution`, `NoMutualWait`, `ExecutesAtMostOnce`, refinement `KeepsPromise` |
| `Session_liveness` | 3 codes, 2 calls, resets, kills and `Close` at any time, fairness | `CloseLosesNothing` (before the first fault), `CallReturns` |
| `Session_unhandled` | a download code without a callback, no fault | violation: `CallReturns` |
| `Blocking_retry` | 2 operations, 4 intervals, 4 time-outs, 6 attempts | `TypeOK`, `AtMostOneEffect`, `TimeoutHasNoEffect`, `SleepBounded`, `BlockingReturns` |
| `Blocking_early` | 1 operation | violation: `TimeoutElapsed` |
| `Server_restart` | 3 connections, 3 descriptors, 2 starts, port may be taken, fairness | `TypeOK`, `SocketsValid`, `NothingLeft`, `OneLateConnection`, `OwnDataUntilRestart`, `StopCompletes` |
| `Server_exit` | 2 connections, fairness | violation: `StopTerminates` |
| `Server_stale` | 2 connections, 2 starts | violation: `OwnCommonData` |
| `Connecting_retry` | 2 threads, 3 descriptors, 2 connects, 3 intervals, 3 time-outs, fairness | `TypeOK`, `NothingLeaks`, `FailureHasNoEffect`, `AttemptsUsed`, `OthersUntouched`, `ConnectReturns` |
| `AddServer_script` | a scripted and a free client, both examples, words of 2 bits, fairness | `TypeOK`, `ResultTrue`, `SumCurrent`, `ScriptNeverRefused`, `ScriptEnds` |
| `Transfer_pieces` | 2 messages, packets of 2 bytes, a kernel with room for 3, buffers of 0 and 3 bytes for no number, the number 1 and the number 12, one time-out, cut anywhere, fairness | `TypeOK`, `ReceivedAsSent`, `StartsAtItem`, `SenderOwes`, `SeekExact`, `LoadedAsSaved`, refinement `KeepsItems`, `AllArrives` |
| `Container_race` | 2 connections, 2 evaluations each | violation: `FindsItsData` |

Two of the properties are about waiting, since no receive of an exchange has a time
limit. `NoMutualWait` of Session: a client that waits for an answer of which nothing is on
its way has a server thread that is at work or has something to read, and a server
that waits for a body has a client that is about to send it. `SenderOwes` of Stream is
the same a level below: the byte a reader waits for is the next one of the sender. They
are what `CallReturns` and `AllArrives` need of safety.

The violations are disagreements between the code and what it or its examples say:

* A receive promises "Receiving data time out" but can wait for ever, with the mutex
  held. It suffices that a download code has no callback: the server acknowledges,
  the client takes the acknowledgement for the announcement of a result.
* A blocking call with an interval below a second gives up after one rejection,
  whatever its timeout.
* After `stop` the server waits for one more connection before it ends.
* Common data "on each connection" is kept by descriptor number: after a restart a
  connection may find the data of an earlier one. `OwnDataUntilRestart` shows
  that it cannot happen before, as long as evaluations come one at a time.
* When two of them are the first of their connections and overlap, one node of the map
  may be lost, and a callback gets a null pointer for its common data.

**Bounds.** `MaxCalls`, `MaxStarts` and the sets of threads, connections and descriptors
are the only bounds; each is a guard of the action that would exceed it (`Lock`,
`Rpc!Issue`, `Start`, `Connect`). Two threads are enough for every race on the mutex,
three calls for a lost call between an answered and a later one. Sizes 0 and 1 tell an
empty body from one that is sent. Three connections and three descriptors give a server
that runs out of them; two starts let numbers be handed out again. Intervals below,
equal to and above a second, and timeouts below, equal to and above the interval, cover
the branches of `calc_retry_count`. `MaxConnects` bounds `connect` (guard of `Lock`):
two calls replace a socket or follow a `close`; a third descriptor is left for the rest
of the process, which may take all of them. `Modulus` is the width of the example's
values: with words of 2 bits sums wrap. One free client stands for any number of them as
far as flags go, since it can send everything. In Transfer two messages are enough for a
reader to take a part of one for the other; a kernel with room for fewer bytes than a
message makes every send partial. A buffer of three bytes has room for the length and the
number 1 to its last digit, is cut in the number 12, and is too large for no number; one
of no bytes is what `stream_size()` gives for no number. `Junk` holds a plausible and an
implausible leftover. Saving and loading alone need no connection and are checked on more:
`RoundTripAssumption` of MCTransfer says `AsSaved` of all vectors of up to two numbers out
of four (of one to three digits) and of one of ten numbers, for buffers of every size from
none to two bytes more than the text has.
`MaxTimeouts` is the guard of `TimedOut` and `MaxEvals` that of `Emplace`: the second
evaluation finds what the first one left. Deadlock is not checked: a program that has
made its calls, or was stopped, rests.

**Fairness.** Weak fairness of each client thread's and the server thread's steps: they
are threads of a preemptive kernel and every step is a system call that, once possible,
stays possible. Nobody must make a call, connect, disconnect, stop a server or let a
fault happen. In Blocking, a call of the connection is assumed to return, which
Session_liveness shows without `abort` and for codes that are handled or carry no
result. `StopCompletes` assumes in its own antecedent what the code needs from outside:
one more connection (`Knocked`); `LeavingSpec` adds that clients leave in the end. A
thread whose peer is gone ends (`ThreadEnds`), since a callback returns. In Connecting
the thread in `connect` runs, and the kernel gives up a connection attempt by itself. In
AddServer the threads of scripted connections run. In Transfer both processes run and
the callback of the receiver comes to its end; `AllArrives` says nothing of a connection
that is cut.

## 4. Proofs

All theorems hold for every value of the constants under the named assumptions
`...Assumption` of the module.

*Session.* `Inductive` proves `IInv` of `SessionInv`: at most one call is *live*, the
one after the last answered; as long as neither end has seen an error, the phase of
the mutex holder, the place of the server thread and the contents of both streams
determine each other (`DownInv`, `UpInv`); after an error streams only shrink, so
readers find prefixes of what they expect. The safety properties do not mention
stream contents or the server's place, and none of them is inductive without that.
From it follow `Truthful`, `Serial`, `StreamsInStep`, `ExecutedOnce` and
`Implements`, the refinement of Rpc. The assumption on codes says that every code
has a group and that the client announces a body exactly when the server reads one.
`RangesAreGroups` proves it of all codes in the ranges that the comments of
`stdsc_packet.hpp` set apart; `ControlCode` shows what the code does with others.

`NobodyWaits` needs a second invariant, `WaitInv`: when the server thread waits for the
next packet, what is left of the answer to the last call is complete, and a result is
missing in it only if the answer is Reject. It has a hypothesis, `ResultsHandled`: a code
whose callback sends a result has a callback. This is what an application must do;
`Session_faults` satisfies it, and `Session_unhandled` shows what happens without it.

*SessionQuiet.* Until the first fault `QuietInvariant` adds to `IInv` of Session that an
end is down only because it was closed, that it is closed only between exchanges, and
that the server thread is gone only after that (`Departed`). `CloseIsClean` follows: no
`close` and no destructor of any thread loses a call that was executed.

*Blocking.* `BlockingInvariant` strengthens Rpc's guarantees by: earlier attempts of
an operation were all refused, `retry_count` counts them, and the time slept is
their number times the interval. `EffectOnce`, `TimeoutClean` and `SleepsBounded`
follow; the last one needs arithmetic of the division in `calc_retry_count`. `LoopEnds`
shows that the loop ends, as far as safety can: `StepsLeft`, two steps per attempt that
is left, decreases with every step of the operation and never increases.

*Server.* `ServerInvariant` relates descriptors, containers and the place of the
server thread: sockets and descriptors determine each other (`FileInv`), containers
with a socket are those not yet joined (`ResourceInv`), nobody is in the backlog
twice (`BacklogInv`). `DescriptorsValid`, `ServerLeavesNothing` and `LateOnce`
follow. `DataUntilRestart` needs a second invariant (`DataInv`): while the first run
accepts, every descriptor with an entry in the map is still open. `StopEnds` bounds the
steps of the server thread after `stop` (one more connection, every join, the listening
socket): what keeps it from its end is `accept` and the threads it joins, nothing else.

*Connecting.* `ConnectingInvariant` ties the socket in hand to the place in the loop,
and `tries` to `retry_count`: equal between attempts, one more during an attempt and
after success. `NoLeak`, `FailureClean`, `AttemptsCounted` and `OwnDescriptorsOnly`
follow, the first one by cardinalities of finite sets of descriptors. `ConnectEnds` is
what `LoopEnds` is to Blocking, with five steps per attempt: however its steps fail, a
`connect` keeps the mutex for a bounded number of them.

*AddServer.* `AddServerInvariant` says that flags are never taken back and no connection
is past `StateInit` without both of them, that what a scripted client has sent is what
its connection holds, and that its state keeps up with its script. `SumIsTrue`,
`SumIsCurrent` and `NeverRefused` follow, for any clients and any width of the values.

*Stream.* `StreamInvariant` says that nothing is missing between the ends: the bytes on
the wire are consecutive (`wire`), they begin where the reader stands in its message,
and as long as the connection is up they end where the sender stands. `BytesAsSent` and
`ReceiveStartsAtItem` follow, for every number and size of messages, every size of the
kernel's buffer and every way of splitting sends and receives.

The same invariant gives `NoEndlessRead` (`SenderOwes`), with the lemma that a sender
whose connection is up has failed nowhere, and the refinement `ItemsKept`: a `Send` that
ends an item is `Put`, a receive that ends one is `Take`, a cut is `Cut`, and everything
else leaves the channel as it is. The lemmas it rests on say what the items of a
concatenation, of a prefix and of a rest are, and that consecutive bytes hold
consecutive items.

*BufferStream, PlainData, Transfer.* `SeeksExact` is proved by cases on direction and way
for a stream of any size with positions anywhere. `TransferIsStream` carries the theorems of Stream
over to Transfer, whose own steps do not touch the connection; `TransferInvariant` adds
that positions are inside the buffer, that the callback has the buffer of the message
received last, and that each load was a load, into an empty vector, of the bytes that
message was saved into. `SeeksAreExact` and `LoadsWhatWasSent` follow. That digits give
the number back is not proved: writing and reading them is recursion over the number, and
what it computes for every number needs induction over data. `NumbersArrive` says what is
left to that: if vectors come back from buffers within a process, `LoadedAsSaved` holds
over any connection. The hypothesis is what `RoundTripAssumption` checks on an instance.

Model-checked only: the liveness properties `CallReturns`, `BlockingReturns`,
`StopCompletes`, `ConnectReturns`, `ScriptEnds` and `AllArrives` (liveness and fairness are
out of the prover's reach), and `LoadedAsSaved`, which rests on the text of numbers (a
corollary reduces it to that); every other property of a passing run is a theorem, the
mutual wait under its hypothesis. A violation is shown by its run. That `Blocking` may take
a Session for its Rpc follows from `KeepsPromise` by substitution, and is not a formal
theorem, since Blocking's own variables are not Session's.

## 5. Not modelled

* Signals: `EINTR` fails a select or recv that is not restarted; the library installs
  no handler. Descriptors of 1024 and more in `fd_set`.
* Exceptions not derived from `AbstractException` in a callback and starting a server
  twice: the process ends.
* Common data "on all connections": a pointer that is passed on.
* Signed and floating-point types in `PlainData`, files in `BasicData`, access to an empty `PlainData`, moves and copies of a `Buffer`.
* The random values, sleeps and the printed summary of multi_client.
* `Utility`, which the library's core does not use, and `Log` (output only).

## 6. Plan

Done in this order, the most important behaviour first: ControlCode, Rpc, Session,
Blocking, Server, Connecting, AddServer, then Stream under Session with BufferStream,
PlainData and Transfer, Container, and both examples in AddServer; each with its proofs
where there is a property that holds. To come:

1. Connections of scripted clients that are lost, and requests that are refused and
   repeated: AddServer over Blocking. A result buffer that is used again after a failed
   receive.
2. Theorems: lemmas on `calc_retry_count` shared by Blocking and Connecting; a bound on
   the steps of a script in AddServer, as those of `LoopEnds`, `ConnectEnds` and `StopEnds`.
3. `split` of Utility, as a pure module, if an application of it is added.
