------------------------------ MODULE Transfer ------------------------------
(***************************************************************************)
(* Numbers on their way from one application to another: a PlainData is     *)
(* saved into a BufferStream, the buffer is sent over a Stream, a callback  *)
(* of the receiver opens a BufferStream on what was received, looks around  *)
(* in it, goes back to the begin and loads a PlainData, always the same     *)
(* object. While it does so nothing is received.                            *)
(***************************************************************************)
EXTENDS Stream, BufferStream, PlainData

CONSTANTS
    Vectors,      \* what senders save
    Rooms         \* sizes of their buffers

ASSUME VectorsAssumption == Vectors \subseteq Seq(Nat)
ASSUME RoomsAssumption == Rooms \subseteq Nat

VARIABLES
    vec,          \* the numbers of each message
    app,          \* the receiving application: "idle", or "working" in its callback
    view,         \* its BufferStream
    data,         \* the vec_ of its PlainData
    loads         \* history: what it has loaded

appVars == <<app, view, data, loads>>
vars == <<streamVars, vec, appVars>>

\* BufferStream(room), an ostream on it, save_to_stream: the text is cut after any byte.
Filled(v, room) == sputn(setup([k \in 1 .. room |-> Nul]), save_to_stream(v)).area

Init ==
    /\ StreamInit
    /\ vec \in [Msgs -> Vectors]
    /\ \A i \in Msgs : \E room \in Rooms : body[i] = Filled(vec[i], room)
    /\ app = "idle" /\ view = setup(<<>>) /\ data = <<>> /\ loads = <<>>

\* The bytes of the buffer of a message that was received.
Content(message) ==
    [k \in 1 .. Len(message) - Header |-> body[message[Header + k][1]][message[Header + k][2] - Header]]

\* A message is complete: data_function(buffer) with a BufferStream on the buffer.
Network ==
    /\ UNCHANGED vec
    /\ \/ (Sender \/ Cut) /\ UNCHANGED appVars
       \/ /\ app = "idle" /\ Reader
          /\ IF received' # received
             THEN app' = "working" /\ view' = setup(Content(received'[Len(received')]))
             ELSE UNCHANGED <<app, view>>
          /\ UNCHANGED <<data, loads>>

Get ==
    /\ app = "working"
    /\ view' = sbumpc(view)
    /\ UNCHANGED <<streamVars, vec, app, data, loads>>

Offsets == - size(view) - 1 .. size(view) + 1

\* Any place can be sought from any other: seeks relative to one are in SeekExact.
Seek(pos, which) ==
    /\ app = "working"
    /\ view' = seekpos(view, pos, which).stream
    /\ UNCHANGED <<streamVars, vec, app, data, loads>>

\* istream::seekg(0), load_from_stream; the callback returns.
Load ==
    /\ app = "working"
    /\ view' = seekpos(view, 0, {"in"}).stream
    /\ data' \in load_from_stream(data, SubSeq(view'.area, view'.gptr + 1, size(view')))
    /\ loads' = Append(loads, data')
    /\ app' = "idle"
    /\ UNCHANGED <<streamVars, vec>>

Next ==
    \/ Network \/ Get \/ Load
    \/ \E pos \in Offsets, which \in SUBSET Directions : Seek(pos, which)

Spec == Init /\ [][Next]_vars

\* Both processes run, and the callback comes to its end.
FairSpec ==
    /\ Spec
    /\ WF_vars(Sender /\ UNCHANGED <<vec, appVars>>)
    /\ WF_vars(Network /\ Reader)
    /\ WF_vars(Load)

-----------------------------------------------------------------------------
(***************************************************************************)
(* Properties.                                                              *)
(***************************************************************************)

\* Wherever the application has got to in a buffer, a seek moves what it was asked to
\* move and nothing else, and a seek that fails moves nothing.
SeekExact ==
    \A which \in SUBSET Directions, way \in Ways, off \in Offsets : SeekIsExact(view, off, way, which)

\* The buffer has room for the length and the first k numbers of a vector, to the last
\* digit: the end of that line may be missing.
HasRoom(v, room, k) == room + 1 >= Len(Line(Len(v))) + Len(Lines(SubSeq(v, 1, k)))

\* x is what v, saved into a buffer of some size, may be loaded as. A vector of no numbers
\* saves nothing, and is a count of 0 only if there is a byte to tell so.
AsSaved(x, v, room) ==
    IF v = <<>>
    THEN room > 0 => x = <<>>
    ELSE /\ HasRoom(v, room, 0) => Len(x) = Len(v)
         /\ \A k \in DOMAIN v : HasRoom(v, room, k) => x[k] = v[k]

\* What was loaded is what was saved if the buffer had room for it; if it had not, the
\* length and the numbers that were not cut: the receiver has as many numbers as were
\* saved, and those that came are at their places. Of a number that was cut nothing
\* is claimed: of 12 the receiver may have 1. Of a buffer of no bytes (stream_size() of an
\* empty vector) nothing is either: the count is read from an empty stream.
LoadedAsSaved == \A i \in DOMAIN loads : AsSaved(loads[i], vec[i], Len(body[i]))

\* Unless the connection is cut, every message gets through and is loaded.
AllArrives == <>(~up \/ Len(loads) = Messages)

=============================================================================
