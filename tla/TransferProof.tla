---------------------------- MODULE TransferProof ----------------------------
(***************************************************************************)
(* Proofs about BufferStream and Transfer: a seek is exact, and the         *)
(* application of Transfer, which adds no step to its Stream, loads the     *)
(* numbers of each message from the bytes they were saved into.             *)
(***************************************************************************)
EXTENDS Transfer, StreamProof

\* For every buffer, position and offset: a seek moves what it was asked to move, both
\* positions to the same byte, or nothing, and a position that was told can be returned
\* to (BufferStream::seekoff and seekpos).
THEOREM SeeksExact ==
    ASSUME NEW Cell, NEW s \in Streams(Cell), NEW off \in Int, NEW way \in Ways,
           NEW which \in SUBSET Directions
    PROVE  SeekIsExact(s, off, way, which)
PROOF
<1> DEFINE sought == seekoff(s, off, way, which)
           told == seekoff(s, 0, "cur", which).pos
<1>1. s = [area |-> s.area, gptr |-> s.gptr, pptr |-> s.pptr] /\ s.gptr \in Nat /\ s.pptr \in Nat
      /\ size(s) \in Nat
  BY DEF Streams, size
<1>2. /\ sought.pos = -1 => sought.stream = s
      /\ sought.pos # -1 =>
          /\ Inside(s, sought.pos)
          /\ sought.stream = [s EXCEPT !.gptr = IF "in" \in which THEN sought.pos ELSE @,
                                       !.pptr = IF "out" \in which THEN sought.pos ELSE @]
  <2>1. CASE Refused(s, off, way, which)
    BY <2>1 DEF seekoff
  <2>2. CASE ~Refused(s, off, way, which)
    <3> DEFINE in == Base(s, s.gptr, off, way)
               out == Base(s, s.pptr, off, way)
    <3>1. sought.pos = IF "in" \in which THEN in ELSE out
      BY <2>2 DEF seekoff
    <3>2. sought.stream = [s EXCEPT !.gptr = IF "in" \in which THEN in ELSE @,
                                    !.pptr = IF "out" \in which THEN out ELSE @]
      BY <2>2 DEF seekoff
    <3>3. in \in Int /\ out \in Int /\ size(s) \in Nat
      <4>1. s.gptr \in Nat /\ s.pptr \in Nat /\ size(s) \in Nat
        BY DEF Streams, size
      <4> QED
        BY <4>1 DEF Base, Ways
    <3>4. /\ which # {}
          /\ which = Directions => in = out
          /\ "in" \in which => Inside(s, in)
          /\ "out" \in which => Inside(s, out)
      BY <2>2 DEF Refused
    <3>5. which = {"in"} \/ which = {"out"} \/ which = Directions
      BY <3>4 DEF Directions
    <3> HIDE DEF in, out, sought
    <3>6. /\ "in" \in which => sought.pos = in
          /\ "out" \in which => sought.pos = out
      BY <3>1, <3>4, <3>5 DEF Directions
    <3>7. sought.pos \in Nat /\ Inside(s, sought.pos)
      BY <3>3, <3>4, <3>5, <3>6 DEF Inside, Directions
    <3>8. /\ (IF "in" \in which THEN in ELSE s.gptr) = IF "in" \in which THEN sought.pos ELSE s.gptr
          /\ (IF "out" \in which THEN out ELSE s.pptr) = IF "out" \in which THEN sought.pos ELSE s.pptr
      BY <3>6
    <3>9. sought.stream = [s EXCEPT !.gptr = IF "in" \in which THEN sought.pos ELSE @,
                                    !.pptr = IF "out" \in which THEN sought.pos ELSE @]
      BY <1>1, <3>2, <3>8
    <3> QED
      BY <3>7, <3>9
  <2> QED
    BY <2>1, <2>2
<1>3. ASSUME told # -1 PROVE seekpos(sought.stream, told, which).stream = s
  <2>1. ~Refused(s, 0, "cur", which)
    BY <1>3 DEF seekoff
  <2>2. which = {"in"} \/ which = {"out"}
    BY <2>1 DEF Refused, Directions
  <2>3. Inside(s, told) /\ told = IF which = {"in"} THEN s.gptr ELSE s.pptr
    <3>1. CASE which = {"in"}
      <4>1. told = Base(s, s.gptr, 0, "cur") /\ Inside(s, Base(s, s.gptr, 0, "cur"))
        BY <2>1, <3>1 DEF seekoff, Refused
      <4> QED
        BY <1>1, <3>1, <4>1 DEF Base
    <3>2. CASE which = {"out"}
      <4>1. told = Base(s, s.pptr, 0, "cur") /\ Inside(s, Base(s, s.pptr, 0, "cur"))
        BY <2>1, <3>2 DEF seekoff, Refused
      <4>2. {"out"} # {"in"}
        OBVIOUS
      <4> QED
        BY <1>1, <3>2, <4>1, <4>2 DEF Base
    <3> QED
      BY <2>2, <3>1, <3>2
  <2>4. PICK place : sought.stream = IF which = {"in"} THEN [s EXCEPT !.gptr = place] ELSE [s EXCEPT !.pptr = place]
    <3>1. CASE sought.stream = s
      <4>1. s = IF which = {"in"} THEN [s EXCEPT !.gptr = told] ELSE [s EXCEPT !.pptr = told]
        BY <1>1, <2>3
      <4> QED
        BY <3>1, <4>1
    <3>2. CASE sought.pos # -1
      <4> HIDE DEF sought
      <4>1. sought.stream = [s EXCEPT !.gptr = IF "in" \in which THEN sought.pos ELSE @,
                                     !.pptr = IF "out" \in which THEN sought.pos ELSE @]
        BY <1>2, <3>2
      <4>2. sought.stream = IF which = {"in"} THEN [s EXCEPT !.gptr = sought.pos]
                                              ELSE [s EXCEPT !.pptr = sought.pos]
        BY <1>1, <2>2, <4>1
      <4> QED
        BY <4>2
    <3> QED
      BY <1>2, <3>1, <3>2
  <2> HIDE DEF sought, told
  <2>5. /\ size(sought.stream) = size(s)
        /\ ~Refused(sought.stream, told, "beg", which)
    <3>1. sought.stream.area = s.area
      BY <1>1, <2>4
    <3> QED
      BY <2>2, <2>3, <3>1 DEF Refused, Base, Inside, size, Directions
  <2>6. seekpos(sought.stream, told, which).stream =
            [sought.stream EXCEPT !.gptr = IF "in" \in which THEN told ELSE @,
                                  !.pptr = IF "out" \in which THEN told ELSE @]
    BY <2>5 DEF seekpos, seekoff, Base
  <2> QED
    BY <1>1, <2>2, <2>3, <2>4, <2>6
<1> QED
  BY <1>2, <1>3 DEF SeekIsExact

-----------------------------------------------------------------------------
(***************************************************************************)
(* The application over the stream. What the bytes of a text are is opaque  *)
(* here: Cell stands for whatever they are.                                 *)
(***************************************************************************)

\* A buffer that was saved into has the size it was made with.
LEMMA FilledBytes ==
    ASSUME NEW v, NEW room \in Nat
    PROVE  Len(Filled(v, room)) = room /\ \E Cell : Filled(v, room) \in Seq(Cell)
PROOF
<1> DEFINE blank == [k \in 1 .. room |-> Nul]
           saved == save_to_stream(v)
           n == IF Len(saved) < room THEN Len(saved) ELSE room
           bytes == [k \in 1 .. room |-> IF k - 0 \in 1 .. n THEN saved[k - 0] ELSE blank[k]]
<1>1. Len(blank) = room /\ DOMAIN blank = 1 .. room
  OBVIOUS
<1> HIDE DEF saved, blank
<1>2. Filled(v, room) = bytes
  <2>1. room - 0 = room
    OBVIOUS
  <2> QED
    BY <1>1, <2>1 DEF Filled, sputn, setup, size, saved, blank
<1>3. bytes \in Seq({bytes[k] : k \in 1 .. room}) /\ Len(bytes) = room
  <2> SUFFICES ASSUME NEW f, f = bytes PROVE f \in Seq({f[k] : k \in 1 .. room}) /\ Len(f) = room
    OBVIOUS
  <2>1. f \in [1 .. room -> {f[k] : k \in 1 .. room}]
    OBVIOUS
  <2> HIDE DEF bytes
  <2> QED
    BY <2>1
<1> QED
  BY <1>2, <1>3

\* While the callback works it has the message that was received last before it; it has
\* loaded all messages before that one, each from the buffer it was saved into.
AppInv ==
    /\ vec \in [Msgs -> Vectors]
    /\ \A i \in Msgs : body[i] = Filled(vec[i], Len(body[i])) /\ Len(body[i]) \in Rooms
    /\ app \in {"idle", "working"}
    /\ \E Cell : view \in Streams(Cell)
    /\ app = "working" => Len(received) # 0 /\ view.area = body[Len(received)]
    /\ \E Vec : loads \in Seq(Vec)
    /\ Len(received) = Len(loads) + (IF app = "working" THEN 1 ELSE 0)

LoadedFromSaved ==
    \A i \in DOMAIN loads : loads[i] \in load_from_stream(<<>>, Filled(vec[i], Len(body[i])))

TInv == IInv /\ AppInv /\ LoadedFromSaved

\* A new stream and one that was read or sought in has its positions in its buffer.
LEMMA StreamsKept ==
    ASSUME NEW Cell, NEW s \in Streams(Cell)
    PROVE  /\ sbumpc(s) \in Streams(Cell) /\ sbumpc(s).area = s.area
           /\ \A pos \in Int, which \in SUBSET Directions :
                /\ seekpos(s, pos, which).stream \in Streams(Cell)
                /\ seekpos(s, pos, which).stream.area = s.area
PROOF
<1>1. /\ s = [area |-> s.area, gptr |-> s.gptr, pptr |-> s.pptr]
      /\ s.area \in Seq(Cell) /\ s.gptr \in Nat /\ s.pptr \in Nat /\ Len(s.area) \in Nat
      /\ s.gptr <= Len(s.area) /\ s.pptr <= Len(s.area)
  BY DEF Streams, size
<1>2. sbumpc(s) \in Streams(Cell) /\ sbumpc(s).area = s.area
  <2>1. CASE s.gptr < size(s)
    <3>1. sbumpc(s) = [area |-> s.area, gptr |-> s.gptr + 1, pptr |-> s.pptr]
      BY <1>1, <2>1 DEF sbumpc
    <3> QED
      BY <1>1, <2>1, <3>1 DEF Streams, size
  <2>2. CASE ~(s.gptr < size(s))
    BY <2>2 DEF sbumpc
  <2> QED
    BY <2>1, <2>2
<1>3. ASSUME NEW pos \in Int, NEW which \in SUBSET Directions
      PROVE  /\ seekpos(s, pos, which).stream \in Streams(Cell)
             /\ seekpos(s, pos, which).stream.area = s.area
  <2>1. CASE Refused(s, pos, "beg", which)
    BY <2>1 DEF seekpos, seekoff
  <2>2. CASE ~Refused(s, pos, "beg", which)
    <3>1. seekpos(s, pos, which).stream =
              [area |-> s.area, gptr |-> IF "in" \in which THEN pos ELSE s.gptr,
                                pptr |-> IF "out" \in which THEN pos ELSE s.pptr]
      BY <1>1, <2>2 DEF seekpos, seekoff, Base
    <3>2. "in" \in which \/ "out" \in which => 0 <= pos /\ pos < Len(s.area)
      BY <2>2 DEF Refused, Base, Inside, size
    <3> QED
      BY <1>1, <3>1, <3>2 DEF Streams, size
  <2> QED
    BY <2>1, <2>2
<1> QED
  BY <1>2, <1>3

\* seekg(0) goes to the begin, also in a buffer of no bytes, where the seek fails.
LEMMA BackToBegin ==
    ASSUME NEW Cell, NEW s \in Streams(Cell)
    PROVE  /\ seekpos(s, 0, {"in"}).stream.gptr = 0
           /\ SubSeq(s.area, 1, size(s)) = s.area
PROOF
<1>1. /\ s = [area |-> s.area, gptr |-> s.gptr, pptr |-> s.pptr]
      /\ s.area \in Seq(Cell) /\ s.gptr \in Nat /\ size(s) \in Nat /\ s.gptr <= size(s)
  BY DEF Streams, size
<1>2. {"in"} # Directions /\ {"in"} # {}
  BY DEF Directions
<1>3. CASE size(s) = 0
  <2>1. Refused(s, 0, "beg", {"in"})
    BY <1>3 DEF Refused, Base, Inside
  <2> QED
    BY <1>1, <1>3, <2>1, SubSeqFull DEF seekpos, seekoff, size
<1>4. CASE size(s) # 0
  <2>1. ~Refused(s, 0, "beg", {"in"})
    BY <1>1, <1>2, <1>4 DEF Refused, Base, Inside
  <2> QED
    BY <1>1, <2>1, SubSeqFull DEF seekpos, seekoff, Base, size
<1> QED
  BY <1>3, <1>4

\* What the callback opens its stream on is the buffer that was sent.
LEMMA ContentRight ==
    ASSUME NEW i \in Msgs, NEW Cell, body[i] \in Seq(Cell)
    PROVE  Content(Message(i)) = body[i]
PROOF
<1>1. body[i] \in Seq(Cell) /\ Len(body[i]) \in Nat /\ Header \in Nat /\ Total(i) = Header + Len(body[i])
  BY HeaderAssumption DEF Total
<1>2. Message(i) \in Seq(Byte) /\ Len(Message(i)) = Total(i)
  BY <1>1 DEF Message, Byte
<1>3. ASSUME NEW k \in 1 .. Len(body[i]), NEW at, at = Message(i)[Header + k]
      PROVE  body[at[1]][at[2] - Header] = body[i][k]
  <2>1. Header + k \in 1 .. Total(i) /\ Header + k - Header = k
    BY <1>1
  <2>2. at = <<i, Header + k>>
    BY <1>3, <2>1 DEF Message
  <2>3. at[1] = i /\ at[2] = Header + k
    BY <2>2
  <2>4. at[2] - Header = k
    BY <1>1, <2>3
  <2> QED
    BY <2>3, <2>4
<1>4. Len(Message(i)) - Header = Len(body[i])
  BY <1>1, <1>2
<1>5. Content(Message(i)) = [k \in 1 .. Len(body[i]) |-> body[i][k]]
  BY <1>3, <1>4 DEF Content
<1> QED
  BY <1>1, <1>5

\* A history that grows keeps what it had.
LEMMA Grown ==
    ASSUME NEW Vec, NEW s \in Seq(Vec), NEW e
    PROVE  /\ Append(s, e) \in Seq(Vec \cup {e}) /\ Len(Append(s, e)) = Len(s) + 1 /\ Len(s) \in Nat
           /\ \A i \in DOMAIN Append(s, e) :
                Append(s, e)[i] = IF i = Len(s) + 1 THEN e ELSE s[i]
           /\ \A i \in DOMAIN Append(s, e) : i # Len(s) + 1 => i \in DOMAIN s
PROOF
<1>1. s \in Seq(Vec \cup {e}) /\ e \in Vec \cup {e}
  <2>1. s \in [1 .. Len(s) -> Vec] /\ Len(s) \in Nat
    OBVIOUS
  <2> QED
    BY <2>1
<1> QED
  BY <1>1

LEMMA InitT == Init => TInv
PROOF
<1> SUFFICES ASSUME Init PROVE TInv
  OBVIOUS
<1>1. IInv
  BY InitInv DEF Init
<1>2. received = <<>> /\ loads = <<>> /\ app = "idle"
  BY DEF Init, StreamInit
<1>3. \E Cell : view \in Streams(Cell)
  <2>1. view \in Streams({})
    BY DEF Init, setup, Streams, size
  <2> QED
    BY <2>1
<1>4. \E Vec : loads \in Seq(Vec)
  <2>1. loads \in Seq({})
    BY <1>2
  <2> QED
    BY <2>1
<1>5. \A i \in Msgs : body[i] = Filled(vec[i], Len(body[i])) /\ Len(body[i]) \in Rooms
  <2> TAKE i \in Msgs
  <2>1. PICK room \in Rooms : body[i] = Filled(vec[i], room)
    BY DEF Init
  <2>2. Len(body[i]) = room
    BY <2>1, RoomsAssumption, FilledBytes
  <2> QED
    BY <2>1, <2>2
<1>6. AppInv
  BY <1>2, <1>3, <1>4, <1>5 DEF Init, AppInv
<1> QED
  BY <1>1, <1>2, <1>6 DEF TInv, LoadedFromSaved

LEMMA NetworkStreams == Network => StreamNext
BY DEF Network, StreamNext

\* A step of the stream leaves what it received or adds one message to it.
LEMMA OneMessage ==
    ASSUME IInv, StreamNext
    PROVE  /\ body' = body
           /\ received' = received \/ Len(received') = Len(received) + 1
PROOF
<1>1. received \in Seq(Seq(Byte))
  BY DEF IInv, TypeOK
<1>2. CASE Sender \/ Cut
  BY <1>2 DEF Sender, Cut, Send, SendFails, readerVars
<1>3. CASE Reader
  <2>1. \A m : Complete(m) => Len(received') = Len(received) + 1
    BY <1>1 DEF Complete
  <2> QED
    BY <1>3, <2>1 DEF Reader, WaitRead, TimedOut, RecvPacket, RecvBody, RecvFails, RecvSome
<1> QED
  BY <1>2, <1>3 DEF StreamNext

\* A buffer that is sent is a sequence.
LEMMA BodyBytes ==
    ASSUME AppInv, NEW i \in Msgs
    PROVE  \E Cell : body[i] \in Seq(Cell)
PROOF
<1>1. Len(body[i]) \in Nat /\ body[i] = Filled(vec[i], Len(body[i]))
  BY RoomsAssumption DEF AppInv
<1> QED
  BY <1>1, FilledBytes

LEMMA NetworkKeeps ==
    ASSUME TInv, Network
    PROVE  TInv'
PROOF
<1>1. IInv' /\ StreamNext
  BY NetworkStreams, NextInv DEF TInv
<1>2. /\ body' = body /\ vec' = vec /\ data' = data /\ loads' = loads
      /\ received' = received \/ Len(received') = Len(received) + 1
  BY <1>1, OneMessage DEF TInv, Network, appVars
<1>3. LoadedFromSaved'
  BY <1>2 DEF TInv, LoadedFromSaved
<1>4. Len(loads) \in Nat /\ received \in Seq(Seq(Byte)) /\ Len(received) \in Nat
  BY DEF TInv, AppInv, IInv, TypeOK
<1>5. CASE received' = received
  <2>1. app' = app /\ view' = view
    BY <1>5 DEF Network, appVars
  <2>2. AppInv'
    BY <1>2, <1>5, <2>1 DEF TInv, AppInv
  <2> QED
    BY <1>1, <1>3, <2>2 DEF TInv
<1>6. CASE received' # received
  <2> PICK r : r = Len(received')
    OBVIOUS
  <2>1. r = Len(received) + 1 /\ r # 0
    BY <1>2, <1>4, <1>6
  <2>2. app = "idle" /\ app' = "working" /\ view' = setup(Content(received'[r]))
    <3>1. ~((Sender \/ Cut) /\ UNCHANGED appVars)
      BY <1>6 DEF Sender, Cut, Send, SendFails, readerVars
    <3> QED
      BY <1>6, <3>1 DEF Network
  <2>3. r \in Msgs /\ received'[r] = Message(r)
    <3>1. ReceivedAsSent'
      BY <1>1 DEF IInv, ReaderInv
    <3>2. r \in 1 .. Len(received') /\ r <= Messages
      BY <1>4, <2>1, <3>1 DEF ReceivedAsSent
    <3>3. received'[r] = Message(r)
      BY <1>2, <3>1, <3>2 DEF ReceivedAsSent, Message, Total
    <3> QED
      BY <1>4, <2>1, <3>2, <3>3, MessagesAssumption DEF Msgs
  <2>4. PICK Cell : body[r] \in Seq(Cell)
    BY <2>3, BodyBytes DEF TInv
  <2>5. view' = setup(body[r])
    BY <2>2, <2>3, <2>4, ContentRight
  <2>6. view'.area = body[r] /\ view' \in Streams(Cell)
    BY <2>4, <2>5 DEF setup, Streams, size
  <2>7. AppInv'
    BY <1>2, <1>4, <2>1, <2>2, <2>6 DEF TInv, AppInv
  <2> QED
    BY <1>1, <1>3, <2>7 DEF TInv
<1> QED
  BY <1>5, <1>6

\* The application changes nothing of the stream.
LEMMA StreamKept ==
    ASSUME TInv, UNCHANGED <<streamVars, vec>>
    PROVE  IInv' /\ body' = body /\ vec' = vec /\ received' = received
BY NextInv DEF TInv, streamVars, readerVars

LEMMA LooksKeep ==
    ASSUME TInv, app = "working", UNCHANGED <<streamVars, vec, app, data, loads>>,
           NEW Cell, view' \in Streams(Cell), view'.area = view.area
    PROVE  TInv'
PROOF
<1>1. IInv' /\ body' = body /\ vec' = vec /\ received' = received
  BY StreamKept
<1>2. AppInv' /\ LoadedFromSaved'
  BY <1>1 DEF TInv, AppInv, LoadedFromSaved
<1> QED
  BY <1>1, <1>2 DEF TInv

LEMMA LoadKeeps ==
    ASSUME TInv, Load
    PROVE  TInv'
PROOF
<1> DEFINE r == Len(received)
<1>1. IInv' /\ body' = body /\ vec' = vec /\ received' = received
  BY StreamKept DEF Load
<1>2. /\ app = "working" /\ app' = "idle" /\ loads' = Append(loads, data')
      /\ view' = seekpos(view, 0, {"in"}).stream
      /\ data' \in load_from_stream(data, SubSeq(view'.area, view'.gptr + 1, size(view')))
  BY DEF Load
<1> PICK Cell : view \in Streams(Cell)
  BY DEF TInv, AppInv
<1>3. view' \in Streams(Cell) /\ view'.area = view.area /\ view'.gptr = 0
  <2>1. {"in"} \in SUBSET Directions /\ 0 \in Int
    BY DEF Directions
  <2> QED
    BY <1>2, <2>1, StreamsKept, BackToBegin
<1> PICK Vec : loads \in Seq(Vec)
  BY DEF TInv, AppInv
<1>4. view.area = body[r] /\ r # 0 /\ r = Len(loads) + 1 /\ Len(loads) \in Nat
  BY <1>2 DEF TInv, AppInv
<1>5. r \in Msgs
  BY <1>4, MessagesAssumption DEF TInv, IInv, TypeOK, ReaderInv, ReceivedAsSent, Msgs
<1>6. data' \in load_from_stream(<<>>, body[r])
  <2>1. SubSeq(view'.area, 1, size(view')) = view'.area
    BY <1>3, BackToBegin
  <2>2. view'.gptr + 1 = 1
    BY <1>3
  <2>3. data' \in load_from_stream(data, body[r])
    BY <1>2, <1>3, <1>4, <2>1, <2>2
  <2> QED
    BY <2>3 DEF load_from_stream, clear
<1>7. data' \in load_from_stream(<<>>, Filled(vec[r], Len(body[r])))
  BY <1>5, <1>6 DEF TInv, AppInv
<1> HIDE DEF r
<1>8. /\ loads' \in Seq(Vec \cup {data'}) /\ Len(loads') = r
      /\ \A i \in DOMAIN loads' : loads'[i] = IF i = r THEN data' ELSE loads[i]
      /\ \A i \in DOMAIN loads' : i # r => i \in DOMAIN loads
  BY <1>2, <1>4, Grown
<1>9. AppInv'
  BY <1>1, <1>2, <1>3, <1>8 DEF TInv, AppInv, r
<1>10. LoadedFromSaved'
  <2> SUFFICES ASSUME NEW i \in DOMAIN loads'
               PROVE  loads'[i] \in load_from_stream(<<>>, Filled(vec'[i], Len(body'[i])))
    BY DEF LoadedFromSaved
  <2>1. CASE i = r
    BY <1>1, <1>7, <1>8, <2>1
  <2>2. CASE i # r
    BY <1>1, <1>8, <2>2 DEF TInv, LoadedFromSaved
  <2> QED
    BY <2>1, <2>2
<1> QED
  BY <1>1, <1>9, <1>10 DEF TInv

LEMMA NextT == TInv /\ [Next]_vars => TInv'
PROOF
<1> SUFFICES ASSUME TInv, [Next]_vars PROVE TInv'
  OBVIOUS
<1> PICK Cell : view \in Streams(Cell)
  BY DEF TInv, AppInv
<1>1. view \in Streams(Cell)
  OBVIOUS
<1>2. CASE Network
  BY <1>2, NetworkKeeps
<1>3. CASE Get
  BY <1>1, <1>3, StreamsKept, LooksKeep DEF Get
<1>4. ASSUME NEW pos \in Offsets, NEW which \in SUBSET Directions, Seek(pos, which) PROVE TInv'
  <2>1. pos \in Int
    BY <1>1 DEF Offsets, Streams, size
  <2> QED
    BY <1>1, <1>4, <2>1, StreamsKept, LooksKeep DEF Seek
<1>5. CASE Load
  BY <1>5, LoadKeeps
<1>6. CASE UNCHANGED vars
  <2>1. UNCHANGED <<streamVars, vec, appVars>>
    BY <1>6 DEF vars
  <2>2. IInv' /\ body' = body /\ vec' = vec /\ received' = received
    BY <2>1, StreamKept
  <2>3. AppInv' /\ LoadedFromSaved'
    BY <2>1, <2>2 DEF TInv, AppInv, LoadedFromSaved, appVars
  <2> QED
    BY <2>2, <2>3 DEF TInv
<1> QED
  BY <1>2, <1>3, <1>4, <1>5, <1>6 DEF Next

\* What the application has, and what it has loaded, belong to the messages received.
THEOREM TransferInvariant == Spec => []TInv
BY InitT, NextT, PTL DEF Spec

\* The application adds nothing to the stream below it: whatever holds of StreamSpec
\* (ReceivedAsSent, StartsAtItem, KeepsItems) holds of two applications that use it.
THEOREM TransferIsStream == Spec => StreamSpec
PROOF
<1>1. Init => StreamInit
  BY DEF Init
<1>2. [Next]_vars => [StreamNext]_streamVars
  BY NetworkStreams DEF Next, Get, Seek, Load, vars
<1> QED
  BY <1>1, <1>2, PTL DEF Spec, StreamSpec

\* Wherever the application has got to in a buffer it received, every seek is exact.
THEOREM SeeksAreExact == Spec => []SeekExact
PROOF
<1>1. TInv => SeekExact
  <2> SUFFICES ASSUME TInv, NEW which \in SUBSET Directions, NEW way \in Ways, NEW off \in Offsets
               PROVE  SeekIsExact(view, off, way, which)
    BY DEF SeekExact
  <2>1. PICK Cell : view \in Streams(Cell)
    BY DEF TInv, AppInv
  <2>2. off \in Int
    BY <2>1 DEF Offsets, Streams, size
  <2> QED
    BY <2>1, <2>2, SeeksExact
<1> QED
  BY <1>1, TransferInvariant, PTL

\* From the PlainData of one application to that of the other, in pieces over any kernel:
\* each vector is loaded from the very bytes its message was saved into, by an object that
\* holds nothing of the one before (save_to_stream, Socket, data_function, seekg,
\* load_from_stream).
THEOREM LoadsWhatWasSent == Spec => []LoadedFromSaved
PROOF
<1>1. TInv => LoadedFromSaved
  BY DEF TInv
<1> QED
  BY <1>1, TransferInvariant, PTL

\* So numbers arrive over a connection as they come back within one process: what holds of
\* saving and loading the vectors and sizes of buffers in use holds of what was sent.
COROLLARY NumbersArrive ==
    ASSUME \A v \in Vectors, room \in Rooms :
             \A x \in load_from_stream(<<>>, Filled(v, room)) : AsSaved(x, v, room)
    PROVE  Spec => []LoadedAsSaved
PROOF
<1>1. TInv => LoadedAsSaved
  <2> SUFFICES ASSUME TInv, NEW i \in DOMAIN loads PROVE AsSaved(loads[i], vec[i], Len(body[i]))
    BY DEF LoadedAsSaved
  <2>1. i \in Msgs
    <3>1. PICK Vec : loads \in Seq(Vec)
      BY DEF TInv, AppInv
    <3>2. i \in 1 .. Len(loads) /\ Len(loads) \in Nat /\ Len(received) \in Nat
      BY <3>1 DEF TInv, IInv, TypeOK
    <3>3. Len(loads) <= Len(received) /\ Len(received) <= Messages
      BY <3>2 DEF TInv, AppInv, IInv, ReaderInv, ReceivedAsSent
    <3> QED
      BY <3>2, <3>3, MessagesAssumption DEF Msgs
  <2>2. vec[i] \in Vectors /\ Len(body[i]) \in Rooms
    BY <2>1 DEF TInv, AppInv
  <2> QED
    BY <2>2 DEF TInv, LoadedFromSaved
<1> QED
  BY <1>1, TransferInvariant, PTL

=============================================================================
