---------------------------- MODULE BufferStream ----------------------------
(***************************************************************************)
(* BufferStream (stdsc_buffer.cpp): the bytes of a Buffer as a              *)
(* std::streambuf with a get area and a put area over the same bytes, and   *)
(* seeks in one of them or in both. Pointers are offsets from the begin of  *)
(* the area; -1 is what a failed seek returns.                              *)
(***************************************************************************)
EXTENDS Integers, Sequences

Directions == {"in", "out"}
Ways == {"beg", "cur", "end"}

\* Both areas are the whole buffer, both positions its begin.
setup(bytes) == [area |-> bytes, gptr |-> 0, pptr |-> 0]

size(stream) == Len(stream.area)

\* std::streambuf::sputn: what does not fit is not written.
sputn(stream, bytes) ==
    LET room == size(stream) - stream.pptr
        n == IF Len(bytes) < room THEN Len(bytes) ELSE room
    IN  [stream EXCEPT !.pptr = @ + n,
                       !.area = [k \in DOMAIN @ |-> IF k - stream.pptr \in 1 .. n
                                                    THEN bytes[k - stream.pptr] ELSE @[k]]]

\* std::streambuf::sbumpc: the position moves on unless it is at the end.
sbumpc(stream) == IF stream.gptr < size(stream) THEN [stream EXCEPT !.gptr = @ + 1] ELSE stream

\* pos_in_base or pos_out_base; ptr is the position of that direction. The end counts
\* as the last byte, not as the place behind it.
Base(stream, ptr, off, way) ==
    CASE way = "end" -> size(stream) + off - 1
      [] way = "cur" -> ptr + off
      [] way = "beg" -> off

\* A position is a byte of the buffer: the end of the area is not one.
Inside(stream, pos) == 0 <= pos /\ pos < size(stream)

\* -1 is returned: no direction, both relative to their own positions, a place that
\* is no byte, or two different places.
Refused(stream, off, way, which) ==
    LET place(ptr) == Base(stream, ptr, off, way)
    IN  \/ which = {}
        \/ which = Directions /\ (way = "cur" \/ place(stream.gptr) # place(stream.pptr))
        \/ "in" \in which /\ ~Inside(stream, place(stream.gptr))
        \/ "out" \in which /\ ~Inside(stream, place(stream.pptr))

\* Mutant of seekoff: the get area is moved before the put area is looked at.
seekoffEager(stream, off, way, which) ==
    LET in  == Base(stream, stream.gptr, off, way)
        out == Base(stream, stream.pptr, off, way)
        moved == [stream EXCEPT !.gptr = IF "in" \in which /\ Inside(stream, in) THEN in ELSE @]
    IN  IF Refused(stream, off, way, which)
        THEN [pos |-> -1, stream |-> moved]
        ELSE [pos |-> IF "in" \in which THEN in ELSE out,
              stream |-> [moved EXCEPT !.pptr = IF "out" \in which THEN out ELSE @]]

seekoff(stream, off, way, which) ==
    LET in  == Base(stream, stream.gptr, off, way)
        out == Base(stream, stream.pptr, off, way)
    IN  IF Refused(stream, off, way, which)
        THEN [pos |-> -1, stream |-> stream]
        ELSE [pos |-> IF "in" \in which THEN in ELSE out,
              stream |-> [stream EXCEPT !.gptr = IF "in" \in which THEN in ELSE @,
                                        !.pptr = IF "out" \in which THEN out ELSE @]]

seekpos(stream, pos, which) == seekoff(stream, pos, "beg", which)

-----------------------------------------------------------------------------

Streams(Cell) == {s \in [area : Seq(Cell), gptr : Nat, pptr : Nat] :
                    s.gptr <= size(s) /\ s.pptr <= size(s)}

\* A seek that fails moves nothing. One that succeeds moves what it was asked to move,
\* both positions to the same byte, to the place it returns. A position that was told
\* can be returned to after any other seek.
SeekIsExact(stream, off, way, which) ==
    LET sought == seekoff(stream, off, way, which)
        told == seekoff(stream, 0, "cur", which).pos
    IN  /\ sought.pos = -1 => sought.stream = stream
        /\ sought.pos # -1 =>
            /\ Inside(stream, sought.pos)
            /\ sought.stream = [stream EXCEPT !.gptr = IF "in" \in which THEN sought.pos ELSE @,
                                              !.pptr = IF "out" \in which THEN sought.pos ELSE @]
        /\ told # -1 => seekpos(sought.stream, told, which).stream = stream

=============================================================================
