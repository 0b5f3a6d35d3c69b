----------------------------- MODULE MCTransfer -----------------------------
(***************************************************************************)
(* Instances of Transfer for TLC.                                           *)
(***************************************************************************)
EXTENDS Transfer

MCVectors == {<<>>, <<1>>, <<12>>}
MCBodies == {Filled(v, room) : v \in Vectors, room \in Rooms}

\* Saving and loading alone: vectors of numbers of one to three digits and of a length of
\* two digits, in buffers of every size up to one that is too large.
SavedVectors == UNION {[1 .. n -> {0, 7, 10, 129}] : n \in 0 .. 2} \cup {[k \in 1 .. 10 |-> k]}

ASSUME RoundTripAssumption ==
    \A v \in SavedVectors : \A room \in 0 .. stream_size(v) + 2 :
        \A x \in load_from_stream(<<>>, Filled(v, room)) : AsSaved(x, v, room)

=============================================================================
