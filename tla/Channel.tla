------------------------------ MODULE Channel ------------------------------
(***************************************************************************)
(* What one direction of a connection promises to the two programs: items   *)
(* arrive whole, once and in the order in which they were sent, until the   *)
(* connection is cut, and then a prefix of what was on its way arrives.     *)
(* This is what Session assumes of its two streams.                         *)
(*                                                                          *)
(* An item is a number, greater than that of every item sent before it; so  *)
(* a set of items on their way says all that a queue of them would.         *)
(***************************************************************************)
EXTENDS Naturals

VARIABLES
    items,              \* the items to be sent
    put,                \* the last one that was handed to the connection, or 0
    queue,              \* those on their way
    taken,              \* those received
    up                  \* whether the connection is up

vars == <<items, put, queue, taken, up>>

Init ==
    /\ items \subseteq Nat \ {0}
    /\ put = 0 /\ queue = {} /\ taken = {} /\ up = TRUE

\* The next item is sent; on a connection that was cut it is dropped.
Put ==
    \E n \in items :
        /\ put < n
        /\ \A m \in items : put < m => n <= m
        /\ put' = n
        /\ queue' = IF up THEN queue \cup {n} ELSE queue
        /\ UNCHANGED <<items, taken, up>>

\* The item that was sent first arrives.
Take ==
    \E n \in queue :
        /\ \A m \in queue : n <= m
        /\ taken' = taken \cup {n}
        /\ queue' = queue \ {n}
        /\ UNCHANGED <<items, put, up>>

\* With an item, all those before it are still to come.
Cut ==
    /\ up
    /\ up' = FALSE
    /\ queue' \subseteq queue
    /\ \A n \in queue', m \in queue : m < n => m \in queue'
    /\ UNCHANGED <<items, put, taken>>

Next == Put \/ Take \/ Cut

Spec == Init /\ [][Next]_vars

=============================================================================
