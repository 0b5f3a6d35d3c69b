----------------------------- MODULE Container -----------------------------
(***************************************************************************)
(* CallbackFunctionContainer::Impl::eval on several threads at once: the    *)
(* map of common data. One container serves all connections, each on a      *)
(* thread of its own, and nothing protects cdatamap_.                       *)
(*                                                                          *)
(* An unordered_map keeps its elements in a list of nodes; an insertion     *)
(* reads the head of the list and then makes its node the head. Of what a   *)
(* data race may do, this is the mildest: a node linked between the two     *)
(* steps of another thread is lost. A node stays where it is, so a pointer  *)
(* into it remains good. The data of a connection is the number of its      *)
(* evaluations that have worked on it. Two connections are enough: of more, *)
(* an old node could come back, which this module does not tell from the    *)
(* new one.                                                                 *)
(***************************************************************************)
EXTENDS Naturals

CONSTANTS
    Conns,        \* connections, each with a descriptor and a thread of its own
    None,         \* no data: nullptr
    MaxEvals      \* bound on the evaluations of a connection

VARIABLES
    registered,   \* whether cdata_on_each_ was set
    linked,       \* the connections whose node is in the list
    node,         \* the data in the last node of a connection
    phase,        \* what the thread of a connection does next
    head,         \* the list as an insertion found it
    given,        \* what the callback is given
    evals         \* history: evaluations that have ended

vars == <<registered, linked, node, phase, head, given, evals>>

\* set_commondata is called, or not, before the server starts.
Init ==
    /\ registered \in BOOLEAN
    /\ linked = {}
    /\ node = [c \in Conns |-> None]
    /\ phase = [c \in Conns |-> "idle"]
    /\ head = [c \in Conns |-> {}]
    /\ given = [c \in Conns |-> None]
    /\ evals = [c \in Conns |-> 0]

\* operator[] is used only if there are common data.
AfterEmplace == IF registered THEN "looking" ELSE "calling"

\* emplace begins: nothing is to be done if the key is there.
Emplace(c) ==
    /\ phase[c] = "idle" /\ evals[c] < MaxEvals
    /\ phase' = [phase EXCEPT ![c] = IF c \in linked THEN AfterEmplace ELSE "emplacing"]
    /\ head' = [head EXCEPT ![c] = linked]
    /\ given' = [given EXCEPT ![c] = None]
    /\ UNCHANGED <<registered, linked, node, evals>>

\* emplace ends: the node, with a copy of cdata_on_each_, goes before those that were
\* there when it began.
Link(c) ==
    /\ phase[c] = "emplacing"
    /\ linked' = head[c] \cup {c}
    /\ node' = [node EXCEPT ![c] = IF registered THEN 0 ELSE None]
    /\ phase' = [phase EXCEPT ![c] = AfterEmplace]
    /\ UNCHANGED <<registered, head, given, evals>>

\* operator[] finds the node, or begins to insert one.
LookUp(c) ==
    /\ phase[c] = "looking"
    /\ IF c \in linked
       THEN /\ given' = [given EXCEPT ![c] = node[c]]
            /\ phase' = [phase EXCEPT ![c] = "calling"]
            /\ UNCHANGED head
       ELSE /\ head' = [head EXCEPT ![c] = linked]
            /\ phase' = [phase EXCEPT ![c] = "inserting"]
            /\ UNCHANGED given
    /\ UNCHANGED <<registered, linked, node, evals>>

\* The node is linked; it holds an empty vector, whose data() is a null pointer.
LinkEmpty(c) ==
    /\ phase[c] = "inserting"
    /\ linked' = head[c] \cup {c}
    /\ node' = [node EXCEPT ![c] = None]
    /\ phase' = [phase EXCEPT ![c] = "calling"]
    /\ UNCHANGED <<registered, head, given, evals>>

\* The callback works on its data; it takes a null pointer for them as well, which ends
\* the process.
Call(c) ==
    /\ phase[c] = "calling"
    /\ registered => given[c] # None
    /\ node' = IF registered THEN [node EXCEPT ![c] = given[c] + 1] ELSE node
    /\ evals' = [evals EXCEPT ![c] = @ + 1]
    /\ phase' = [phase EXCEPT ![c] = "idle"]
    /\ UNCHANGED <<registered, linked, head, given>>

Next == \E c \in Conns : Emplace(c) \/ Link(c) \/ LookUp(c) \/ LinkEmpty(c) \/ Call(c)

Spec == Init /\ [][Next]_vars

-----------------------------------------------------------------------------

\* "Common data on each connection": a callback is given the data of its connection, as
\* the last evaluation on this connection has left it.
FindsItsData ==
    \A c \in Conns : registered /\ phase[c] = "calling" => given[c] = evals[c]

=============================================================================
