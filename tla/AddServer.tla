----------------------------- MODULE AddServer -----------------------------
(***************************************************************************)
(* The example server add_server, used by several clients at once as in     *)
(* multi_client, whose server has the same states: it receives two values,  *)
(* adds them on request and answers with the sum. That of multi_client is   *)
(* sent the sum the client expects, and answers whether it is the same.     *)
(*                                                                          *)
(* Each connection has a thread, values of its own (CallbackParam in the    *)
(* common data on each connection) and a StateContext of its own. But a     *)
(* StateContext is a pointer: all of them begin with the StateInit object   *)
(* of main, whose two flags they share, set and test without a lock. Later  *)
(* states are objects of one connection and carry no data.                  *)
(***************************************************************************)
EXTENDS Naturals

CONSTANTS
    Conns,       \* connections
    Scripted,    \* those of the example client; the others send what they like
    Values,      \* values that clients send
    Modulus      \* 2^32: values and sums are of type uint32_t

ASSUME ScriptedAssumption == Scripted \subseteq Conns
ASSUME ModulusAssumption == Modulus \in Nat \ {0, 1}
ASSUME ValuesAssumption == Values \subseteq 0 .. (Modulus - 1)

VARIABLES
    state,     \* the State each StateContext points to
    flags,     \* is_received_valueA_ and is_received_valueB_ of the one StateInit
    testing,   \* connections inside StateInit::set, a flag set and not yet tested
    param,     \* CallbackParam of each connection
    compares,  \* whether the example is multi_client, which compares sums
    want,      \* what a scripted client is going to send
    pc,        \* where it is in its script
    result,    \* the sum, or the verdict, that was downloaded last
    refused,   \* history: connections that were answered by Reject
    given      \* which values were received on each connection

clientVars == <<compares, want, pc>>
historyVars == <<refused, given>>
vars == <<state, flags, testing, param, clientVars, result, historyVars>>

Kinds == {"valueA", "valueB"}
States == {"Init", "Ready", "Computed"}
Words == 0 .. (Modulus - 1)
Param == [valueA : Words, valueB : Words, sum : Words]
Script == {"valueA", "valueB", "compute", "result", "done"}

\* Mutant of Plus: the sum has room for a carry.
PlusWide(a, b) == a + b

\* Addition of uint32_t.
Plus(a, b) == (a + b) % Modulus

TypeOK ==
    /\ state \in [Conns -> States]
    /\ flags \in [Kinds -> BOOLEAN]
    /\ testing \subseteq Conns
    /\ param \in [Conns -> Param]
    /\ compares \in BOOLEAN
    /\ want \in [Scripted -> [Kinds -> Values]]
    /\ pc \in [Scripted -> Script]
    /\ result \in [Conns -> Words]
    /\ refused \subseteq Conns
    /\ given \in [Conns -> SUBSET Kinds]

\* main: the CallbackParam handed to set_commondata was never initialised.
Init ==
    /\ state = [c \in Conns |-> "Init"]
    /\ flags = [k \in Kinds |-> FALSE]
    /\ testing = {}
    /\ \E junk \in Param : param = [c \in Conns |-> junk]
    /\ compares \in BOOLEAN
    /\ want \in [Scripted -> [Kinds -> Values]]
    /\ pc = [c \in Scripted |-> "valueA"]
    /\ result = [c \in Conns |-> 0]
    /\ refused = {}
    /\ given = [c \in Conns |-> {}]

-----------------------------------------------------------------------------

\* The thread of c is about to evaluate a packet of this kind: it is not in a
\* callback, and a scripted client has got as far as that.
Turn(c, what) == c \notin testing /\ (c \in Scripted => pc[c] = what)

\* The client of c was answered by Accept.
Advance(c, what) == pc' = IF c \in Scripted THEN [pc EXCEPT ![c] = what] ELSE pc

\* StateContext::next_state
next_state(c, s) == state' = [state EXCEPT ![c] = s]

\* StateReady::set and StateComputed::set: the state that follows s at an event.
After(s, event) ==
    CASE s = "Ready" /\ event = "compute"  -> "Computed"
      [] s = "Computed" /\ event \in Kinds -> "Ready"
      [] OTHER -> s

\* Mutant of Receive: the values are common data on all connections.
ReceiveForAll(c, k, v) ==
    /\ Turn(c, k)
    /\ c \in Scripted => v = want[c][k]
    /\ param' = [d \in Conns |-> [param[d] EXCEPT ![k] = v]]
    /\ IF state[c] = "Init"
       THEN flags' = [flags EXCEPT ![k] = TRUE] /\ testing' = testing \cup {c} /\ state' = state
       ELSE next_state(c, After(state[c], k)) /\ UNCHANGED <<flags, testing>>
    /\ Advance(c, IF k = "valueA" THEN "valueB" ELSE "compute")
    /\ given' = [given EXCEPT ![c] = @ \cup {k}]
    /\ UNCHANGED <<compares, want, result, refused>>

\* Mutant of Receive: StateComputed ignores a new value.
ReceiveIgnored(c, k, v) ==
    /\ Turn(c, k)
    /\ c \in Scripted => v = want[c][k]
    /\ param' = [param EXCEPT ![c][k] = v]
    /\ IF state[c] = "Init"
       THEN flags' = [flags EXCEPT ![k] = TRUE] /\ testing' = testing \cup {c} /\ state' = state
       ELSE UNCHANGED <<state, flags, testing>>
    /\ Advance(c, IF k = "valueA" THEN "valueB" ELSE "compute")
    /\ given' = [given EXCEPT ![c] = @ \cup {k}]
    /\ UNCHANGED <<compares, want, result, refused>>

\* CallbackFunctionForValueA and ...ValueB, which no state refuses: the value is
\* stored; StateInit sets its flag, StateReady stays, StateComputed becomes StateReady.
Receive(c, k, v) ==
    /\ Turn(c, k)
    /\ c \in Scripted => v = want[c][k]
    /\ param' = [param EXCEPT ![c][k] = v]
    /\ IF state[c] = "Init"
       THEN flags' = [flags EXCEPT ![k] = TRUE] /\ testing' = testing \cup {c} /\ state' = state
       ELSE next_state(c, After(state[c], k)) /\ UNCHANGED <<flags, testing>>
    /\ Advance(c, IF k = "valueA" THEN "valueB" ELSE "compute")
    /\ given' = [given EXCEPT ![c] = @ \cup {k}]
    /\ UNCHANGED <<compares, want, result, refused>>

\* What the thread of c may read of the flags. They are plain bools: one that another
\* thread has set (and c has not) need not be visible to it yet.
Readings(c) ==
    {seen \in [Kinds -> BOOLEAN] :
        \A k \in Kinds : /\ seen[k] => flags[k]
                         /\ flags[k] /\ k \in given[c] => seen[k]}

\* Mutant of TestFlags: the flags are consumed by the connection that finds them set.
TestAndReset(c) ==
    /\ c \in testing
    /\ testing' = testing \ {c}
    /\ \E seen \in Readings(c) :
        IF seen["valueA"] /\ seen["valueB"]
        THEN next_state(c, "Ready") /\ flags' = [k \in Kinds |-> FALSE]
        ELSE UNCHANGED <<state, flags>>
    /\ UNCHANGED <<param, clientVars, result, historyVars>>

\* The end of StateInit::set.
TestFlags(c) ==
    /\ c \in testing
    /\ testing' = testing \ {c}
    /\ \E seen \in Readings(c) :
        next_state(c, IF seen["valueA"] /\ seen["valueB"] THEN "Ready" ELSE state[c])
    /\ UNCHANGED <<flags, param, clientVars, result, historyVars>>

\* CallbackFunctionForComputeRequest; StateReady becomes StateComputed.
Compute(c) ==
    /\ Turn(c, "compute")
    /\ state[c] # "Init"
    /\ param' = [param EXCEPT ![c].sum = Plus(param[c].valueA, param[c].valueB)]
    /\ next_state(c, After(state[c], "compute"))
    /\ Advance(c, "result")
    /\ UNCHANGED <<flags, testing, compares, want, result, historyVars>>

\* The sum that the client of c expects: it adds the values it is going to send.
Expected(c) == Plus(want[c]["valueA"], want[c]["valueB"])

\* The answer to a result request: 1 and 0 stand for true and false.
Answer(c, expected) ==
    IF compares THEN (IF param[c].sum = expected THEN 1 ELSE 0) ELSE param[c].sum

\* CallbackFunctionForResultRequest: no state looks at its event.
Result(c, expected) ==
    /\ Turn(c, "result")
    /\ c \in Scripted => expected = Expected(c)
    /\ state[c] = "Computed"
    /\ result' = [result EXCEPT ![c] = Answer(c, expected)]
    /\ Advance(c, "done")
    /\ UNCHANGED <<state, flags, testing, param, compares, want, historyVars>>

\* CallbackException: the state is too early for the request. The blocking client
\* sends it again.
Refuse(c) ==
    /\ \/ Turn(c, "compute") /\ state[c] = "Init"
       \/ Turn(c, "result") /\ state[c] # "Computed"
    /\ refused' = refused \cup {c}
    /\ UNCHANGED <<state, flags, testing, param, clientVars, result, given>>

Step(c) ==
    \/ \E k \in Kinds, v \in Values : Receive(c, k, v)
    \/ \E expected \in Words : Result(c, expected)
    \/ TestFlags(c) \/ Compute(c) \/ Refuse(c)

Next == \E c \in Conns : Step(c)

Spec == Init /\ [][Next]_vars

\* The threads of connections run; the example client goes through its script.
FairSpec == Spec /\ \A c \in Scripted : WF_vars(Step(c))

-----------------------------------------------------------------------------

\* The example client gets the sum of the values it has sent, or is told that it is the
\* one it expects, whatever other connections do to the flags and send themselves.
ResultTrue ==
    \A c \in Scripted : pc[c] = "done" => result[c] = IF compares THEN 1 ELSE Expected(c)

\* A result that may be downloaded is the sum of the values the connection has now,
\* not of earlier ones.
SumCurrent ==
    \A c \in Conns :
        state[c] = "Computed" => param[c].sum = Plus(param[c].valueA, param[c].valueB)

\* The example client is never refused, although the flags are set by everybody.
ScriptNeverRefused == refused \cap Scripted = {}

\* It ends.
ScriptEnds == \A c \in Scripted : pc[c] = "valueA" ~> pc[c] = "done"

=============================================================================
