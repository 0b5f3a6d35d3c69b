------------------------------ MODULE Blocking ------------------------------
(***************************************************************************)
(* The blocking calls of a Client (send_request_blocking and its siblings,  *)
(* stdsc_client.cpp): a call is repeated as long as the server rejects it,  *)
(* at most calc_retry_count times. Several run at once, on the threads that *)
(* share the client. The connection under them is Rpc, which Session        *)
(* implements.                                                              *)
(*                                                                          *)
(* An operation of this module is one blocking call; it makes calls of Rpc. *)
(***************************************************************************)
EXTENDS Retry

CONSTANTS
    Ops,         \* blocking calls, each made by a thread of its own
    NoOp,        \* the call was not made yet
    Intervals,   \* values of retry_interval_usec
    Timeouts,    \* values of timeout_sec
    MaxCalls     \* bound on the attempts of all operations together

ASSUME OpsAssumption == NoOp \notin Ops
ASSUME TimesAssumption ==
    Intervals \subseteq Nat /\ Timeouts \subseteq Nat /\ Intervals # {} /\ Timeouts # {}
ASSUME MaxCallsAssumption == MaxCalls \in Nat

VARIABLES
    issued, status, outcome,  \* the connection, see Rpc
    phase,       \* where each operation is in its loop
    option,      \* its arguments
    retry,       \* its local variable retry_count
    current,     \* its latest attempt
    slept,       \* history: for how long it has slept, in microseconds
    by           \* history: whose attempt each call is

wireVars == <<issued, status, outcome>>
vars == <<wireVars, phase, option, retry, current, slept, by>>

Wire == INSTANCE Rpc

Calls  == 1 .. MaxCalls
Option == [interval : Intervals, timeout : Timeouts]

max_retry_count(op) == calc_retry_count(option[op].timeout, option[op].interval)

\* "loop": at the condition of the while loop; "call": in send_request or a
\* sibling; "done": it has returned; "timeout": it has thrown.
Phases == {"idle", "loop", "call", "done", "timeout"}

TypeOK ==
    /\ Wire!TypeOK
    /\ phase \in [Ops -> Phases]
    /\ option \in [Ops -> Option]
    /\ retry \in [Ops -> Nat]
    /\ current \in [Ops -> 0 .. MaxCalls]
    /\ slept \in [Ops -> Nat]
    /\ by \in [Calls -> Ops \cup {NoOp}]

Init ==
    /\ Wire!Init
    /\ phase = [op \in Ops |-> "idle"]
    /\ option \in [Ops -> Option]
    /\ retry = [op \in Ops |-> 0]
    /\ current = [op \in Ops |-> 0]
    /\ slept = [op \in Ops |-> 0]
    /\ by = [i \in Calls |-> NoOp]

\* A thread makes a blocking call, with the arguments option.
Begin(op) ==
    /\ phase[op] = "idle"
    /\ phase' = [phase EXCEPT ![op] = "loop"]
    /\ UNCHANGED <<wireVars, option, retry, current, slept, by>>

\* The loop goes round: the call is made. It waits for the mutex in Issue.
Attempt(op) ==
    /\ phase[op] = "loop"
    /\ max_retry_count(op) > retry[op]
    /\ Wire!Issue
    /\ phase' = [phase EXCEPT ![op] = "call"]
    /\ current' = [current EXCEPT ![op] = issued']
    /\ by' = [by EXCEPT ![issued'] = op]
    /\ UNCHANGED <<option, retry, slept>>

\* The server executes a call.
Execute == \E i \in Calls : Wire!Serve(i) /\ UNCHANGED <<phase, option, retry, current, slept, by>>

\* Mutant of Succeed: is_success is not set.
SucceedUnnoticed(op) ==
    /\ phase[op] = "call"
    /\ Wire!Return(current[op])
    /\ outcome'[current[op]] \in {"accepted", "lost"}
    /\ phase' = [phase EXCEPT ![op] = "loop"]
    /\ UNCHANGED <<option, retry, current, slept, by>>

\* The call returns: it was accepted, or its SocketException was swallowed.
Succeed(op) ==
    /\ phase[op] = "call"
    /\ Wire!Return(current[op])
    /\ outcome'[current[op]] \in {"accepted", "lost"}
    /\ phase' = [phase EXCEPT ![op] = "done"]
    /\ UNCHANGED <<option, retry, current, slept, by>>

\* Mutant of Reject: the attempt is not counted.
RejectUncounted(op) ==
    /\ phase[op] = "call"
    /\ Wire!Return(current[op])
    /\ outcome'[current[op]] = "rejected"
    /\ phase' = [phase EXCEPT ![op] = "loop"]
    /\ slept' = [slept EXCEPT ![op] = @ + option[op].interval]
    /\ UNCHANGED <<option, retry, current, by>>

\* Mutant of Reject: retry_count is decreased.
RejectCountingDown(op) ==
    /\ phase[op] = "call"
    /\ Wire!Return(current[op])
    /\ outcome'[current[op]] = "rejected"
    /\ phase' = [phase EXCEPT ![op] = "loop"]
    /\ retry' = [retry EXCEPT ![op] = @ - 1]
    /\ slept' = [slept EXCEPT ![op] = @ + option[op].interval]
    /\ UNCHANGED <<option, current, by>>

\* Mutant of Reject: an attempt is also retried when the connection fails.
RejectOrLost(op) ==
    /\ phase[op] = "call"
    /\ Wire!Return(current[op])
    /\ outcome'[current[op]] \in {"rejected", "lost"}
    /\ phase' = [phase EXCEPT ![op] = "loop"]
    /\ retry' = [retry EXCEPT ![op] = @ + 1]
    /\ slept' = [slept EXCEPT ![op] = @ + option[op].interval]
    /\ UNCHANGED <<option, current, by>>

\* RejectException: the attempt is counted, the thread sleeps.
Reject(op) ==
    /\ phase[op] = "call"
    /\ Wire!Return(current[op])
    /\ outcome'[current[op]] = "rejected"
    /\ phase' = [phase EXCEPT ![op] = "loop"]
    /\ retry' = [retry EXCEPT ![op] = @ + 1]
    /\ slept' = [slept EXCEPT ![op] = @ + option[op].interval]
    /\ UNCHANGED <<option, current, by>>

\* Mutant of Expire: an attempt too many is waited for.
ExpireLate(op) ==
    /\ phase[op] = "loop"
    /\ retry[op] > max_retry_count(op)
    /\ phase' = [phase EXCEPT ![op] = "timeout"]
    /\ UNCHANGED <<wireVars, option, retry, current, slept, by>>

\* The loop ends without success: SocketException, "time out".
Expire(op) ==
    /\ phase[op] = "loop"
    /\ ~(max_retry_count(op) > retry[op])
    /\ phase' = [phase EXCEPT ![op] = "timeout"]
    /\ UNCHANGED <<wireVars, option, retry, current, slept, by>>

Continue(op) == Attempt(op) \/ Succeed(op) \/ Reject(op) \/ Expire(op)

Next == Execute \/ \E op \in Ops : Begin(op) \/ Continue(op)

Spec == Init /\ [][Next]_vars

\* Threads run, and a call of the connection returns (CallReturns of Session).
FairSpec == Spec /\ \A op \in Ops : WF_vars(Continue(op))

-----------------------------------------------------------------------------

\* What the server did with a call that is not a refusal.
HasEffect(i) == status[i] \in {"ran", "ignored", "aborted"}

\* However often it is repeated, a blocking call takes effect at most once.
AtMostOneEffect ==
    \A i, j \in Calls :
        by[i] \in Ops /\ by[i] = by[j] /\ HasEffect(i) /\ HasEffect(j) => i = j

\* A caller told that its call has timed out can rely on the call having had no
\* effect, now and later: the server refused every attempt.
TimeoutHasNoEffect ==
    \A op \in Ops, i \in Calls :
        phase[op] = "timeout" /\ by[i] = op => status[i] = "refused"

\* The time slept stays below the timeout but for the fractions of a second that
\* calc_retry_count drops from the interval.
SleepBounded ==
    \A op \in Ops :
        LET T == option[op].timeout
            n == option[op].interval
        IN  slept[op] <= IF n < Second THEN n ELSE T * (Second + (n % Second))

\* A blocking call ends: it returns or throws.
BlockingReturns == \A op \in Ops : phase[op] = "loop" ~> phase[op] \in {"done", "timeout"}

\* What the message "time out" says: the timeout, or all but one interval of it,
\* has gone by.
TimeoutElapsed ==
    \A op \in Ops :
        phase[op] = "timeout" => slept[op] + option[op].interval > option[op].timeout * Second

=============================================================================
