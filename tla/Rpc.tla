-------------------------------- MODULE Rpc --------------------------------
(***************************************************************************)
(* What one connection of stdsc promises to the threads that share a Client *)
(* object: calls are made one at a time, each is executed at most once and  *)
(* in the order of issue, an acknowledgement tells the truth about the      *)
(* execution of the very call it answers, and a call that was lost is the   *)
(* last one the server can execute.                                         *)
(*                                                                          *)
(* A call is its number. status is what the server did with it, outcome is  *)
(* what its caller was told.                                                *)
(***************************************************************************)
EXTENDS Naturals

CONSTANT MaxCalls                       \* bound on the calls issued

VARIABLES issued, status, outcome

vars == <<issued, status, outcome>>

Calls    == 1 .. MaxCalls
Statuses == {"none", "ran", "refused", "ignored", "aborted"}
Outcomes == {"none", "accepted", "rejected", "lost"}
Answered == {"accepted", "rejected"}

TypeOK ==
    /\ issued \in 0 .. MaxCalls
    /\ status \in [Calls -> Statuses]
    /\ outcome \in [Calls -> Outcomes]

Init ==
    /\ issued = 0
    /\ status = [i \in Calls |-> "none"]
    /\ outcome = [i \in Calls |-> "none"]

\* A caller starts a call: every earlier one has come back.
Issue ==
    /\ issued < MaxCalls
    /\ \A i \in 1 .. issued : outcome[i] # "none"
    /\ issued' = issued + 1
    /\ UNCHANGED <<status, outcome>>

\* The server executes call i: once, and only if all earlier ones were answered.
Serve(i) ==
    /\ i <= issued
    /\ status[i] = "none"
    /\ \A j \in 1 .. (i - 1) : outcome[j] \in Answered
    /\ \E s \in Statuses \ {"none"} : status' = [status EXCEPT ![i] = s]
    /\ UNCHANGED <<issued, outcome>>

\* The caller of i gets control back.
Return(i) ==
    /\ i <= issued
    /\ outcome[i] = "none"
    /\ \E o \in Outcomes \ {"none"} :
        /\ o = "accepted" => status[i] \in {"ran", "ignored"}
        /\ o = "rejected" => status[i] = "refused"
        /\ outcome' = [outcome EXCEPT ![i] = o]
    /\ UNCHANGED <<issued, status>>

Next == Issue \/ \E i \in Calls : Serve(i) \/ Return(i)

Spec == Init /\ [][Next]_vars

=============================================================================
