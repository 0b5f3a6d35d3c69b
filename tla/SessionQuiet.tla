--------------------------- MODULE SessionQuiet ----------------------------
(***************************************************************************)
(* Session with a history variable: no fault has happened yet. What the     *)
(* code guarantees only without faults is checked, and proved, of the       *)
(* behaviours with faults until the first one.                              *)
(***************************************************************************)
EXTENDS Session

VARIABLE quiet

QuietInit == Init /\ quiet = TRUE

QuietNext ==
    \/ Proceed /\ quiet' = quiet
    \/ Fault /\ quiet' = FALSE

QuietSpec == QuietInit /\ [][QuietNext]_<<vars, quiet>>

QuietFairSpec ==
    /\ QuietSpec
    /\ \A t \in Threads : WF_vars(ClientStep(t))
    /\ WF_vars(ServerStep)

\* A close waits for the exchange under way: before the first fault no process dies of
\* SIGPIPE and no call is lost that was executed.
CloseLosesNothing == quiet => NothingLost

=============================================================================
