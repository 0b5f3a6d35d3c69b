---------------------------- MODULE MCConnecting ----------------------------
(***************************************************************************)
(* An instance of Connecting for TLC.                                       *)
(***************************************************************************)
EXTENDS Connecting, TLC

\* Half a second, the default, two seconds.
ThreeIntervals == {500000, 1000000, 2000000}
\* No attempt at all, one, two.
ThreeTimeouts == 0 .. 2

=============================================================================
