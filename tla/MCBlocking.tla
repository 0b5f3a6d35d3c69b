----------------------------- MODULE MCBlocking -----------------------------
(***************************************************************************)
(* Instances of Blocking for TLC.                                           *)
(***************************************************************************)
EXTENDS Blocking, TLC

\* Half a second, the default, one and a half, two seconds.
FourIntervals == {500000, 1000000, 1500000, 2000000}
\* Shorter than an interval, equal to some, and room for several attempts.
FourTimeouts == 0 .. 3

WholeIntervals == {1000000}
ShortTimeouts == {2}

OpSymmetry == Permutations(Ops)

=============================================================================
