------------------------------ MODULE MCServer ------------------------------
(***************************************************************************)
(* Instances of Server for TLC.                                             *)
(***************************************************************************)
EXTENDS Server, TLC

ThreeFds == 3 .. 5

=============================================================================
