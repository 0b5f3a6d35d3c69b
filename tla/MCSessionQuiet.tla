--------------------------- MODULE MCSessionQuiet ---------------------------
(***************************************************************************)
(* Instances of SessionQuiet for TLC.                                       *)
(***************************************************************************)
EXTENDS MCSession, SessionQuiet

=============================================================================
