---------------------------- MODULE MCAddServer ----------------------------
(***************************************************************************)
(* Instances of AddServer for TLC.                                          *)
(***************************************************************************)
EXTENDS AddServer, TLC

=============================================================================
