------------------------- MODULE MCServerInterface -------------------------
(***************************************************************************)
(* Instances of ServerInterface for TLC.                                   *)
(***************************************************************************)
EXTENDS ServerInterface, TLC
=============================================================================
