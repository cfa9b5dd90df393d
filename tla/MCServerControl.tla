-------------------------- MODULE MCServerControl --------------------------
(* Instances of ServerControl for TLC.                                     *)
EXTENDS ServerControl
=============================================================================
