--------------------------- MODULE MCReleaseHook ---------------------------
(* Instances of ReleaseHook for TLC.                                       *)
EXTENDS ReleaseHook
=============================================================================
