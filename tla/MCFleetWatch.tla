---------------------------- MODULE MCFleetWatch ----------------------------
(* FleetWatch with two hosts and passes of one. *)
EXTENDS FleetWatch
=============================================================================
