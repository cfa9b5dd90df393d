--------------------------- MODULE MCDeliveryNode ---------------------------
(* Instances of DeliveryNode for TLC.                                        *)
EXTENDS DeliveryNode, TLC

\* Versions are told apart only by the order in which they are published.
Symmetry == Permutations(Versions)
=============================================================================
