---------------------------- MODULE MCSafeDeploy ----------------------------
(* Instances of SafeDeploy for TLC.                                        *)
EXTENDS SafeDeploy, TLC

CONSTANTS r1, r2, r3, p1, p2

\* One project, or a last run that belongs to another one.
OneProject == [r \in Runs |-> p1]
TwoProjects == [r \in Runs |-> IF r = r2 THEN p2 ELSE p1]

Symmetry == Permutations(Releases)
=============================================================================
