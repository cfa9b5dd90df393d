---------------------------- MODULE MCPushDeploy ----------------------------
(* Instances of PushDeploy for TLC.                                        *)
EXTENDS PushDeploy, TLC

\* Deployments, bindings, artifacts, settings and entries are interchangeable.
Symmetry == Permutations(Deployments) \cup Permutations(Bindings)
              \cup Permutations(Artifacts) \cup Permutations(Settings)
              \cup Permutations(Entries)
=============================================================================
