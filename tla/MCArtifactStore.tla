-------------------------- MODULE MCArtifactStore --------------------------
(* Instances of ArtifactStore for TLC.                                     *)
EXTENDS ArtifactStore, TLC

\* Names of paths, contents, versions and clients are only compared.
Symmetry == Permutations(Paths) \cup Permutations(Contents)
              \cup Permutations(Versions) \cup Permutations(Clients)
=============================================================================
