---------------------- MODULE MCDeploymentTransaction ----------------------
(* Two operators and three releases: the active one and two candidates.    *)
EXTENDS DeploymentTransaction, TLC
Symmetry == Permutations(Operators) \cup Permutations(Releases)
=============================================================================
