-------------------------- MODULE MCRecoveryStore --------------------------
(* A store with room for one session and three bytes of audio.             *)
EXTENDS RecoveryStore, TLC
Symmetry == Permutations(Sessions) \cup Permutations(Connections)

\* Each eviction of a session whose handler still has to complete it takes its
\* bytes off total twice: states this far below zero are not explored further.
BoundedDrift == total >= -3
=============================================================================
