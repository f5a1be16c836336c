--------------------------- MODULE MCBackendLease ---------------------------
(* Three sessions, one after another or together, on a few instances.      *)
EXTENDS BackendLease, TLC
Symmetry == Permutations(Sessions) \cup Permutations(Backends)
=============================================================================
