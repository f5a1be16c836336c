--------------------------- MODULE MCBackendPool ---------------------------
(* A small pool: three session workers, two models, room for two slots.    *)
EXTENDS BackendPool, TLC
Symmetry == Permutations(Workers) \cup Permutations(Configs) \cup Permutations(Ids)
=============================================================================
