------------------------- MODULE MCServerLifecycle -------------------------
(* Three clients for two places. *)
EXTENDS ServerLifecycle
=============================================================================
