-------------------------- MODULE MCRecoveryProbe --------------------------
(* A gate session or probe of five units against one server. *)
EXTENDS RecoveryProbe
=============================================================================
