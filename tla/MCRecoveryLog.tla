--------------------------- MODULE MCRecoveryLog ---------------------------
(***************************************************************************)
(* One session of a few chunks and events, over any number of connections. *)
(* Bounds beyond those of the constants: words take time, one partial      *)
(* meets a full queue, and one live event comes before the replay.         *)
(***************************************************************************)
EXTENDS RecoveryLog, FiniteSets

WordsTakeTime == \A e \in hand : e.kind = "end" \/ e.start < e.end

OneEach == Cardinality(dropped) <= 1 /\ Cardinality(early) <= 1
=============================================================================
