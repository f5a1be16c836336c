-------------------------- MODULE MCProductionGate --------------------------
\* A small instance of ProductionGate: a tick is the validity of the deployment state.
EXTENDS ProductionGate

\* The manifest is made before the model is retained, and the unit comes last.
RetainedInOrder ==
  /\ files.model # Absent => files.manifest # Absent
  /\ files.configuration # Absent => files.model # Absent
=============================================================================
