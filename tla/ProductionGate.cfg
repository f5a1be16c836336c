SPECIFICATION GateSpec
CONSTANTS
  candidate = c
  previous = p
  Absent = Absent
  Contents = {1, 2}
  Reviewed = 1
  SameRevision = {1, 2}
  Hardened = {1}
  ReportValidity = 1
  StateValidity = 0
  MaxClockSkew = 1
  Offsets = {0, 1}
  MaxTime = 2
  MaxDisturbances = 1
CONSTRAINT RetainedInOrder
INVARIANTS
  CandidateWasLive
CHECK_DEADLOCK FALSE
