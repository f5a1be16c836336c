SPECIFICATION FairSpec
CONSTANTS
  Sessions = {s1, s2}
  Backends = {b1, b2, b3}
  max_entries = 1
  NoBackend = NoBackend
CHECK_DEADLOCK FALSE
INVARIANTS HookOnOwnBackend NoLostCancel
PROPERTIES WorkerFinishes QuarantineCloses
