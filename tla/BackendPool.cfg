SPECIFICATION FairSpec
CONSTANTS
  Workers = {w1, w2, w3}
  Configs = {c1, c2}
  Ids = {i1, i2}
  max_entries = 1
  max_entries_per_key = 1
  NoSlot = NoSlot
INVARIANTS ExclusiveLease LeasedBackendOpen NoOrphanSlot NoLeakedBackend
PROPERTIES NoLeaseAfterClose CancelledWaiterLeaves ShutdownCloses
