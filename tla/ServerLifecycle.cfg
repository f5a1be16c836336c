SPECIFICATION LifecycleSpec
CONSTANTS
  Connections = {c1, c2, c3}
  max_concurrent_sessions = 2
  preload = TRUE
CHECK_DEADLOCK FALSE
INVARIANTS SlotPerSession NoHandlerAfterClose
PROPERTIES ShutdownCloses
