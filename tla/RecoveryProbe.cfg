SPECIFICATION Spec
CONSTANTS
  total_samples = 11
  frame_samples = {5, 9}
  internal_size = 2
  High = 1
  Low = 0
  QueueSize = 2
  MaxEvents = 2
  MaxFaults = 1
CHECK_DEADLOCK FALSE
INVARIANTS PassedMeansRecovered FailsForCause
PROPERTIES ReturnsByItself
