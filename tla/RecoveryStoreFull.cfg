SPECIFICATION Spec
CONSTANTS
  Sessions = {s1, s2}
  Connections = {c1, c2}
  Sizes = {1, 2}
  max_sessions = 1
  max_audio_bytes_per_session = 2
  max_total_audio_bytes = 3
  NoSession = NoSession
SYMMETRY Symmetry
CONSTRAINT BoundedDrift
CHECK_DEADLOCK FALSE
INVARIANTS TypeOK UsedSessionKept OneWriter ActiveHasOwner
PROPERTY CounterKept
