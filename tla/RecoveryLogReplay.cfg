SPECIFICATION Spec
CONSTANTS
  MaxAudio = 3
  MaxEvents = 4
  max_events_per_session = 2
  QueueSize = 2
CHECK_DEADLOCK FALSE
CONSTRAINTS WordsTakeTime OneEach
 
PROPERTIES NoAudioCommittedTwice LogFollowsProtocol 
