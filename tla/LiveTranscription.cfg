SPECIFICATION Spec
CONSTANTS
  Durations = {1, 2}
  silence_seconds = 2
  max_seconds = 4
  partial_seconds = 1
  casefold <- MCcasefold
  Texts <- MCTexts
  MaxChunks = 5
CHECK_DEADLOCK FALSE
INVARIANTS VoicedAudioIsHeard AgreementStaysInUtterance
PROPERTIES CommitSaysFinalHypothesis
