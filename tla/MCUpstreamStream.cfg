CONSTANTS
  IdleLimit = 2
  GuardEnabled = TRUE
  Budget = 1
  Multiplier <- MCMultiplier
  FallbackCap = 0
  Lines <- MCLines
  MaxLines = 3
SPECIFICATION FairSpec
INVARIANTS
  AnswerIsWholeStream
  BlameIsRight
  CutOffOnlyAfterSilence
  NoReaderLeft
PROPERTIES
  SilentStreamEnds
