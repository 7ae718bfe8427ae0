CONSTANTS
  Texts <- MCTexts
  LaterTexts <- MCLaterTexts
  NgramSize = 2
  MinRepeats = 2
  WindowWords = 3
  MultiplierTenths = 15
  MaxTokensCeiling = 8
  DryStep = 16
  PenaltyStep = 3
  StepExponent = 1
  Floor = 2
  Decrement = 3
  Ceiling = 30
  Increment = 4
  MaxRetries = 2
  MaxRounds = 1
  Bodies <- MCBodies
  Usages <- MCUsages
  UnknownCap = 6
SPECIFICATION Spec
INVARIANT VerdictIsRight
PROPERTY RetriesEscalate
CHECK_DEADLOCK FALSE
