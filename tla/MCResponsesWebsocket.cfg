SPECIFICATION Spec
CONSTANTS
  Credentials = {"a", "b"}
  Situations <- TheSituations
  Shapes <- TheShapes
  BootstrapRetries = 1
  Rounds = 1
  MaxMessages = 3
  MaxChanges = 1
INVARIANTS
  TranscriptKept
  IncrementsReachTheirResponse
  EveryMessageAnswered
CHECK_DEADLOCK FALSE
