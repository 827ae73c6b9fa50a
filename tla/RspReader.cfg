SPECIFICATION FairSpec
CONSTANTS
  BufSize = 2
  Data = {"a", "b"}
  MaxPayload = 3
  MaxAnswers = 3
  Noise <- OlderAnswer
  Hangup = FALSE
  OverflowChecks = FALSE
INVARIANTS
  TypeOK
  NeverPanics
  ReadsFresh
PROPERTIES
  ImplementsStream
  ReadEnds
