SPECIFICATION Spec
CONSTANTS
  BufSize = 3
  Data = {"a", "b"}
  MaxPayload = 1
  MaxAnswers = 1
  Noise <- NoNoise
  Hangup = TRUE
  OverflowChecks = FALSE
INVARIANTS
  ReadsFresh
CHECK_DEADLOCK FALSE
