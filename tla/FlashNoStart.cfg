SPECIFICATION Spec
CONSTANTS
  MaxLeave = 1
  MaxAway = 1
  Faults <- NoStart
  DetachSettle = 2
  PollInterval = 1
  Timeout = 2
  RebootSettle = 2
  ImageLen = 2
INVARIANTS
  SuccessMeansRuntime
CHECK_DEADLOCK FALSE
