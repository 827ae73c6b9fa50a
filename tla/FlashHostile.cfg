SPECIFICATION FairSpec
CONSTANTS
  MaxLeave = 3
  MaxAway = 2
  Faults <- HostileFaults
  DetachSettle = 2
  PollInterval = 1
  Timeout = 2
  RebootSettle = 1
  ImageLen = 2
INVARIANTS
  TypeOK
  SuccessMeansFlashed
  WaitBounded
  HandleHeld
  CachedModeFresh
PROPERTIES
  LeavesBootloaderWhole
  ImplementsUpdate
  Terminates
CHECK_DEADLOCK FALSE
