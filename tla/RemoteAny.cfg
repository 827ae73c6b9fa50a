SPECIFICATION FairSpec
CONSTANTS
  MaxSessions = 3
  Purge = FALSE
  Faults <- AnyFault
INVARIANTS
  TypeOK
  QuietHearsOwn
  AgreesWithFirmware
PROPERTIES
  SessionEnds
CHECK_DEADLOCK FALSE
