SPECIFICATION FairSpec
CONSTANTS
  Calls = {c1, c2}
  Faults <- AnyFault
INVARIANTS
  TypeOK
  RunsWithAccess
  RunsOnce
PROPERTIES
  EveryCallEnds
CHECK_DEADLOCK FALSE
