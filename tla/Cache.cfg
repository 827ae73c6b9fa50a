SPECIFICATION Spec
CONSTANTS
  Procs = {p1, p2}
  Chunks = 2
  MaxIndex = 2
INVARIANTS
  TypeOK
  AloneFresh
  AloneParses
  UnspoiledFlashesWhole
PROPERTIES
  WholeStays
CHECK_DEADLOCK FALSE
