SPECIFICATION Spec
CONSTANTS
  Procs = {p1}
  Chunks = 2
  MaxIndex = 2
INVARIANTS
  AloneFlashesWhole
CHECK_DEADLOCK FALSE
