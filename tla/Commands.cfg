SPECIFICATION FairCommandsSpec
CONSTANTS
  MaxLeave = 2
  MaxAway = 5
  Faults <- OrderlyFaults
  DetachSettle = 3
  PollInterval = 2
  Timeout = 4
  RebootSettle = 3
  ImageLen = 2
INVARIANTS
  CommandsTypeOK
  ProgramsBootloader
  ReturnedIsFound
  EndsAsPromised
PROPERTIES
  ReportsAndReturns
  RecoversByUpdate
