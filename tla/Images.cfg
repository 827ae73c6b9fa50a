SPECIFICATION Spec
CONSTANTS
  Space = 16
  Erased = 255
  WordLen = 1
  FlashBit = 8
  HexRecords <- MCHexRecords
  MaxRecords = 4
  Headers <- MCHeaders
  ElfFiles <- MCElfFiles
  RawFiles <- MCRawFiles
  Platforms <- MCPlatforms
  Native = "native"
  Start <- MCStart
INVARIANTS
  TypeOK
  ProgramsWhatFileSays
  PlacedBelowVector
CHECK_DEADLOCK FALSE
