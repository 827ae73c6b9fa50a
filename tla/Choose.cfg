SPECIFICATION Spec
CONSTANTS
  h1 = h1
  stlink = stlink
  full = full
  common = common
  bluepill = bluepill
  Native = native
  Known = {native, stlink}
  Hash = {h1}
  Buses <- MCBuses
  Spares <- MCSpares
  Indices <- MCIndices
  Commands <- MCCommands
  Sizes <- MCSizes
  Documents <- MCDocuments
  MaxPending = 1
INVARIANTS
  TypeOK
  ActsOnMeant
  ShowsFullPage
  UpdatesToLatest
  NeverPanics
CHECK_DEADLOCK FALSE
