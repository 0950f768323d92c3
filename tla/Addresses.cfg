SPECIFICATION MulticallSpec
CONSTANTS
  IntMax <- MCIntMax
  LongMax <- MCLongMax
  Drives <- FourDrives
  Slow <- NoDrive
  Accessible <- FourDrives
  Flaky = FALSE
  MaxTools = 2
  ShortWait = 1
  LongWait = 2
  CommandLines <- OrderedLines
  Orders <- MCOrders
  Mistyped <- MCMistyped
  MaxTyped = 1
  Solo = TRUE
  InitialDrives <- MixedDisks
  MaxUpsets = 0
  MaxCuts = 0
INVARIANTS HandOff
PROPERTIES OnlyTheNamedDrive GateSparesFormats SameAsStandalone
