SPECIFICATION Spec
CONSTANTS
  IntMax <- MCIntMax
  LongMax <- MCLongMax
  Drives <- OneDrive
  Slow <- NoDrive
  Accessible <- OneDrive
  Flaky = FALSE
  MaxTools = 2
  ShortWait = 5
  LongWait = 15
  CommandLines <- WatchLines
  Solo = FALSE
  InitialDrives <- Shipped
  MaxUpsets = 0
  MaxCuts = 0
PROPERTIES VerdictOnlyWhenQuiet
