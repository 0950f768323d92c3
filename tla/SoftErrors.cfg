SPECIFICATION Spec
CONSTANTS
  IntMax <- MCIntMax
  LongMax <- MCLongMax
  Drives <- OneDrive
  Slow <- NoDrive
  Accessible <- NoDrive
  Flaky = TRUE
  MaxTools = 1
  ShortWait = 5
  LongWait = 15
  CommandLines <- PollLines
  Solo = TRUE
  InitialDrives <- Shipped
  MaxUpsets = 0
  MaxCuts = 0
PROPERTIES ToleratesMaxSoftErrors
