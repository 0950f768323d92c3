SPECIFICATION Spec
CONSTANTS
  IntMax <- MCIntMax
  LongMax <- MCLongMax
  Drives <- OneDrive
  Slow <- OneDrive
  Accessible <- NoDrive
  Flaky = FALSE
  MaxTools = 2
  ShortWait = 5
  LongWait = 15
  CommandLines <- AbortLines
  Solo = TRUE
  InitialDrives <- Shipped
  MaxUpsets = 0
  MaxCuts = 0
PROPERTIES ZeroMeansReady
