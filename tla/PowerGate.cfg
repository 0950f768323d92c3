SPECIFICATION FairSpec
CONSTANTS
  IntMax <- MCIntMax
  LongMax <- MCLongMax
  Drives <- TwoDrives
  Slow <- OneDrive
  Accessible <- OneDrive
  Flaky = FALSE
  MaxTools = 2
  ShortWait = 1
  LongWait = 2
  CommandLines <- GateLines
  Solo = TRUE
  InitialDrives <- Shipped
  MaxUpsets = 0
  MaxCuts = 1
PROPERTIES KeepsPowerGate
