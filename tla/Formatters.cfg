SPECIFICATION Spec
CONSTANTS
  IntMax <- MCIntMax
  LongMax <- MCLongMax
  Drives <- TwoDrives
  Slow <- NoDrive
  Accessible <- OneDrive
  Flaky = TRUE
  MaxTools = 2
  ShortWait = 5
  LongWait = 15
  CommandLines <- BlockingLines
  Solo = TRUE
  InitialDrives <- Whole
  MaxUpsets = 1
  MaxCuts = 1
PROPERTIES SuccessMeansFormatted AnnouncedSizeApplies FormatConsented
