SPECIFICATION FairSpec
CONSTANTS
  IntMax <- MCIntMax
  LongMax <- MCLongMax
  Drives <- OneDrive
  Slow <- OneDrive
  Accessible <- OneDrive
  Flaky = TRUE
  MaxTools = 2
  ShortWait = 1
  LongWait = 2
  CommandLines <- AnyLines
  Solo = FALSE
  InitialDrives <- Shipped
  MaxUpsets = 1
  MaxCuts = 1
INVARIANTS TypeOK
PROPERTIES FormatConsented SuccessMeansFormatted FormatsOnlyAskedSizes ToolsEnd
