SPECIFICATION FairSpec
CONSTANTS
  IntMax <- MCIntMax
  LongMax <- MCLongMax
  Drives <- OneDrive
  Slow <- OneDrive
  Accessible <- OneDrive
  Flaky = FALSE
  MaxTools = 2
  ShortWait = 1
  LongWait = 2
  CommandLines <- QuietLines
  Solo = TRUE
  InitialDrives <- Whole
  MaxUpsets = 2
  MaxCuts = 0
PROPERTIES WatchSurvives WatchConcludes
