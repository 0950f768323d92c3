SPECIFICATION Spec
CONSTANTS
  IntMax <- MCIntMax
  LongMax <- MCLongMax
  Drives <- TwoDrives
  Slow <- OneDrive
  Accessible <- OneDrive
  Flaky = TRUE
  MaxTools = 3
  ShortWait = 1
  LongWait = 2
  CommandLines <- WatchLines
  Solo = TRUE
  InitialDrives <- Mixed
  MaxUpsets = 0
  MaxCuts = 0
INVARIANTS NeverHalfFormatted
PROPERTIES VerdictOnlyWhenQuiet VerdictIsTrue GateSparesFormats GivesUpOnlyAfterStreak
