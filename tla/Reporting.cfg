SPECIFICATION Spec
CONSTANTS
  PerDay = 2
  LastDay = 2
  Retention = 1
  Windows <- MCWindows
  LevelOf <- MCLevelOf
  MaxRecords = 2
  MaxTicks = 3
  DiskFaults = TRUE
INVARIANTS
  TypeOK
  ReportHasNoHoles
  OldestFirst
  DominantIsMostSevere
