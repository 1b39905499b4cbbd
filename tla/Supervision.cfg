SPECIFICATION Spec
CONSTANTS
  Ticks = 3
  Thresholds <- MCThresholds
  Readings <- MCExtremes
  UnreadableSets <- MCUnreadableSets
  Window = 1
  Retention = 0
  BufCap = 256
  MaxRecords = 2
  LastDay = 2
  DiskFaults = TRUE
  ClockSteps = TRUE
INVARIANTS
  TypeOK
  TrendNeverAboveDisk
  LevelNeverExceedsReading
PROPERTIES
  NoRiseOnceSeeded
  DurableLevelNeverRises
