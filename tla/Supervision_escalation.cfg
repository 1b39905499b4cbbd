SPECIFICATION Spec
CONSTANTS
  Ticks = 3
  Thresholds <- MCThresholds
  Readings <- MCReadings
  UnreadableSets <- MCUnreadableSets
  Window = 4
  Retention = 1
  BufCap = 256
  MaxRecords = 4
  LastDay = 0
  DiskFaults = FALSE
  ClockSteps = FALSE
INVARIANTS
  EscalatesWhenSustained
