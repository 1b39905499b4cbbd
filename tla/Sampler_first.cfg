SPECIFICATION Spec
CONSTANTS
  MaxCount <- MCMaxCount
  MaxClock = 1
PROPERTIES
  NoRateFromFirstSample
