SPECIFICATION Spec
CONSTANTS
  MaxCount <- MCMaxCount
  MaxClock = 2
INVARIANTS
  TypeOK
  SharesFit
  PagesAccounted
PROPERTIES
  BlindnessPasses
