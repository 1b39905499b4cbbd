SPECIFICATION Spec
CONSTANTS
  Executor = executor
  Undoers = {undoer}
  Kinds = {"SetMemoryHigh", "SetMemoryMax"}
  Values = {1}
  AdminContents <- MCAdminContents
  Faults = TRUE
  MaxEntries = 2
INVARIANTS
  TypeOK
  WayBack
  AdminContentKept
  LoadedWhenQuiet
