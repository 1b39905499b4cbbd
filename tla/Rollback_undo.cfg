SPECIFICATION Spec
CONSTANTS
  a = a
  b = b
  Procs <- MCBoth
  Executors <- MCExecutors
  Kinds <- MCUndoKinds
  Values <- MCValues
  KeepEntries = 3
  Faults = FALSE
  SameMs = FALSE
  MaxEntries = 3
INVARIANTS
  UndoAllRestores
PROPERTIES
  ImplementsUndoLog
