SPECIFICATION Spec
CONSTANTS
  a = a
  b = b
  Procs <- MCBoth
  Executors <- MCExecutors
  Kinds <- MCProcessKinds
  Values <- MCValues
  KeepEntries = 1
  Faults = FALSE
  SameMs = FALSE
  MaxEntries = 3
INVARIANTS
  OnlyOldestPruned
