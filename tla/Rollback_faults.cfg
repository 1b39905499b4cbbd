SPECIFICATION Spec
CONSTANTS
  a = a
  b = b
  Procs <- MCBoth
  Executors <- MCExecutors
  Kinds <- MCFaultKinds
  Values <- MCFaultValues
  KeepEntries = 2
  Faults = TRUE
  SameMs = FALSE
  MaxEntries = 3
INVARIANTS
  TypeOK
  RestUnharmed
PROPERTIES
  AppendOnly
  ExposedOnlyByFaults
