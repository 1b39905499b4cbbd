SPECIFICATION Spec
CONSTANTS
  IdleInterval = 3
  PressureInterval = 2
  MinInterval = 1
  MaxInterval = 3
  Unset = unset
  Watchdogs <- MCWatchdogs
  TickTime = 1
  RestartDelay = 1
  StartWindow = 6
  StartBurst = 2
INVARIANTS
  TypeOK
  HealthyIsHeard
  IsolatedLapseSurvived
  FailedOnlyIfQuick
PROPERTIES
  TermStops
  HungIsReplaced
