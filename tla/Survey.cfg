SPECIFICATION Spec
CONSTANTS
  p1 = p1
  p2 = p2
  hog = hog
  sshd = sshd
  app = app
  NoComm = NoComm
  Pids = {p1, p2}
  Comms = {hog, sshd}
  ProtectedComms = {sshd}
  Rules <- MCRules
  MaxTicks = 1
  MaxMemory = 1
  Uptime = 1
  Units = {app}
  AllowedUnits = {app}
  ProtectedUnits = {}
  UnitLimits <- MCUnitLimits
  WeightUnits = {}
  MaxChanges = 2
SYMMETRY Symmetry
CHECK_DEADLOCK FALSE
INVARIANTS
  TypeOK
  SurvivorsListed
  FlagsEarned
  ProtectedSpared
  FailureChangesNothing
