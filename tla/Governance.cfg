SPECIFICATION Spec
CONSTANTS
  worker = worker
  sshd = sshd
  init = init
  app = app
  both = both
  other = other
  System = System
  Pids <- MCPids
  InitPid = init
  Units <- MCUnits
  ProtectedPids <- MCProtectedPids
  ProtectedUnits <- MCProtectedUnits
  AllowedUnits <- MCAllowedUnits
  ProcessFindings <- MCProcessFindings
INVARIANTS
  TypeOK
  BlockedOnlyWithCause
  ExecutedIsPermitted
  NoMissedRelief
