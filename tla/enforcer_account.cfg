SPECIFICATION Spec
CONSTANTS
  s1 = s1
  s2 = s2
  n1 = n1
  n2 = n2
  a1 = a1
  a2 = a2
  none = none
  None <- none
  Sessions <- TwoSessions
  Names <- TwoNames
  netnsName <- OwnName
  maxUplinks = 2
  Agents <- OneAgent
  SandboxFaults <- CommandFaults
  MaxRestarts = 0
  dropsCap = 1
  eventsCap = 1
  bucketBurst = 2
  stopWaits = FALSE
  MaxPackets = 3
  MaxCreates = 2
INVARIANTS
  EnforcerTypeOK
  EveryPacketAccounted
  NothingLeftBehind
  HeardUntilDestroyed
CHECK_DEADLOCK FALSE
