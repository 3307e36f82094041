SPECIFICATION Spec
CONSTANTS
  s1 = s1
  s2 = s2
  n1 = n1
  n2 = n2
  a1 = a1
  a2 = a2
  none = none
  None <- none
  Sessions <- OneSession
  Names <- TwoNames
  netnsName <- OwnName
  maxUplinks = 1
  Agents <- TwoAgents
  SandboxFaults <- NoFaults
  MaxRestarts = 0
  dropsCap = 1
  eventsCap = 1
  bucketBurst = 1
  stopWaits = FALSE
  MaxPackets = 1
  MaxCreates = 2
INVARIANT
  BlamesTheSender
CHECK_DEADLOCK FALSE
