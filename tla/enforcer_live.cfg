SPECIFICATION FairSpec
CONSTANTS
  s1 = s1
  s2 = s2
  n1 = n1
  n2 = n2
  a1 = a1
  a2 = a2
  none = none
  None <- none
  Sessions <- TwoSessions
  Names <- TwoNames
  netnsName <- OwnName
  maxUplinks = 1
  Agents <- OneAgent
  SandboxFaults <- EveryFault
  MaxRestarts = 1
  dropsCap = 1
  eventsCap = 1
  bucketBurst = 2
  stopWaits = TRUE
  MaxPackets = 3
  MaxCreates = 2
INVARIANT
  RecordsMatchSandboxes
PROPERTIES
  HandlersFinish
  DropsConsumed
CHECK_DEADLOCK FALSE
