SPECIFICATION ContainmentSpec
CONSTANTS
  s1 = s1
  s2 = s2
  s3 = s3
  s4 = s4
  n1 = n1
  n2 = n2
  none = none
  None <- none
  Sessions <- FourSessions
  Names <- TwoNames
  netnsName <- Colliding
  maxUplinks = 2
  SandboxFaults <- EveryFault
  MaxRestarts = 2
  byteBits = 2
  bytes <- TwoAndThree
  Packets <- Sent
  targets <- Targets
  unconditionalDeny <- DenyBlocks
  uplinkPool <- Pool
  guest <- Guest
INVARIANTS
  ContainmentTypeOK
  RoutableIsEnforced
  ActiveIsContained
  UplinksAccounted
  OnlyScopeLeaves
  RefusedIsReported
  RepliesReturn
  UplinksUnreachable
  ScopeIsContains
