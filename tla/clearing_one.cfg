SPECIFICATION FairSpec
CONSTANTS
  b1 = b1
  b2 = b2
  b3 = b3
  b4 = b4
  s1 = s1
  s2 = s2
  a1 = a1
  a2 = a2
  o1 = o1
  o2 = o2
  k1 = k1
  w1 = w1
  w2 = w2
  none = none
  None <- none
  Breaches <- OneOfEach
  Sessions <- TwoSessions
  Agents <- TwoAgents
  Operators <- BothOperators
  KeyIds <- OneKey
  sessionOf <- SessionOf
  agentOf <- AgentOf
  keyOf <- KeyOf
  Forged <- ForgedBreach
  operatorOf <- WithUnbonded
  Bonded <- JustO1
  Registered <- OneAgent
  Workers <- Daemon
  ClearingFaults <- EveryFault
  MaxFails = 2
  startScore = 5
  startBond = 150
INVARIANTS
  ClearingTypeOK
  SlashedOnlyWhenLogged
  LedgerBalanced
PROPERTIES
  ReleasedWithoutLiability
  EveryBreachSlashed
