SPECIFICATION Spec
CONSTANTS
  b1 = b1
  b2 = b2
  b3 = b3
  b4 = b4
  s1 = s1
  s2 = s2
  a1 = a1
  a2 = a2
  o1 = o1
  o2 = o2
  k1 = k1
  w1 = w1
  w2 = w2
  none = none
  None <- none
  Breaches <- TwoBreaches
  Sessions <- OneSession
  Agents <- TwoAgents
  Operators <- JustO1
  KeyIds <- OneKey
  sessionOf <- SessionOf
  agentOf <- AgentOf
  keyOf <- SameKey
  Forged <- NoBreach
  operatorOf <- OneOperator
  Bonded <- JustO1
  Registered <- OneAgent
  Workers <- Daemon
  ClearingFaults <- KillFaults
  MaxFails = 0
  startScore = 10
  startBond = 150
INVARIANT
  TerminatedIsKilled
