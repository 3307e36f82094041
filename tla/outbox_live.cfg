SPECIFICATION FairSpec
CONSTANTS
  e1 = e1
  e2 = e2
  e3 = e3
  frag = frag
  Frag <- frag
  Entries <- TwoEntries
  Faults <- RetriedFaults
  MaxCrashes = 1
INVARIANT
  NoLostWakeup
PROPERTY
  AckedIsLogged
CHECK_DEADLOCK FALSE
