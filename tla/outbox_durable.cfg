SPECIFICATION Spec
CONSTANTS
  e1 = e1
  e2 = e2
  e3 = e3
  frag = frag
  Frag <- frag
  Entries <- TwoEntries
  Faults <- EveryFault
  MaxCrashes = 2
INVARIANT
  AckedDurable
CHECK_DEADLOCK FALSE
