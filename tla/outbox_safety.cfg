SPECIFICATION Spec
CONSTANTS
  e1 = e1
  e2 = e2
  e3 = e3
  frag = frag
  Frag <- frag
  Entries <- ThreeEntries
  Faults <- DiskFaults
  MaxCrashes = 2
INVARIANTS
  TypeOK
  LoggedInOrder
  CheckpointCovered
PROPERTIES
  RetreatsOnlyInReplay
  ImplementsLog
CHECK_DEADLOCK FALSE
