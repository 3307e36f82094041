------------------------------ MODULE MCOutbox ------------------------------
(* Instance of Outbox and its refinement for TLC: a handful of entries. *)
EXTENDS OutboxRefinement

CONSTANTS e1, e2, e3, frag

TwoEntries == {e1, e2}
ThreeEntries == {e1, e2, e3}
DiskFaults == AllFaults \ {"powerLoss"}
RetriedFaults == {"syncError", "checkpointError", "readError"}
ShortWrites == {"shortWrite"}
EveryFault == AllFaults
=============================================================================
