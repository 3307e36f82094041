----------------------------- MODULE MCEnforcer -----------------------------
(* Instance of Enforcer for TLC: sessions with names of their own, and       *)
(* capacities small enough for every buffer to overflow.                     *)
EXTENDS Enforcer

CONSTANTS s1, s2, n1, n2, a1, a2, none

OneSession == {s1}
TwoSessions == {s1, s2}
TwoNames == {n1, n2}
OwnName == [s \in Sessions |-> IF s = s1 THEN n1 ELSE n2]
OneAgent == {a1}
TwoAgents == {a1, a2}
NoFaults == {}
CommandFaults == {"cmdFails"}
EveryFault == AllSandboxFaults
=============================================================================
