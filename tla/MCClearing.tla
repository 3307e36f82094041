----------------------------- MODULE MCClearing -----------------------------
(* Instance of Clearing for TLC: a session of an operator with a bond and    *)
(* another whose operator has none; breaches of both, one of them under a    *)
(* known key id with another key, and a forged one.                          *)
EXTENDS Clearing

CONSTANTS b1, b2, b3, b4, s1, s2, a1, a2, o1, o2, k1, w1, w2, none

TwoBreaches == {b1, b2}
OneOfEach == {b1, b3, b4}
OneSession == {s1}
TwoSessions == {s1, s2}
SessionOf == [b \in Breaches |-> IF b = b3 THEN s2 ELSE s1]
AgentOf == [b \in Breaches |-> IF b = b3 THEN a2 ELSE a1]
KeyOf == [b \in Breaches |-> [id |-> k1, x |-> IF b = b3 THEN 2 ELSE 1]]
SameKey == [b \in Breaches |-> [id |-> k1, x |-> 1]]
ForgedBreach == {b4}
NoBreach == {}
OneOperator == [s \in Sessions |-> o1]
WithUnbonded == [s \in Sessions |-> IF s = s2 THEN o2 ELSE o1]
TwoAgents == {a1, a2}
OneAgent == {a1}
JustO1 == {o1}
BothOperators == {o1, o2}
OneKey == {k1}
Daemon == {w1}
DaemonAndOnce == {w1, w2}
KillFaults == {"killFails"}
Disputes == {"dispute"}
EveryFault == AllClearingFaults
=============================================================================
