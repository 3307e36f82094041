--------------------------- MODULE MCContainment ----------------------------
(* Instance of Containment for TLC: a session that asks for everything, two  *)
(* that map to the same namespace name ('-' and '_' are not told apart) and  *)
(* ask for different targets, and one with a malformed target.  A byte has   *)
(* two bits; an IPv4 address has two bytes, an IPv6 address three.           *)
EXTENDS Containment, TLC

CONSTANTS s1, s2, s3, s4, n1, n2, none

FourSessions == {s1, s2, s3, s4}
TwoNames == {n1, n2}
Colliding == [s \in FourSessions |-> IF s \in {s1, s4} THEN n1 ELSE n2]
EveryFault == AllSandboxFaults

TwoAndThree == (4 :> 2) @@ (6 :> 3)
A4(n) == [v |-> 4, n |-> n]
A6(n) == [v |-> 6, n |-> n]
Block(a, len) == [addr |-> a, prefixLen |-> len]
Pool == Block(A4(8), 1)
DenyBlocks == (4 :> {Block(A4(3), 4), Block(A4(4), 2), Pool}) @@ (6 :> {Block(A6(1), 6), Block(A6(32), 3)})
Guest == A4(1)

Text(a, len) == [addr |-> a, plus |-> 0, prefix |-> len]
Everything == {Text(A4(0), 0), Text(A6(0), 0)}
OneHost == {[Text(A4(0), 4) EXCEPT !.plus = 1]}
LowHalf == {Text(A4(1), 3), Text(A6(2), 5)}
NotABlock == {Text(A4(2), 4), Text(A4(2), 5)}
Targets ==
  [s \in FourSessions |->
     IF s = s1 THEN Everything ELSE IF s = s2 THEN OneHost
     ELSE IF s = s3 THEN LowHalf ELSE NotABlock]

Plain(a) == [dst |-> a, proto |-> 6, port |-> 80, ihl |-> 5, l4 |-> 20]
Sent ==
  {Plain(A4(n)) : n \in {0, 2, 3, 4, 11}}
    \cup {Plain(A6(n)) : n \in {0, 1, 3, 39, 40}}
    \cup {[Plain(A4(2)) EXCEPT !.ihl = 6, !.proto = 17],
          [Plain(A4(2)) EXCEPT !.proto = 1, !.port = 0],
          [Plain(A6(3)) EXCEPT !.proto = 58, !.port = 0],
          [Plain(A6(3)) EXCEPT !.proto = 44, !.port = 0],   \* a fragment header first
          [Plain(A4(2)) EXCEPT !.l4 = 3, !.port = 0]}
=============================================================================
