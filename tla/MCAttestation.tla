---------------------------- MODULE MCAttestation ----------------------------
(* Instance of Attestation for TLC: two keys under two ids, environments    *)
(* without Rekor, with a port at and beyond its limit, and one that is       *)
(* refused.                                                                  *)
EXTENDS Attestation

CONSTANT none

Env(id, seed, port, outbox, url) ==
  [KEY_ID |-> id, SIGNING_KEY |-> seed, PORT |-> port, OUTBOX |-> outbox, REKOR_URL |-> url]
Number(plus, n) == [plus |-> plus, n |-> n]
EnvironmentsUsed ==
  {Env("k1", "x1", None, None, "url"),
   Env("k2", "x2", Number(1, 65535), "set", "url"),
   Env("k1", "x1", None, None, None),
   Env("k2", "x2", Number(0, 65536), None, "url"),
   Env("k2", "malformed", None, "empty", "empty")}
AnyUmask == {"0755", "0777"}
OneDrop == {[session |-> "s", agent |-> "a", violation |-> "v"]}
=============================================================================
