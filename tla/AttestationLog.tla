--------------------------- MODULE AttestationLog ---------------------------
(***************************************************************************)
(* What the outbox promises: events are recorded one after another, and    *)
(* each recorded event is attested once, in the order of recording.        *)
(***************************************************************************)
EXTENDS Naturals, Sequences

CONSTANT Entries

VARIABLES
  recorded,    \* events in the durable record, in order
  attested     \* events in the transparency log, in order

vars == <<recorded, attested>>

Init == recorded = <<>> /\ attested = <<>>

Record(e) ==
  /\ \A i \in 1..Len(recorded) : recorded[i] # e
  /\ recorded' = Append(recorded, e)
  /\ UNCHANGED attested

Attest ==
  /\ Len(attested) < Len(recorded)
  /\ attested' = Append(attested, recorded[Len(attested) + 1])
  /\ UNCHANGED recorded

Next == (\E e \in Entries : Record(e)) \/ Attest

Spec == Init /\ [][Next]_vars
=============================================================================
