-------------------------- MODULE OutboxRefinement --------------------------
(***************************************************************************)
(* The outbox implements AttestationLog: an event is recorded when its     *)
(* line is in the spool, not behind a damaged one, and attested when Rekor *)
(* accepts it.                                                             *)
(***************************************************************************)
EXTENDS Outbox

\* The lines ReadFrom(0) can return: those before the first fragment.
WholeLines ==
  SubSeq(spool, 1, CHOOSE k \in 0..Len(spool) :
                     /\ \A i \in 1..k : spool[i] # Frag
                     /\ k < Len(spool) => spool[k + 1] = Frag)

Abstract == INSTANCE AttestationLog WITH recorded <- WholeLines, attested <- rekor

\* Every step of the spool, the submitter, Rekor, a crash or a restart is a step
\* of AttestationLog or none at all (disk errors other than a loss of power
\* included): no entry is attested twice, out of order or without a record.
ImplementsLog == Abstract!Spec
=============================================================================
