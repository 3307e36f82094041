----------------------------- MODULE Attestation -----------------------------
(***************************************************************************)
(* What the enforcer attests, and who can check it: breach events signed   *)
(* with the key of the running process (breachevent.go, drops.go), served  *)
(* by the API (api.go), spooled and submitted to Rekor (outbox.go,         *)
(* rekor.go), verified and looked up by the clearing service (service.py), *)
(* while processes die and start again with other keys (Startup).          *)
(*                                                                         *)
(* Canonical JSON is a function from field names to values: two texts are  *)
(* equal if and only if the functions are.  A signature names its key and  *)
(* what it covers, a hash what it was taken of (external: Ed25519, SHA-256 *)
(* and RFC 8785).  The seed stands for the key pair.  Every line of the    *)
(* spool is whole: what failing writes, fsyncs and reads do to the file is *)
(* in Outbox.                                                              *)
(***************************************************************************)
EXTENDS Startup, Sequences, FiniteSets

CONSTANTS
  Drops,         \* facts of dropped packets: session, agent, violation
  MaxBreaches    \* bound on breaches

ASSUME BreachAssumption == MaxBreaches \in Nat

VARIABLES
  events,       \* the events the API serves
  spool,        \* lines of the spool
  checkpoint,   \* the checkpoint file: lines up to it were accepted by Rekor
  off,          \* the submitter's watermark, in memory; None: Run has not begun
  rekor,        \* Rekor's entries: what it keeps of a submission
  breaches      \* breach ids used so far

attested == <<events, spool, checkpoint, off, rekor, breaches>>
vars == <<startupVars, attested>>
-----------------------------------------------------------------------------
(* canonical.go, breachevent.go *)

Ed25519Sign(key, msg) == [by |-> key, over |-> msg]
Ed25519Verify(key, msg, sig) == sig = [by |-> key, over |-> msg]
ToCanonicalBytes(names, fields) == [f \in names |-> fields[f]]

\* Timestamps have seconds only: any two events may share one.
New(d, keyID, id) ==
  [agent_id |-> d.agent, attester |-> "warden-enforcer", attester_key_id |-> keyID,
   breach_id |-> id, layer |-> "network", session_id |-> d.session, signature |-> None,
   timestamp |-> "now", token_claim |-> "targets", violation |-> d.violation]

signableBytes(e) == ToCanonicalBytes(DOMAIN e \ {"signature"}, e)
Sign(e, key) == [e EXCEPT !.signature = Ed25519Sign(key, signableBytes(e))]
Verify(e, key) == Ed25519Verify(key, signableBytes(e), e.signature)

\* Mutant of RekorPayload: one field too many.
RekorPayloadWithClaim(e) ==
  ToCanonicalBytes({"agent_id", "attester", "attester_key_id", "breach_id", "layer",
                    "session_id", "signature", "timestamp", "token_claim"}, e)

RekorPayload(e) ==
  ToCanonicalBytes({"agent_id", "attester", "attester_key_id", "breach_id", "layer",
                    "session_id", "signature", "timestamp"}, e)
-----------------------------------------------------------------------------
(* drops.go *)

Entry(ev, key, reduced) ==
  [event |-> ev, second_sig |-> Ed25519Sign(key, reduced), public_key_pem |-> key,
   payload_sha256 |-> reduced]

\* The event goes to the ring, its entry to the spool, unless Append fails (with nothing
\* written: see Outbox for a part of the line).
Stored(ev, entry) ==
  /\ pc = "serving" /\ breaches < MaxBreaches
  /\ breaches' = breaches + 1
  /\ events' = events \cup {ev}
  /\ spool' \in {spool, Append(spool, entry)}
  /\ UNCHANGED <<startupVars, checkpoint, off, rekor>>

\* Mutant of recordDrop: the reduced payload is made before the event is signed.
recordDropTooEarly(d) ==
  LET key == cfg.SigningKey
      unsigned == New(d, key.keyID, breaches + 1)
      ev == Sign(unsigned, key.priv)
  IN Stored(ev, Entry(ev, key.priv, RekorPayload(unsigned)))

\* Mutant of recordDrop: the key is taken from the environment of the moment.
recordDropRereads(d) ==
  LET key == FromLookup(env).SigningKey
      ev == Sign(New(d, key.keyID, breaches + 1), key.priv)
  IN FromLookup(env) # None /\ Stored(ev, Entry(ev, key.priv, RekorPayload(ev)))

\* For a drop that is admitted (Enforcer).
recordDrop(d) ==
  LET key == cfg.SigningKey
      ev == Sign(New(d, key.keyID, breaches + 1), key.priv)
  IN Stored(ev, Entry(ev, key.priv, RekorPayload(ev)))
-----------------------------------------------------------------------------
(* outbox.go, rekor.go *)

\* Rekor (external) checks the signature and keeps hash, signature and key; what it
\* already has it answers with 409, which is success.
Accepted(content, signature, pem) == Ed25519Verify(pem, content, signature)
Kept(content, signature, pem) == [sha256 |-> content, signature |-> signature, key |-> pem]

Submitting == Running /\ cfg.RekorURL # "empty"

\* Run begins at the checkpoint, or at 0 where it cannot be read.
Resume ==
  /\ Submitting /\ off = None
  /\ off' \in {checkpoint, 0}
  /\ UNCHANGED <<startupVars, events, spool, checkpoint, rekor, breaches>>

Pending == Submitting /\ off # None /\ off < Len(spool)

\* Mutant of Submit: the public key is that of the running process.
SubmitUnderActiveKey ==
  LET e == spool[off + 1] IN
  /\ Pending
  /\ Accepted(RekorPayload(e.event), e.second_sig, cfg.SigningKey.priv)
  /\ rekor' = rekor \cup {Kept(RekorPayload(e.event), e.second_sig, cfg.SigningKey.priv)}
  /\ off' = off + 1
  /\ checkpoint' \in {checkpoint, off'}
  /\ UNCHANGED <<startupVars, events, spool, breaches>>

\* drainOnce, for one entry: the watermark moves on even where the checkpoint cannot be
\* written.  A refused entry is tried again for ever: no step.
Submit ==
  LET e == spool[off + 1] IN
  /\ Pending
  /\ Accepted(RekorPayload(e.event), e.second_sig, e.public_key_pem)
  /\ rekor' = rekor \cup {Kept(RekorPayload(e.event), e.second_sig, e.public_key_pem)}
  /\ off' = off + 1
  /\ checkpoint' \in {checkpoint, off'}
  /\ UNCHANGED <<startupVars, events, spool, breaches>>
-----------------------------------------------------------------------------
(* api.go *)

\* The key under an id, or None for 404.  main fills no ArchivedKeys.
getKeyByID(id) == IF cfg.SigningKey.keyID = id THEN cfg.SigningKey.priv ELSE None
-----------------------------------------------------------------------------
(* service.py *)

canonical_signable(event) == [k \in DOMAIN event \ {"signature"} |-> event[k]]

REDUCED_KEYS == {"agent_id", "attester", "attester_key_id", "breach_id",
                 "layer", "session_id", "signature", "timestamp"}
canonical_reduced(event) == [k \in REDUCED_KEYS |-> event[k]]

verify_entry(entry) ==
  /\ Ed25519Verify(entry.public_key_pem, canonical_signable(entry.event), entry.event.signature)
  /\ Ed25519Verify(entry.public_key_pem, canonical_reduced(entry.event), entry.second_sig)

\* confirm's lookup in Rekor's index.
rekor_retrieve(event) == \E r \in rekor : r.sha256 = canonical_reduced(event)
-----------------------------------------------------------------------------
AttestationTypeOK ==
  /\ StartupTypeOK
  /\ breaches \in 0..MaxBreaches
  /\ Len(spool) <= breaches
  /\ checkpoint \in 0..Len(spool)
  /\ off \in {None} \cup 0..Len(spool)

Init ==
  /\ StartupInit
  /\ events = {} /\ spool = <<>> /\ checkpoint = 0 /\ off = None /\ rekor = {} /\ breaches = 0

\* A process that ends takes its ring and its watermark with it.
StartupStep ==
  /\ StartupNext
  /\ events' = IF pc' = "down" THEN {} ELSE events
  /\ off' = IF pc' = "down" THEN None ELSE off
  /\ UNCHANGED <<spool, checkpoint, rekor, breaches>>

Next ==
  \/ StartupStep
  \/ \E d \in Drops : recordDrop(d)
  \/ Resume \/ Submit

\* systemd restarts what fails, main runs on, and the submitter retries; the number of
\* failures is bounded.
Fairness ==
  /\ WF_vars(StartupStep /\ Boot)
  /\ WF_vars(Resume \/ Submit)

Spec == Init /\ [][Next]_vars /\ Fairness
-----------------------------------------------------------------------------
(* Properties. *)

Lines == {spool[i] : i \in 1..Len(spool)}

\* "replayable after key rotation without a private key" (drops.go:68-70): whatever keys
\* came since, Rekor accepts every spooled line, the clearing service verifies it, and
\* its hash is "identical to the data hash Rekor stores" (outbox.go:38-40) and to the one
\* clearing looks up, the payloads of Go and Python being made apart.
EntriesStayVerifiable ==
  \A e \in Lines :
    /\ Accepted(RekorPayload(e.event), e.second_sig, e.public_key_pem)
    /\ verify_entry(e)
    /\ e.payload_sha256 = canonical_reduced(e.event)

\* Rekor has one entry for each of the first lines of the spool, as far as the submitters
\* came, which is at least up to the checkpoint; and for these breaches, and no others,
\* clearing's lookup finds an entry.  However often lines are submitted again, by a process
\* with another key or from 0, none is entered twice, and none is taken for another, even
\* in one second.
LookupIsExact ==
  LET n == Cardinality(rekor) IN
  /\ checkpoint <= n /\ (off # None => off <= n)
  /\ \A i \in 1..Len(spool) : rekor_retrieve(spool[i].event) <=> i <= n

\* The events a process serves verify under the key it serves for their attester_key_id,
\* however often the environment was changed since it started.
ServedEventsVerify ==
  \A ev \in events :
    LET key == getKeyByID(ev.attester_key_id) IN key # None /\ Verify(ev, key)

\* A spooled breach is found in Rekor at last, by its reduced payload, if a process with
\* a Rekor URL stays up, whichever key it runs with.
EveryEntryAttested ==
  <>[]Submitting =>
    \A n \in 1..MaxBreaches :
      (n <= Len(spool)) ~> (n <= Len(spool) /\ rekor_retrieve(spool[n].event))
=============================================================================
