-------------------------- MODULE AttestationProofs --------------------------
(***************************************************************************)
(* Proofs about Startup and Attestation for any environments and drops and *)
(* any number of breaches, changes, failures and deaths.                   *)
(***************************************************************************)
EXTENDS Attestation, FiniteSetTheorems, TLAPS

(* The socket. *)

\* The directory's mode matters from the moment it is locked: MkdirAll leaves one that
\* exists as it is.
GuardInv ==
  /\ pc \in Steps
  /\ pc \in {"remove", "bind", "open", "serving"} => dir \in {"0700", "0750"}

LEMMA GuardInit == Init => GuardInv
BY DEF Init, StartupInit, GuardInv, Steps

LEMMA GuardNext == GuardInv /\ [Next]_vars => GuardInv'
<1> SUFFICES ASSUME GuardInv, [Next]_vars PROVE GuardInv'
  OBVIOUS
<1>1. CASE StartupStep
  BY <1>1 DEF StartupStep, StartupNext, Boot, Listening, Start, OpenOutbox, MkdirAll, ChmodDir, Remove,
     Listen, ChmodSocket, BindFails, Call, Exit, CallFails, Dies, Edit, Install, Files, GuardInv, Steps
<1>2. CASE UNCHANGED startupVars
  BY <1>2 DEF startupVars, GuardInv
<1>3. QED
  BY <1>1, <1>2 DEF Next, recordDrop, Stored, Resume, Submit, vars

\* At no moment can others connect to the socket, whatever the umask and the mode of the
\* directory that was found.
THEOREM SocketIsGuarded == Spec => []SocketGuarded
<1>1. GuardInv => SocketGuarded
  BY DEF GuardInv, SocketGuarded, Bound
<1>2. QED
  BY <1>1, GuardInit, GuardNext, PTL DEF Spec

(* Signatures. *)

\* An event carries its own signature by key, made with everything else in place.
SignedBy(ev, key) == ev.signature = Ed25519Sign(key, signableBytes(ev))

\* A line as recordDrop makes it, with the key it was signed with.
Sound(e) ==
  /\ SignedBy(e.event, e.public_key_pem)
  /\ e.second_sig = Ed25519Sign(e.public_key_pem, RekorPayload(e.event))
  /\ e.payload_sha256 = RekorPayload(e.event)

LEMMA SignKeepsFields ==
  ASSUME NEW d, NEW id, NEW n, NEW key
  PROVE  LET ev == Sign(New(d, id, n), key) IN
         SignedBy(ev, key) /\ ev.attester_key_id = id /\ ev.breach_id = n
<1> DEFINE e == New(d, id, n)
           ev == Sign(e, key)
<1>1. /\ DOMAIN ev = DOMAIN e
      /\ \A f \in DOMAIN e \ {"signature"} : ev[f] = e[f]
      /\ ev.signature = Ed25519Sign(key, signableBytes(e))
  BY DEF Sign, New
<1>2. signableBytes(ev) = signableBytes(e)
  BY <1>1 DEF signableBytes, ToCanonicalBytes
<1>3. ev.attester_key_id = id /\ ev.breach_id = n
  BY DEF Sign, New
<1>4. QED
  BY <1>1, <1>2, <1>3 DEF SignedBy

(* What processes sign and spool. *)

Keys == {FromLookup(e).SigningKey : e \in {e \in Environments : FromLookup(e) # None}}
Made(d, k, n) == Sign(New(d, k.keyID, n), k.priv)
Entries == {Entry(Made(d, k, n), k.priv, RekorPayload(Made(d, k, n))) : d \in Drops, k \in Keys, n \in Nat}
Submitted(e) == Kept(RekorPayload(e.event), e.second_sig, e.public_key_pem)

\* The process's key is one of an environment's; the ring holds what it signed itself.
RingInv ==
  /\ env \in Environments
  /\ (cfg = None) <=> (pc = "down")
  /\ cfg # None => cfg.SigningKey \in Keys
  /\ pc = "down" => events = {}
  /\ \A ev \in events :
       SignedBy(ev, cfg.SigningKey.priv) /\ ev.attester_key_id = cfg.SigningKey.keyID

\* Breach ids grow along the spool; Rekor's entries are those of its first lines, and both
\* watermarks lie among them.
LogInv ==
  /\ breaches \in Nat
  /\ spool \in Seq(Entries)
  /\ \A i \in 1..Len(spool) :
       spool[i].event.breach_id \in Nat /\ spool[i].event.breach_id <= breaches
  /\ \A i, j \in 1..Len(spool) : i < j => spool[i].event.breach_id < spool[j].event.breach_id
  /\ IsFiniteSet(rekor) /\ Cardinality(rekor) <= Len(spool)
  /\ checkpoint \in 0..Cardinality(rekor)
  /\ off \in {None} \cup 0..Cardinality(rekor)
  /\ \A i \in 1..Cardinality(rekor) : Submitted(spool[i]) \in rekor
  /\ \A r \in rekor : \E i \in 1..Cardinality(rekor) : r = Submitted(spool[i])

AttestationInv == RingInv /\ LogInv

LEMMA KeysAreSet == \A k \in Keys : k.priv # None
BY DEF Keys, FromLookup, Load

LEMMA MadeSigned ==
  ASSUME NEW d, NEW k, NEW n
  PROVE  SignedBy(Made(d, k, n), k.priv) /\ Made(d, k, n).attester_key_id = k.keyID
         /\ Made(d, k, n).breach_id = n
BY SignKeepsFields DEF Made

LEMMA LinesAreEntries ==
  \A d \in Drops, k \in Keys, n \in Nat :
    Entry(Made(d, k, n), k.priv, RekorPayload(Made(d, k, n))) \in Entries
BY DEF Entries

LEMMA EntriesAreSound == \A e \in Entries : Sound(e)
<1> SUFFICES ASSUME NEW d \in Drops, NEW k \in Keys, NEW n \in Nat
             PROVE  Sound(Entry(Made(d, k, n), k.priv, RekorPayload(Made(d, k, n))))
  BY DEF Entries
<1>1. SignedBy(Made(d, k, n), k.priv)
  BY MadeSigned
<1>2. QED
  BY <1>1 DEF Sound, Entry

LEMMA AttestationInit == Init => AttestationInv
BY FS_EmptySet DEF Init, StartupInit, AttestationInv, RingInv, LogInv

LEMMA RingNext == RingInv /\ [Next]_vars => RingInv'
<1> SUFFICES ASSUME RingInv, [Next]_vars PROVE RingInv'
  OBVIOUS
<1>1. CASE StartupStep
  <2>1. CASE Start
    BY <1>1, <2>1 DEF StartupStep, Start, RingInv, Keys
  <2>2. CASE /\ UNCHANGED <<env, cfg>> /\ pc # "down" /\ pc' # "down"
    BY <1>1, <2>2 DEF StartupStep, RingInv
  <2>3. CASE Exit /\ UNCHANGED env
    BY <1>1, <2>3 DEF StartupStep, Exit, RingInv
  <2>4. CASE Install \/ \E e \in Environments : Edit(e)
    BY <1>1, <2>4 DEF StartupStep, Install, Edit, RingInv, SignedBy
  <2>5. QED
    BY <1>1, <2>1, <2>2, <2>3, <2>4
       DEF StartupStep, StartupNext, Boot, Listening, OpenOutbox, MkdirAll, ChmodDir, Remove, Listen,
           ChmodSocket, BindFails, Call, CallFails, Dies
<1>2. ASSUME NEW d \in Drops, recordDrop(d) PROVE RingInv'
  <2> DEFINE ev == Made(d, cfg.SigningKey, breaches + 1)
  <2>1. events' = events \cup {ev} /\ UNCHANGED startupVars /\ pc = "serving"
    BY <1>2 DEF recordDrop, Stored, Made
  <2>2. SignedBy(ev, cfg.SigningKey.priv) /\ ev.attester_key_id = cfg.SigningKey.keyID
    BY MadeSigned
  <2> HIDE DEF ev
  <2>3. QED
    BY <2>1, <2>2 DEF RingInv, startupVars
<1>3. CASE Resume \/ Submit \/ UNCHANGED vars
  BY <1>3 DEF Resume, Submit, vars, startupVars, attested, RingInv
<1>4. QED
  BY <1>1, <1>2, <1>3 DEF Next

LEMMA HeldIsNatural == LogInv => Cardinality(rekor) \in Nat /\ Len(spool) \in Nat
BY FS_CardinalityType DEF LogInv

\* What Rekor keeps of a line tells its breach.
LEMMA SubmittedTellsBreach ==
  ASSUME NEW e, NEW f, Submitted(e) = Submitted(f)
  PROVE  e.event.breach_id = f.event.breach_id
<1>1. \A x : Submitted(x).sha256["breach_id"] = x.event.breach_id
  BY DEF Submitted, Kept, RekorPayload, ToCanonicalBytes
<1>2. QED
  BY <1>1, Zenon

\* Beyond the lines it has entries for, Rekor has nothing.
LEMMA NotYet ==
  ASSUME LogInv, NEW i \in 1..Len(spool), i > Cardinality(rekor)
  PROVE  Submitted(spool[i]) \notin rekor
<1> SUFFICES ASSUME Submitted(spool[i]) \in rekor PROVE FALSE
  OBVIOUS
<1>1. PICK n \in Nat : n = Cardinality(rekor) /\ n <= Len(spool) /\ Len(spool) \in Nat
  BY HeldIsNatural DEF LogInv
<1>2. PICK j \in 1..n : Submitted(spool[i]) = Submitted(spool[j])
  BY <1>1 DEF LogInv
<1>3. spool[i].event.breach_id = spool[j].event.breach_id
  BY <1>2, SubmittedTellsBreach, Zenon
<1>4. j \in 1..Len(spool) /\ j < i
  BY <1>1, <1>2
<1>5. QED
  BY <1>3, <1>4 DEF LogInv

\* One submission: an entry Rekor has is not entered again, the next line is.
LEMMA SubmitEffect ==
  ASSUME LogInv, Submit
  PROVE  /\ spool \in Seq(Entries) /\ UNCHANGED <<spool, breaches>>
         /\ off \in Nat /\ off < Len(spool) /\ off' = off + 1 /\ checkpoint' \in {checkpoint, off + 1}
         /\ \/ off < Cardinality(rekor) /\ rekor' = rekor
            \/ /\ off = Cardinality(rekor) /\ rekor' = rekor \cup {Submitted(spool[off + 1])}
               /\ IsFiniteSet(rekor') /\ Cardinality(rekor') = off + 1
<1>1. PICK n \in Nat : n = Cardinality(rekor) /\ n <= Len(spool) /\ Len(spool) \in Nat
  BY HeldIsNatural DEF LogInv
<1>2. /\ rekor' = rekor \cup {Submitted(spool[off + 1])}
      /\ off # None /\ off < Len(spool) /\ off' = off + 1 /\ checkpoint' \in {checkpoint, off + 1}
      /\ UNCHANGED <<spool, breaches>>
  BY DEF Submit, Pending, Submitted
<1>3. off \in 0..n /\ off + 1 \in 1..Len(spool)
  <2>1. off \in 0..n
    BY <1>1, <1>2 DEF LogInv
  <2>2. QED
    BY <1>1, <1>2, <2>1
<1>4. CASE off < n
  <2>1. off + 1 \in 1..n
    BY <1>1, <1>3, <1>4
  <2>2. Submitted(spool[off + 1]) \in rekor
    BY <1>1, <2>1 DEF LogInv
  <2>3. QED
    BY <1>1, <1>2, <1>3, <1>4, <2>2 DEF LogInv
<1>5. CASE off = n
  <2>1. Submitted(spool[off + 1]) \notin rekor
    BY <1>1, <1>3, <1>5, NotYet
  <2>2. IsFiniteSet(rekor') /\ Cardinality(rekor') = n + 1
    BY <1>1, <1>2, <2>1, FS_AddElement DEF LogInv
  <2>3. QED
    BY <1>1, <1>2, <1>3, <1>5, <2>2 DEF LogInv
<1>6. QED
  BY <1>1, <1>3, <1>4, <1>5

LEMMA LogNext == RingInv /\ LogInv /\ [Next]_vars => LogInv'
<1> SUFFICES ASSUME RingInv, LogInv, [Next]_vars PROVE LogInv'
  OBVIOUS
<1>0. PICK n \in Nat : n = Cardinality(rekor) /\ n <= Len(spool) /\ Len(spool) \in Nat
  BY HeldIsNatural DEF LogInv
<1>1. CASE /\ UNCHANGED <<spool, checkpoint, rekor, breaches>>
           /\ off' \in {None, off, 0, checkpoint}
  BY <1>0, <1>1 DEF LogInv, Submitted
<1>2. ASSUME NEW d \in Drops, recordDrop(d) PROVE LogInv'
  <2> DEFINE ev == Made(d, cfg.SigningKey, breaches + 1)
             e == Entry(ev, cfg.SigningKey.priv, RekorPayload(ev))
  <2>1. /\ breaches' = breaches + 1
        /\ spool' \in {spool, Append(spool, e)}
        /\ UNCHANGED <<checkpoint, off, rekor>>
        /\ pc = "serving"
    BY <1>2 DEF recordDrop, Stored, Made
  <2>2. e \in Entries
    <3>1. cfg.SigningKey \in Keys /\ breaches + 1 \in Nat
      BY <2>1 DEF RingInv, LogInv
    <3>2. QED
      BY <3>1, LinesAreEntries
  <2>3. e.event.breach_id = breaches + 1
    BY MadeSigned DEF Entry
  <2> HIDE DEF e
  <2>4. CASE spool' = spool
    BY <1>0, <2>1, <2>4 DEF LogInv, Submitted
  <2>5. CASE spool' = Append(spool, e)
    <3>1. /\ spool' \in Seq(Entries)
          /\ Len(spool') = Len(spool) + 1
          /\ \A i \in 1..Len(spool) : spool'[i] = spool[i]
          /\ spool'[Len(spool) + 1] = e
      BY <2>2, <2>5 DEF LogInv
    <3>2. n <= Len(spool')
      BY <1>0, <3>1
    <3>3. \A i \in 1..Len(spool') :
            spool'[i].event.breach_id \in Nat /\ spool'[i].event.breach_id <= breaches'
      <4> TAKE i \in 1..Len(spool')
      <4>1. CASE i \in 1..Len(spool)
        BY <2>1, <3>1, <4>1 DEF LogInv
      <4>2. CASE i = Len(spool) + 1
        <5>1. spool'[i].event.breach_id = breaches + 1 /\ breaches \in Nat
          BY <2>3, <3>1, <4>2 DEF LogInv
        <5>2. QED
          BY <2>1, <5>1
      <4>3. QED
        BY <1>0, <3>1, <4>1, <4>2
    <3>4. \A i, j \in 1..Len(spool') : i < j => spool'[i].event.breach_id < spool'[j].event.breach_id
      <4> TAKE i, j \in 1..Len(spool')
      <4> HAVE i < j
      <4>1. i \in 1..Len(spool) /\ (j \in 1..Len(spool) \/ j = Len(spool) + 1)
        BY <3>1 DEF LogInv
      <4>2. CASE j \in 1..Len(spool)
        BY <3>1, <4>1, <4>2 DEF LogInv
      <4>3. CASE j = Len(spool) + 1
        <5>1. spool'[i].event.breach_id \in Nat /\ spool'[i].event.breach_id <= breaches
          BY <3>1, <4>1 DEF LogInv
        <5>2. spool'[j].event.breach_id = breaches + 1 /\ breaches \in Nat
          BY <2>3, <3>1, <4>3 DEF LogInv
        <5>3. QED
          BY <5>1, <5>2
      <4>4. QED
        BY <4>1, <4>2, <4>3
    <3>5. \A i \in 1..n : i \in 1..Len(spool) /\ spool'[i] = spool[i]
      BY <1>0, <3>1
    <3>6. \A i \in 1..n : Submitted(spool'[i]) \in rekor'
      BY <1>0, <2>1, <3>5 DEF LogInv
    <3>7. \A r \in rekor' : \E i \in 1..n : r = Submitted(spool'[i])
      BY <1>0, <2>1, <3>5 DEF LogInv
    <3>8. QED
      BY <1>0, <2>1, <3>1, <3>2, <3>3, <3>4, <3>6, <3>7 DEF LogInv, Submitted
  <2>6. QED
    BY <2>1, <2>4, <2>5
<1>3. CASE Submit
  <2>1. CASE off < n /\ rekor' = rekor
    <3>1. /\ UNCHANGED <<spool, breaches, rekor>> /\ off \in 0..n /\ off' \in 0..n
          /\ checkpoint' \in {checkpoint, off'}
      BY <1>0, <1>3, <2>1, SubmitEffect
    <3>2. QED
      BY <1>0, <3>1 DEF LogInv, Submitted
  <2>2. CASE /\ off = n /\ rekor' = rekor \cup {Submitted(spool[n + 1])}
             /\ IsFiniteSet(rekor') /\ Cardinality(rekor') = n + 1
    <3>1. /\ UNCHANGED <<spool, breaches>> /\ n + 1 <= Len(spool)
          /\ off' = n + 1 /\ checkpoint' \in 0..n + 1
      BY <1>0, <1>3, <2>2, SubmitEffect DEF LogInv
    <3>2. \A i \in 1..n + 1 : Submitted(spool[i]) \in rekor'
      BY <1>0, <2>2 DEF LogInv
    <3>3. \A r \in rekor' : \E i \in 1..n + 1 : r = Submitted(spool[i])
      <4> TAKE r \in rekor'
      <4>1. CASE r \in rekor
        <5>1. PICK i \in 1..n : r = Submitted(spool[i])
          BY <1>0, <4>1 DEF LogInv
        <5>2. i \in 1..n + 1
          OBVIOUS
        <5>3. QED
          BY <5>1, <5>2
      <4>2. CASE r = Submitted(spool[n + 1])
        <5>1. n + 1 \in 1..n + 1
          OBVIOUS
        <5>2. QED
          BY <4>2, <5>1
      <4>3. QED
        BY <2>2, <4>1, <4>2
    <3>4. \A i \in 1..Cardinality(rekor') : Submitted(spool'[i]) \in rekor'
      BY <2>2, <3>1, <3>2
    <3>5. \A r \in rekor' : \E i \in 1..Cardinality(rekor') : r = Submitted(spool'[i])
      BY <2>2, <3>1, <3>3
    <3>6. /\ Cardinality(rekor') <= Len(spool')
          /\ checkpoint' \in 0..Cardinality(rekor')
          /\ off' \in {None} \cup 0..Cardinality(rekor')
      BY <1>0, <2>2, <3>1
    <3>7. QED
      BY <2>2, <3>1, <3>4, <3>5, <3>6 DEF LogInv
  <2>3. QED
    BY <1>0, <1>3, <2>1, <2>2, SubmitEffect
<1>4. QED
  BY <1>1, <1>2, <1>3 DEF Next, StartupStep, Resume, vars, attested

LEMMA AttestationInvariant == Spec => []AttestationInv
BY AttestationInit, RingNext, LogNext, PTL DEF Spec, AttestationInv

(* Types. *)

\* A port that was not refused is one.
LEMMA PortInRange ==
  ASSUME NEW e \in Environments, FromLookup(e) # None
  PROVE  FromLookup(e).Port \in Nat /\ FromLookup(e).Port <= 65535
<1> DEFINE port == IF e.PORT = None THEN 9090 ELSE parsePort(e.PORT)
<1>1. port # None /\ FromLookup(e).Port = port
  BY DEF FromLookup
<1>2. e.PORT = None => port = 9090
  OBVIOUS
<1>3. e.PORT # None => port = parsePort(e.PORT)
  OBVIOUS
<1> HIDE DEF port
<1>4. ASSUME e.PORT # None PROVE port \in Nat /\ port <= 65535
  <2>1. PICK n \in Nat \cup {None} : n = e.PORT.n
    BY <1>4, PortAssumption
  <2>2. n # None /\ ~(n > 65535) /\ port = n
    BY <1>1, <1>3, <1>4, <2>1 DEF parsePort
  <2>3. n \in Nat
    BY <2>2
  <2>4. QED
    BY <2>2, <2>3
<1>5. QED
  BY <1>1, <1>2, <1>4

LEMMA StartupTypeInit == Init => StartupTypeOK
BY BoundAssumption DEF Init, StartupInit, StartupTypeOK, Steps

LEMMA StartupTypeNext == StartupTypeOK /\ [Next]_vars => StartupTypeOK'
<1> SUFFICES ASSUME StartupTypeOK, [Next]_vars PROVE StartupTypeOK'
  OBVIOUS
<1> USE BoundAssumption DEF StartupTypeOK
<1>1. CASE Start
  BY <1>1, PortInRange DEF Start, Files, Bounds, Steps
<1>2. ASSUME NEW at \in Steps \ {"down"}, NEW next \in Steps \ {"down"},
             NEW d \in {None, "0700", "0750", "0755"}, NEW f \in {None, "0660"} \cup Umasks,
             Call(at, next, d, f)
      PROVE  StartupTypeOK'
  BY <1>2 DEF Call, Bounds
<1>3. CASE OpenOutbox \/ MkdirAll \/ ChmodDir \/ Remove \/ Listen \/ ChmodSocket
  BY <1>2, <1>3 DEF OpenOutbox, MkdirAll, ChmodDir, Remove, Listen, ChmodSocket, Steps
<1>4. CASE BindFails
  BY <1>4 DEF BindFails, Exit, Files, Bounds, Steps
<1>5. CASE CallFails
  BY <1>5 DEF CallFails, Exit, Steps
<1>6. CASE Dies
  BY <1>6 DEF Dies, Exit, Files, Steps
<1>7. CASE Install \/ \E e \in Environments : Edit(e)
  BY <1>7 DEF Install, Edit, Files, Bounds
<1>8. CASE UNCHANGED startupVars
  BY <1>8 DEF startupVars
<1>9. QED
  BY <1>1, <1>3, <1>4, <1>5, <1>6, <1>7, <1>8
     DEF Next, StartupStep, StartupNext, Boot, Listening, recordDrop, Stored, Resume, Submit, vars

\* No breach id is used up by more than one line.
CountInv ==
  /\ breaches \in 0..MaxBreaches
  /\ Len(spool) <= breaches

LEMMA CountNext == LogInv /\ CountInv /\ [Next]_vars => CountInv'
<1> SUFFICES ASSUME LogInv, CountInv, [Next]_vars PROVE CountInv'
  OBVIOUS
<1>1. CASE UNCHANGED <<spool, breaches>>
  BY <1>1 DEF CountInv
<1>2. ASSUME NEW ev, NEW e, Stored(ev, e) PROVE CountInv'
  <2>1. breaches' = breaches + 1 /\ breaches < MaxBreaches /\ spool' \in {spool, Append(spool, e)}
    BY <1>2 DEF Stored
  <2>2. Len(spool) \in Nat /\ Len(Append(spool, e)) = Len(spool) + 1
    BY DEF LogInv
  <2>3. QED
    BY <2>1, <2>2, BreachAssumption DEF CountInv
<1>3. QED
  BY <1>1, <1>2 DEF Next, StartupStep, recordDrop, Resume, Submit, vars, attested

\* Theorem: type correctness; a running process has a configuration whose port is one,
\* breaches outnumber the lines of the spool, and the checkpoint and the submitter's
\* watermark lie within it (AttestationTypeOK).
THEOREM AttestationTypeCorrect == Spec => []AttestationTypeOK
<1>1. Init => CountInv
  BY BreachAssumption DEF Init, CountInv
<1>2. Spec => []CountInv
  BY <1>1, AttestationInvariant, CountNext, PTL DEF Spec, AttestationInv
<1>3. Spec => []StartupTypeOK
  BY StartupTypeInit, StartupTypeNext, PTL DEF Spec
<1>4. LogInv /\ CountInv /\ StartupTypeOK => AttestationTypeOK
  BY HeldIsNatural DEF LogInv, CountInv, AttestationTypeOK
<1>5. QED
  BY <1>2, <1>3, <1>4, AttestationInvariant, PTL DEF AttestationInv

\* Theorem: every spooled line verifies for Rekor and for clearing under the key it
\* carries, and its hash is the one clearing looks up, for any number of rotations, deaths
\* and breaches and any environments (EntriesStayVerifiable).
THEOREM SpooledEntriesStayVerifiable == Spec => []EntriesStayVerifiable
<1>1. LogInv => EntriesStayVerifiable
  <2> SUFFICES ASSUME LogInv, NEW i \in 1..Len(spool)
               PROVE  LET e == spool[i] IN
                      /\ Accepted(RekorPayload(e.event), e.second_sig, e.public_key_pem)
                      /\ verify_entry(e)
                      /\ e.payload_sha256 = canonical_reduced(e.event)
    BY DEF EntriesStayVerifiable, Lines
  <2>1. PICK e : e = spool[i]
    OBVIOUS
  <2>2. Sound(e)
    BY <2>1, EntriesAreSound DEF LogInv
  <2>3. QED
    BY <2>1, <2>2 DEF Sound, SignedBy, Accepted, verify_entry, Ed25519Verify, Ed25519Sign, RekorPayload,
                 ToCanonicalBytes, canonical_reduced, REDUCED_KEYS, canonical_signable, signableBytes
<1>2. QED
  BY <1>1, AttestationInvariant, PTL DEF AttestationInv

\* Theorem: the events a process serves verify under the key it serves for them, however
\* the environment is edited while it runs (ServedEventsVerify).
THEOREM ServedEventsAlwaysVerify == Spec => []ServedEventsVerify
<1>1. RingInv => ServedEventsVerify
  <2> SUFFICES ASSUME RingInv, NEW ev \in events
               PROVE  /\ getKeyByID(ev.attester_key_id) # None
                      /\ Verify(ev, getKeyByID(ev.attester_key_id))
    BY DEF ServedEventsVerify
  <2>1. getKeyByID(ev.attester_key_id) = cfg.SigningKey.priv /\ SignedBy(ev, cfg.SigningKey.priv)
    BY DEF RingInv, getKeyByID
  <2>2. cfg.SigningKey.priv # None
    BY KeysAreSet DEF RingInv
  <2>3. QED
    BY <2>1, <2>2 DEF SignedBy, Verify, Ed25519Verify, Ed25519Sign
<1>2. QED
  BY <1>1, AttestationInvariant, PTL DEF AttestationInv

\* Theorem: Rekor has one entry for each of the first lines of the spool, up to the
\* checkpoint and the submitter's watermark at least, and clearing's lookup finds these
\* lines and no others: a payload carries its breach id, ids are never used twice, and a
\* line submitted again is entered once, across restarts, replays and failed checkpoints in
\* any number (LookupIsExact).
THEOREM LookupsAreExact == Spec => []LookupIsExact
<1>1. LogInv => LookupIsExact
  <2> SUFFICES ASSUME LogInv PROVE LookupIsExact
    OBVIOUS
  <2>1. PICK n \in Nat : n = Cardinality(rekor) /\ n <= Len(spool) /\ Len(spool) \in Nat
    BY HeldIsNatural DEF LogInv
  <2>2. \A e : Submitted(e).sha256 = canonical_reduced(e.event)
    BY DEF Submitted, Kept, RekorPayload, ToCanonicalBytes, canonical_reduced, REDUCED_KEYS
  <2>3. \A e, f : canonical_reduced(e) = canonical_reduced(f) => e.breach_id = f.breach_id
    <3> SUFFICES ASSUME NEW e, NEW f, canonical_reduced(e) = canonical_reduced(f)
                 PROVE  e.breach_id = f.breach_id
      OBVIOUS
    <3>1. canonical_reduced(e)["breach_id"] = e.breach_id /\ canonical_reduced(f)["breach_id"] = f.breach_id
      BY DEF canonical_reduced, REDUCED_KEYS
    <3>2. QED
      BY <3>1
  <2>4. ASSUME NEW i \in 1..Len(spool), i <= n PROVE rekor_retrieve(spool[i].event)
    <3>1. Submitted(spool[i]) \in rekor
      BY <2>1, <2>4 DEF LogInv
    <3>2. QED
      BY <2>2, <3>1 DEF rekor_retrieve
  <2>5. ASSUME NEW i \in 1..Len(spool), rekor_retrieve(spool[i].event), ~(i <= n) PROVE FALSE
    <3>1. PICK r \in rekor : r.sha256 = canonical_reduced(spool[i].event)
      BY <2>5 DEF rekor_retrieve
    <3>2. PICK j \in 1..n : r = Submitted(spool[j])
      BY <2>1 DEF LogInv
    <3>3. spool[j].event.breach_id = spool[i].event.breach_id
      BY <2>2, <2>3, <3>1, <3>2
    <3>4. j \in 1..Len(spool) /\ j < i
      BY <2>1, <2>5, <3>2
    <3>5. QED
      BY <3>3, <3>4 DEF LogInv
  <2>6. checkpoint <= n /\ (off # None => off <= n)
    BY <2>1 DEF LogInv
  <2>7. \A i \in 1..Len(spool) : rekor_retrieve(spool[i].event) <=> i <= n
    BY <2>4, <2>5
  <2>8. QED
    BY <2>1, <2>6, <2>7 DEF LookupIsExact
<1>2. QED
  BY <1>1, AttestationInvariant, PTL DEF AttestationInv

(* Attestation implements AttestationLog: what Outbox promises holds of the signed lines   *)
(* and of what Rekor keeps of them as well.                                                *)

\* The lines that are attested: as many as Rekor has entries.
Log == INSTANCE AttestationLog WITH recorded <- spool, attested <- SubSeq(spool, 1, Cardinality(rekor))

LEMMA PrefixGrows ==
  ASSUME NEW S, NEW s \in Seq(S), NEW n \in Nat, n < Len(s)
  PROVE  Len(SubSeq(s, 1, n)) = n /\ SubSeq(s, 1, n + 1) = Append(SubSeq(s, 1, n), s[n + 1])
OBVIOUS

LEMMA PrefixStays ==
  ASSUME NEW S, NEW s \in Seq(S), NEW e \in S, NEW n \in 0..Len(s)
  PROVE  SubSeq(Append(s, e), 1, n) = SubSeq(s, 1, n)
OBVIOUS

LEMMA RecordRefines ==
  ASSUME AttestationInv, NEW d \in Drops, recordDrop(d)
  PROVE  [Log!Next]_(Log!vars)
<1> DEFINE ev == Made(d, cfg.SigningKey, breaches + 1)
           e == Entry(ev, cfg.SigningKey.priv, RekorPayload(ev))
<1>1. /\ spool' \in {spool, Append(spool, e)}
      /\ UNCHANGED rekor
      /\ pc = "serving"
  BY DEF recordDrop, Stored, Made
<1>2. e \in Entries
  <2>1. cfg.SigningKey \in Keys /\ breaches + 1 \in Nat
    BY <1>1 DEF AttestationInv, RingInv, LogInv
  <2>2. QED
    BY <2>1, LinesAreEntries
<1>3. e.event.breach_id = breaches + 1
  BY MadeSigned DEF Entry
<1> HIDE DEF e
<1>4. CASE spool' = spool
  BY <1>1, <1>4 DEF Log!vars
<1>5. CASE spool' = Append(spool, e)
  <2>1. spool \in Seq(Entries) /\ Cardinality(rekor) \in 0..Len(spool)
    BY HeldIsNatural DEF AttestationInv, LogInv
  <2>2. \A i \in 1..Len(spool) : spool[i] # e
    BY <1>3 DEF AttestationInv, LogInv
  <2>3. SubSeq(spool', 1, Cardinality(rekor)) = SubSeq(spool, 1, Cardinality(rekor))
    BY <1>2, <1>5, <2>1, PrefixStays
  <2>4. Log!Record(e)
    BY <1>1, <1>5, <2>2, <2>3 DEF Log!Record
  <2>5. QED
    BY <1>2, <2>4 DEF Log!Next
<1>6. QED
  BY <1>1, <1>4, <1>5

LEMMA SubmitRefines ==
  ASSUME AttestationInv, Submit
  PROVE  [Log!Next]_(Log!vars)
<1>1. spool \in Seq(Entries) /\ UNCHANGED spool
  BY SubmitEffect DEF AttestationInv
<1>2. CASE rekor' = rekor
  BY <1>1, <1>2 DEF Log!vars
<1>3. CASE /\ off \in Nat /\ off = Cardinality(rekor) /\ off < Len(spool)
           /\ Cardinality(rekor') = off + 1
  <2>1. /\ Len(SubSeq(spool, 1, off)) = off
        /\ SubSeq(spool, 1, off + 1) = Append(SubSeq(spool, 1, off), spool[off + 1])
    BY <1>1, <1>3, PrefixGrows
  <2>2. Log!Attest
    BY <1>1, <1>3, <2>1 DEF Log!Attest
  <2>3. QED
    BY <2>2 DEF Log!Next
<1>4. QED
  BY <1>2, <1>3, SubmitEffect DEF AttestationInv

\* Theorem: whatever keys processes run with and however often they die, drops are recorded
\* as lines that are all distinct, and Rekor is given each line once, in the order of the
\* spool: a line submitted again, by a process that begins below it because the checkpoint
\* was not written or cannot be read, adds nothing.
THEOREM AttestationImplementsLog == Spec => Log!Spec
<1>1. Init => Log!Init
  <2>1. SubSeq(<<>>, 1, 0) = <<>>
    OBVIOUS
  <2>2. QED
    BY <2>1, FS_EmptySet DEF Init, Log!Init
<1>2. AttestationInv /\ [Next]_vars => [Log!Next]_(Log!vars)
  <2> SUFFICES ASSUME AttestationInv, [Next]_vars PROVE [Log!Next]_(Log!vars)
    OBVIOUS
  <2>1. CASE UNCHANGED <<spool, rekor>>
    BY <2>1 DEF Log!vars
  <2>2. QED
    BY <2>1, RecordRefines, SubmitRefines DEF Next, StartupStep, Resume, vars, attested
<1>3. QED
  BY <1>1, <1>2, AttestationInvariant, PTL DEF Spec, Log!Spec
=============================================================================
