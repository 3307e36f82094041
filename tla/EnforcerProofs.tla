--------------------------- MODULE EnforcerProofs ---------------------------
(***************************************************************************)
(* Proofs about Enforcer for any sessions and agents, any capacities and   *)
(* any number of packets, calls and crashes.                               *)
(***************************************************************************)
EXTENDS Enforcer, SandboxProofs, FiniteSetTheorems

(* The handlers drive the sandbox as Sandbox allows. *)

LEMMA EnforcerRefinesSandbox == [Next]_vars => [SandboxNext]_sandboxVars
<1> SUFFICES ASSUME [Next]_vars PROVE [SandboxNext]_sandboxVars
  OBVIOUS
<1>1. CASE Handlers
  BY <1>1 DEF Handlers, createSession, deleteSession, BackendStep, ListenFromZero, StopAndForget,
              AnswerCreate, AnswerDelete, SandboxNext
<1>2. CASE RestartEnforcer
  BY <1>2 DEF RestartEnforcer, SandboxNext
<1>3. CASE Consumer
  BY <1>3 DEF Consumer, ReceiveDrop, RecordUnknown, RecordRefused, RecordAdmitted, AppendEvent,
              AppendEventFails, CountFailedAppend
<1>4. CASE UNCHANGED vars
  BY <1>4 DEF vars
<1>5. QED
  BY <1>1, <1>2, <1>3, <1>4 DEF Next, PacketDropped, SendDrop, SendStray

\* Theorem: whatever the handlers, the hooks and the consumer do, the sandboxes live as
\* Sandbox says, so that its theorems hold of the enforcer.
THEOREM EnforcerImplementsSandbox == Spec => SandboxSpec
<1>1. Init => SandboxInit
  BY DEF Init
<1>2. QED
  BY <1>1, EnforcerRefinesSandbox, PTL DEF Spec, SandboxSpec

LEMMA EnforcerSandboxInv == Spec => []SandboxInv
BY EnforcerImplementsSandbox, SandboxInvariant, PTL
-----------------------------------------------------------------------------
(* Records and sandboxes. *)

\* The record and the sandbox part only while the answer is being given.
Answering(kind) == Doing(kind, "ok")
RecordInv ==
  /\ cred \in [Sessions -> Agents \cup {None}]
  /\ owner \in [Sessions -> Agents \cup {None}]
  /\ call.kind = "create" => owner[call.session] \in Agents
  /\ Answering("create") => call.session \in active
  /\ Answering("destroy") \/ call.step = "missing" => call.session \notin active
  /\ \A s \in Sessions :
       (Answering("create") \/ Answering("destroy") => s # call.session) =>
         (cred[s] # None <=> s \in active)

LEMMA RecordInit == Init => RecordInv
BY DEF Init, SandboxInit, RecordInv, Answering, Doing, Idle

LEMMA RecordNext == SandboxInv /\ SandboxInv' /\ RecordInv /\ [Next]_vars => RecordInv'
<1> SUFFICES ASSUME SandboxInv, SandboxInv', RecordInv, [Next]_vars PROVE RecordInv'
  OBVIOUS
<1> USE AgentAssumption
        DEF SandboxInv, SandboxTypeOK, CallInv, RecordInv, Answering, Doing, Idle, Goto, controller, apiVars
<1>1. ASSUME NEW s \in Sessions, NEW a \in Agents, createSession(s, a) PROVE RecordInv'
  BY <1>1 DEF createSession, CreateSandbox, At
<1>2. ASSUME NEW s \in Sessions, deleteSession(s) PROVE RecordInv'
  BY <1>2 DEF deleteSession, DestroySandbox, At
<1>3. CASE BackendStep
  <2>1. UNCHANGED <<cred, owner, creates>> /\ ProvisionStep
    BY <1>3 DEF BackendStep
  <2>2. CASE EnableForwarding
    BY <2>1, <2>2 DEF EnableForwarding
  <2>3. CASE FinishDestroy
    BY <2>1, <2>3 DEF FinishDestroy
  <2>4. CASE ~EnableForwarding /\ ~FinishDestroy
    <3>1. /\ UNCHANGED active
          /\ call.step \notin {"ok", "missing"}
          /\ \E step \in {"rules", "listener", "link", "route", "forward", "stop", "del", "failed"} :
               call' = [call EXCEPT !.step = step]
      BY <2>1, <2>4 DEF ProvisionStep, AddNetns, AddNetnsFails, ApplyRuleset, ApplyRulesetFails,
         StartListenerFails, AddLink, AddLinkFails, AddRoute, UplinkFails, UndoCreate, DelFails
    <3>2. QED
      BY <2>1, <3>1
  <2>5. QED
    BY <2>2, <2>3, <2>4
<1>4. CASE ListenFromZero
  BY <1>4 DEF ListenFromZero, StartListener
<1>5. CASE StopAndForget
  BY <1>5 DEF StopAndForget, StopListener
<1>6. CASE AnswerCreate
  BY <1>6 DEF AnswerCreate, Return
<1>7. CASE AnswerDelete
  BY <1>7 DEF AnswerDelete, Return
<1>8. CASE RestartEnforcer
  BY <1>8 DEF RestartEnforcer, Restart
<1>9. CASE UNCHANGED <<call, active, cred, owner>>
  BY <1>9
<1>10. QED
  BY <1>1, <1>2, <1>3, <1>4, <1>5, <1>6, <1>7, <1>8, <1>9
     DEF Next, Handlers, Consumer, ReceiveDrop, RecordUnknown, RecordRefused, RecordAdmitted,
         AppendEvent, AppendEventFails, CountFailedAppend, PacketDropped, SendDrop, SendStray,
         vars, sandboxVars

LEMMA RecordInvariant == Spec => []RecordInv
BY RecordInit, RecordNext, EnforcerSandboxInv, PTL DEF Spec

\* Theorem: between calls the API's sessions are the Controller's active ones, whatever
\* commands failed and wherever the process died (RecordsMatchSandboxes).
THEOREM RecordsAlwaysMatch == Spec => []RecordsMatchSandboxes
<1>1. SandboxInv /\ RecordInv => RecordsMatchSandboxes
  BY DEF SandboxInv, SandboxTypeOK, RecordInv, RecordsMatchSandboxes, Answering, Doing, Idle
<1>2. QED
  BY <1>1, RecordInvariant, EnforcerSandboxInv, PTL
-----------------------------------------------------------------------------
(* The drop pipeline. *)

\* What a stage holds: only sessions with an owner are listened to, and the consumer has a
\* drop until it has made an event of it.
StageInv ==
  /\ EnforcerTypeOK
  /\ events \in [Sessions -> Seq(Event)]
  /\ \A s \in listeners : owner[s] \in Agents
  /\ worker.pc = "record" => worker.drop \in Drop
  /\ worker.pc \in {"append", "loss"} => worker.drop \in Event

LEMMA StageInit == Init => StageInv
<1> SUFFICES ASSUME Init PROVE StageInv
  OBVIOUS
<1>1. EnforcerTypeOK
  BY CapAssumption, BoundAssumption DEF Init, EnforcerTypeOK, NoDrop
<1>2. QED
  BY <1>1 DEF Init, SandboxInit, StageInv, NoDrop

LEMMA PushedFits ==
  ASSUME NEW ring \in Seq(Event), NEW ev \in Event, Len(ring) <= eventsCap
  PROVE  /\ Pushed(ring, ev) \in Seq(Event)
         /\ Len(Pushed(ring, ev)) = IF Len(ring) >= eventsCap THEN Len(ring) ELSE Len(ring) + 1
BY CapAssumption DEF Pushed

LEMMA RefilledFits ==
  ASSUME tokens \in [Sessions -> 0..bucketBurst \cup {None}], NEW s \in Sessions, NEW r \in Nat
  PROVE  Refilled(s, r) \in 0..bucketBurst
<1>1. bucketBurst \in Nat
  BY CapAssumption
<1>2. CASE tokens[s] = None
  BY <1>1, <1>2 DEF Refilled
<1>3. CASE tokens[s] # None /\ tokens[s] \in 0..bucketBurst
  BY <1>1, <1>3 DEF Refilled
<1>4. QED
  BY <1>2, <1>3

LEMMA AppendFits ==
  ASSUME NEW q \in Seq(Drop), NEW d \in Drop, Len(q) < dropsCap
  PROVE  Append(q, d) \in Seq(Drop) /\ Len(Append(q, d)) <= dropsCap
BY CapAssumption

LEMMA CounterUpdate ==
  ASSUME NEW f \in [Sessions -> Nat], NEW s \in Sessions, NEW n \in Nat
  PROVE  [f EXCEPT ![s] = n] \in [Sessions -> Nat]
OBVIOUS

LEMMA RingUpdate ==
  ASSUME NEW f \in [Sessions -> Seq(Event)], \A x \in Sessions : Len(f[x]) <= eventsCap,
         NEW s \in Sessions, NEW ring \in Seq(Event), Len(ring) <= eventsCap,
         NEW g, g = [f EXCEPT ![s] = ring]
  PROVE  g \in [Sessions -> Seq(Event)] /\ \A x \in Sessions : Len(g[x]) <= eventsCap
OBVIOUS

LEMMA TokensUpdate ==
  ASSUME NEW f \in [Sessions -> 0..bucketBurst \cup {None}], NEW s \in Sessions, NEW n \in 0..bucketBurst
  PROVE  [f EXCEPT ![s] = n] \in [Sessions -> 0..bucketBurst \cup {None}]
OBVIOUS

LEMMA StageNext == SandboxInv /\ RecordInv /\ StageInv /\ [Next]_vars => StageInv'
<1> SUFFICES ASSUME SandboxInv, RecordInv, StageInv, [Next]_vars PROVE StageInv'
  OBVIOUS
<1>0. /\ dropsCap \in Nat \ {0} /\ eventsCap \in Nat \ {0} /\ bucketBurst \in Nat \ {0}
      /\ MaxPackets \in Nat /\ MaxCreates \in Nat
      /\ None \notin Nat /\ None \notin Agents
  BY AgentAssumption, NoneAssumption, CapAssumption, BoundAssumption
<1> USE <1>0
    DEF StageInv, EnforcerTypeOK, RecordInv, accounting, pipeline, apiVars, sandboxVars, controller, NoDrop
<1>1. ASSUME NEW s \in Sessions, NEW a \in Agents, createSession(s, a) PROVE StageInv'
  <2>1. /\ creates' = creates + 1 /\ creates < MaxCreates
        /\ heard' = [heard EXCEPT ![s] = 0]
        /\ owner' = [owner EXCEPT ![s] = a]
        /\ UNCHANGED <<listeners, cred, accounting, hook, strays, drops, worker, spooled>>
    BY <1>1 DEF createSession, CreateSandbox
  <2>2. creates' \in 0..MaxCreates /\ heard' \in [Sessions -> 0..MaxPackets]
    BY <2>1
  <2>3. QED
    BY <2>1, <2>2
<1>2. ASSUME NEW s \in Sessions, deleteSession(s) PROVE StageInv'
  BY <1>2 DEF deleteSession, DestroySandbox
<1>3. CASE BackendStep
  <2>1. UNCHANGED listeners
    BY <1>3 DEF BackendStep, ProvisionStep, AddNetns, AddNetnsFails, ApplyRuleset, ApplyRulesetFails,
         StartListenerFails, AddLink, AddLinkFails, AddRoute, EnableForwarding, UplinkFails, UndoCreate,
         FinishDestroy, DelFails
  <2>2. QED
    BY <1>3, <2>1 DEF BackendStep
<1>4. CASE ListenFromZero
  <2>1. call.kind = "create" /\ call.session \in Sessions
    BY <1>4 DEF ListenFromZero, StartListener, Doing, SandboxInv, SandboxTypeOK, Idle
  <2>2. QED
    BY <1>4, <2>1 DEF ListenFromZero, StartListener
<1>5. CASE StopAndForget
  <2>1. call.session \in Sessions
    BY <1>5 DEF StopAndForget, StopListener, SandboxInv, SandboxTypeOK, Idle
  <2>2. hook[call.session] # None => [session |-> call.session, from |-> hook[call.session]] \in Drop
    BY <2>1 DEF Drop
  <2>3. strays' \subseteq Drop
    BY <1>5, <2>2 DEF StopAndForget
  <2>4. QED
    BY <1>5, <2>1, <2>3 DEF StopAndForget, StopListener
<1>6. CASE AnswerCreate
  <2>1. call.session \in Sessions
    BY <1>6 DEF AnswerCreate, SandboxInv, SandboxTypeOK, Idle
  <2>2. QED
    <3>1. cred' \in [Sessions -> Agents \cup {None}]
      BY <1>6, <2>1 DEF AnswerCreate
    <3>2. events' = events \/ events' = [events EXCEPT ![call.session] = <<>>]
      BY <1>6 DEF AnswerCreate
    <3>3. events' \in [Sessions -> Seq(Event)] /\ \A s \in Sessions : Len(events'[s]) <= eventsCap
      <4>1. <<>> \in Seq(Event) /\ Len(<<>>) <= eventsCap
        OBVIOUS
      <4>2. CASE events' = [events EXCEPT ![call.session] = <<>>]
        BY <2>1, <4>1, <4>2, RingUpdate
      <4>3. QED
        BY <3>2, <4>2
    <3>4. UNCHANGED <<listeners, owner, creates, lostDrops, losses, tokens, pipeline>>
      BY <1>6 DEF AnswerCreate, Return
    <3>5. QED
      BY <3>1, <3>3, <3>4
<1>7. CASE AnswerDelete
  <2>1. call.session \in Sessions
    BY <1>7 DEF AnswerDelete, SandboxInv, SandboxTypeOK, Idle
  <2>2. QED
    <3>1. cred' \in [Sessions -> Agents \cup {None}]
      BY <1>7, <2>1 DEF AnswerDelete
    <3>2. events' = events \/ events' = [events EXCEPT ![call.session] = <<>>]
      BY <1>7 DEF AnswerDelete
    <3>3. events' \in [Sessions -> Seq(Event)] /\ \A s \in Sessions : Len(events'[s]) <= eventsCap
      <4>1. <<>> \in Seq(Event) /\ Len(<<>>) <= eventsCap
        OBVIOUS
      <4>2. CASE events' = [events EXCEPT ![call.session] = <<>>]
        BY <2>1, <4>1, <4>2, RingUpdate
      <4>3. QED
        BY <3>2, <4>2
    <3>4. UNCHANGED <<listeners, owner, creates, lostDrops, pipeline>>
      BY <1>7 DEF AnswerDelete, Return
    <3>5. tokens' \in [Sessions -> 0..bucketBurst \cup {None}]
      BY <1>7, <2>1 DEF AnswerDelete
    <3>6. losses' \in [Sessions -> Nat]
      <4>1. losses' = losses \/ losses' = [losses EXCEPT ![call.session] = 0]
        BY <1>7 DEF AnswerDelete
      <4>2. losses \in [Sessions -> Nat]
        OBVIOUS
      <4> HIDE DEF StageInv, EnforcerTypeOK, RecordInv
      <4>3. QED
        BY <2>1, <4>1, <4>2, CounterUpdate
    <3>7. QED
      BY <3>1, <3>3, <3>4, <3>5, <3>6
<1>8. CASE RestartEnforcer
  BY <1>8 DEF RestartEnforcer, Restart
<1>9. ASSUME NEW s \in Sessions, PacketDropped(s) PROVE StageInv'
  BY <1>9 DEF PacketDropped
<1>10. ASSUME NEW s \in Sessions, SendDrop(s) PROVE StageInv'
  <2>1. [session |-> s, from |-> hook[s]] \in Drop
    BY <1>10 DEF SendDrop, Drop
  <2>2. PICK d \in Drop : d = [session |-> s, from |-> hook[s]]
    BY <2>1
  <2>3. drops' \in Seq(Drop) /\ Len(drops') <= dropsCap
    <3>1. drops' = drops \/ (Len(drops) < dropsCap /\ drops' = Append(drops, d))
      BY <1>10, <2>2 DEF SendDrop
    <3>2. drops \in Seq(Drop) /\ Len(drops) <= dropsCap
      OBVIOUS
    <3> HIDE DEF StageInv, EnforcerTypeOK, RecordInv
    <3>3. QED
      BY <3>1, <3>2, AppendFits
  <2>4. lostDrops' \in [Sessions -> Nat]
    <3>1. lostDrops' = lostDrops \/ lostDrops' = [lostDrops EXCEPT ![s] = lostDrops[s] + 1]
      BY <1>10 DEF SendDrop
    <3>2. lostDrops[s] + 1 \in Nat
      OBVIOUS
    <3>3. QED
      BY <3>1, <3>2, CounterUpdate
  <2>5. hook' \in [Sessions -> Agents \cup {None}]
    BY <1>10 DEF SendDrop
  <2>6. QED
    BY <1>10, <2>3, <2>4, <2>5 DEF SendDrop
<1>11. ASSUME NEW d \in strays, SendStray(d) PROVE StageInv'
  BY <1>11 DEF SendStray
<1>12. CASE ReceiveDrop
  BY <1>12 DEF ReceiveDrop
<1>13. CASE RecordUnknown
  BY <1>13 DEF RecordUnknown
<1>14. CASE RecordRefused
  <2>1. worker.drop.session \in Sessions
    BY <1>14 DEF RecordRefused, Recording, Drop
  <2>2. tokens' \in [Sessions -> 0..bucketBurst \cup {None}]
    <3>1. tokens \in [Sessions -> 0..bucketBurst \cup {None}] /\ 0 \in 0..bucketBurst
      OBVIOUS
    <3>2. tokens' = [tokens EXCEPT ![worker.drop.session] = 0]
      BY <1>14 DEF RecordRefused
    <3>3. QED
      BY <2>1, <3>1, <3>2, TokensUpdate, Zenon
  <2>3. losses' \in [Sessions -> Nat]
    BY <1>14, <2>1, CounterUpdate DEF RecordRefused
  <2>4. QED
    BY <1>14, <2>2, <2>3 DEF RecordRefused
<1>15. CASE RecordAdmitted
  <2> DEFINE s == worker.drop.session
             ev == [session |-> s, agent |-> cred[s], from |-> worker.drop.from]
  <2>1. s \in Sessions /\ cred[s] \in Agents /\ ev \in Event
    BY <1>15 DEF RecordAdmitted, Recording, Drop, Event
  <2>2. PICK r \in 0..bucketBurst :
          Refilled(s, r) >= 1 /\ tokens' = [tokens EXCEPT ![s] = Refilled(s, r) - 1]
    BY <1>15 DEF RecordAdmitted
  <2>3. Refilled(s, r) \in 0..bucketBurst
    <3>1. PICK x \in Sessions : x = s
      BY <2>1
    <3>2. r \in Nat /\ tokens \in [Sessions -> 0..bucketBurst \cup {None}]
      OBVIOUS
    <3>3. Refilled(x, r) \in 0..bucketBurst
      BY <3>2, RefilledFits
    <3>4. QED
      BY <3>1, <3>3
  <2>4. tokens' \in [Sessions -> 0..bucketBurst \cup {None}]
    BY <2>1, <2>2, <2>3
  <2>5. Pushed(events[s], ev) \in Seq(Event) /\ Len(Pushed(events[s], ev)) <= eventsCap
    <3>1. events[s] \in Seq(Event) /\ Len(events[s]) <= eventsCap
      BY <2>1
    <3>2. PICK ring : ring = events[s]
      OBVIOUS
    <3> HIDE DEF ev, s
    <3>3. QED
      BY <2>1, <3>1, <3>2, PushedFits
  <2>6. /\ events' = [events EXCEPT ![s] = Pushed(@, ev)]
        /\ losses' = [losses EXCEPT ![s] = IF Len(events[s]) >= eventsCap THEN @ + 1 ELSE @]
        /\ worker' = [pc |-> "append", drop |-> ev]
        /\ UNCHANGED <<sandboxVars, lostDrops, hook, strays, drops, spooled, heard, apiVars>>
    BY <1>15 DEF RecordAdmitted
  <2>7. losses' \in [Sessions -> Nat]
    <3>1. losses \in [Sessions -> Nat] /\ losses[s] \in Nat /\ s \in Sessions
      BY <2>1
    <3>2. (IF Len(events[s]) >= eventsCap THEN losses[s] + 1 ELSE losses[s]) \in Nat
      BY <3>1
    <3>3. QED
      BY <2>6, <3>1, <3>2, CounterUpdate
  <2> HIDE DEF ev, s
  <2>8. events' \in [Sessions -> Seq(Event)] /\ \A x \in Sessions : Len(events'[x]) <= eventsCap
    BY <2>1, <2>5, <2>6
  <2>9. QED
    BY <2>1, <2>4, <2>6, <2>7, <2>8
<1>16. CASE AppendEvent
  BY <1>16 DEF AppendEvent
<1>17. CASE AppendEventFails
  BY <1>17 DEF AppendEventFails
<1>18. CASE CountFailedAppend
  <2>1. worker.drop.session \in Sessions
    BY <1>18 DEF CountFailedAppend, Event
  <2>2. losses' \in [Sessions -> Nat]
    <3>1. losses \in [Sessions -> Nat]
      OBVIOUS
    <3>2. losses[worker.drop.session] + 1 \in Nat
      BY <2>1, <3>1
    <3>3. QED
      BY <1>18, <2>1, <3>1, <3>2, CounterUpdate DEF CountFailedAppend
  <2>3. QED
    BY <1>18, <2>2 DEF CountFailedAppend
<1>19. CASE UNCHANGED vars
  BY <1>19 DEF vars
<1>20. QED
  BY <1>1, <1>2, <1>3, <1>4, <1>5, <1>6, <1>7, <1>8, <1>9, <1>10, <1>11, <1>12, <1>13, <1>14, <1>15, <1>16, <1>17, <1>18, <1>19
     DEF Next, Handlers, Consumer

LEMMA StageInvariant == Spec => []StageInv
BY StageInit, StageNext, RecordInvariant, EnforcerSandboxInv, PTL DEF Spec

\* Theorem: every stage of the pipeline stays within its capacity, and every variable
\* keeps its type, the token buckets included (EnforcerTypeOK).
THEOREM EnforcerTypeCorrect == Spec => []EnforcerTypeOK
<1>1. StageInv => EnforcerTypeOK
  BY DEF StageInv
<1>2. QED
  BY <1>1, StageInvariant, PTL
-----------------------------------------------------------------------------
(* Counting drops. *)

Count(q, s) == Cardinality({i \in 1..Len(q) : q[i].session = s})

LEMMA CountType ==
  ASSUME NEW q \in Seq(Drop), NEW s
  PROVE  IsFiniteSet({i \in 1..Len(q) : q[i].session = s}) /\ Count(q, s) \in Nat
<1>1. IsFiniteSet(1..Len(q))
  BY FS_Interval
<1>2. {i \in 1..Len(q) : q[i].session = s} \in SUBSET (1..Len(q))
  OBVIOUS
<1>3. IsFiniteSet({i \in 1..Len(q) : q[i].session = s})
  BY <1>1, <1>2, FS_Subset
<1>4. QED
  BY <1>3, FS_CardinalityType DEF Count

LEMMA CountAppend ==
  ASSUME NEW q \in Seq(Drop), NEW d \in Drop, NEW s
  PROVE  Count(Append(q, d), s) = Count(q, s) + (IF d.session = s THEN 1 ELSE 0)
<1> DEFINE A == {i \in 1..Len(q) : q[i].session = s}
           B == {i \in 1..Len(Append(q, d)) : Append(q, d)[i].session = s}
<1>1. IsFiniteSet(A) /\ Cardinality(A) \in Nat
  BY CountType DEF Count
<1>2. CASE d.session = s
  <2>1. B = A \cup {Len(q) + 1} /\ Len(q) + 1 \notin A
    BY <1>2
  <2>2. Count(Append(q, d), s) = Cardinality(B) /\ Count(q, s) = Cardinality(A)
    BY DEF Count
  <2> HIDE DEF A, B
  <2>3. Cardinality(A \cup {Len(q) + 1}) = Cardinality(A) + 1
    BY <1>1, <2>1, FS_AddElement
  <2>4. QED
    BY <1>2, <2>1, <2>2, <2>3
<1>3. CASE d.session # s
  <2>1. B = A
    BY <1>3
  <2>2. Count(Append(q, d), s) = Cardinality(B) /\ Count(q, s) = Cardinality(A)
    BY DEF Count
  <2> HIDE DEF A, B
  <2>3. QED
    BY <1>1, <1>3, <2>1, <2>2
<1>4. QED
  BY <1>2, <1>3

LEMMA CountTail ==
  ASSUME NEW q \in Seq(Drop), q # <<>>, NEW s
  PROVE  Count(q, s) = Count(Tail(q), s) + (IF Head(q).session = s THEN 1 ELSE 0)
<1> DEFINE A == {i \in 1..Len(q) : q[i].session = s}
           B == {i \in 1..Len(Tail(q)) : Tail(q)[i].session = s}
           f == [i \in B |-> i + 1]
<1>1. IsFiniteSet(A) /\ Cardinality(A) \in Nat
  BY CountType DEF Count
<1>2. Tail(q) \in Seq(Drop) /\ Len(Tail(q)) = Len(q) - 1 /\ \A i \in 1..Len(q) - 1 : Tail(q)[i] = q[i + 1]
  OBVIOUS
<1>3. IsFiniteSet(B) /\ Cardinality(B) \in Nat
  BY <1>2, CountType DEF Count
<1>4. ExistsBijection(B, A \ {1})
  <2>1. f \in [B -> A \ {1}]
    BY <1>2
  <2>2. \A i, j \in B : f[i] = f[j] => i = j
    OBVIOUS
  <2>3. \A k \in A \ {1} : k - 1 \in B /\ f[k - 1] = k
    <3> TAKE k \in A \ {1}
    <3>1. k - 1 \in 1..Len(q) - 1 /\ (k - 1) + 1 = k
      OBVIOUS
    <3>2. Tail(q)[k - 1] = q[k]
      BY <1>2, <3>1
    <3>3. k - 1 \in B
      BY <1>2, <3>1, <3>2
    <3>4. QED
      BY <3>1, <3>3
  <2> HIDE DEF A, B, f
  <2>4. f \in Bijection(B, A \ {1})
    BY <2>1, <2>2, <2>3 DEF Bijection, Injection, Surjection, IsInjective
  <2>5. QED
    BY <2>4 DEF ExistsBijection
<1>5. Cardinality(A \ {1}) = Cardinality(B)
  BY <1>3, <1>4, FS_Bijection
<1>6. Cardinality(A \ {1}) = IF 1 \in A THEN Cardinality(A) - 1 ELSE Cardinality(A)
  BY <1>1, FS_RemoveElement
<1>7. (1 \in A) <=> (Head(q).session = s)
  OBVIOUS
<1>8. Count(q, s) = Cardinality(A) /\ Count(Tail(q), s) = Cardinality(B)
  BY DEF Count
<1> HIDE DEF A, B
<1>9. QED
  BY <1>1, <1>3, <1>5, <1>6, <1>7, <1>8
-----------------------------------------------------------------------------
(* Every packet is accounted for. *)

InHook(s) == IF hook[s] # None THEN 1 ELSE 0
InWorker(s) == IF worker.pc = "record" /\ worker.drop.session = s THEN 1 ELSE 0
Waiting(s) == lostDrops[s] + Count(drops, s) + InHook(s) + InWorker(s)
Counted(s) == Len(events[s]) + losses[s] + Waiting(s)

Phase(s, kind, steps) == call.kind = kind /\ call.session = s /\ call.step \in steps

\* A listener belongs to an active session or to the Create under way, and is gone when
\* Destroy deletes the namespace.
ListenInv ==
  /\ \A s \in listeners : s \in active \/ Phase(s, "create", {"link", "route", "forward", "stop"})
  /\ Doing("destroy", "del") => call.session \notin listeners

\* A new session has heard nothing before its listener starts, and what it hears until the
\* answer is given waits, as recordDrop waits for the lock.  From its Stop on a session
\* that is being destroyed is counted no more.
AccountInv ==
  \A s \in Sessions :
    /\ cred[s] # None /\ ~Phase(s, "destroy", {"del", "ok"}) => heard[s] <= Counted(s)
    /\ Phase(s, "create", {"netns", "rules", "listener"}) => heard[s] = 0
    /\ Phase(s, "create", {"link", "route", "forward", "ok"}) => heard[s] <= Waiting(s)

LEMMA ListenNext == SandboxInv /\ ListenInv /\ [SandboxNext]_sandboxVars => ListenInv'
<1> SUFFICES ASSUME SandboxInv, ListenInv, [SandboxNext]_sandboxVars PROVE ListenInv'
  OBVIOUS
<1> USE DEF sandboxVars, controller, kernel, SandboxInv, SandboxTypeOK, CallInv, ListenInv, Phase, Idle,
            Doing, Target, Goto
<1>1. ASSUME NEW s \in Sessions, CreateSandbox(s) \/ DestroySandbox(s) PROVE ListenInv'
  <2>1. CASE CreateSandbox(s)
    BY <2>1 DEF CreateSandbox, At
  <2>2. CASE DestroySandbox(s)
    BY <2>2 DEF DestroySandbox, At
  <2>3. QED
    BY <1>1, <2>1, <2>2
<1>2. CASE StartListener
  BY <1>2 DEF StartListener
<1>3. CASE StopListener
  BY <1>3 DEF StopListener
<1>4. CASE AddLink \/ AddLinkFails \/ AddRoute
  BY <1>4 DEF AddLink, AddLinkFails, AddRoute
<1>5. CASE EnableForwarding \/ UplinkFails
  BY <1>5 DEF EnableForwarding, UplinkFails, freeUplink
<1>6. CASE FinishDestroy
  BY <1>6 DEF FinishDestroy
<1>7. CASE AddNetns \/ AddNetnsFails \/ ApplyRuleset \/ ApplyRulesetFails \/ StartListenerFails
  BY <1>7 DEF AddNetns, AddNetnsFails, ApplyRuleset, ApplyRulesetFails, StartListenerFails
<1>8. CASE UndoCreate \/ DelFails \/ Return
  BY <1>8 DEF UndoCreate, DelFails, Return
<1>9. CASE Restart
  BY <1>9 DEF Restart
<1>10. CASE UNCHANGED sandboxVars
  BY <1>10
<1>11. QED
  BY <1>1, <1>2, <1>3, <1>4, <1>5, <1>6, <1>7, <1>8, <1>9, <1>10 DEF SandboxNext, ProvisionStep

LEMMA WaitingType ==
  ASSUME StageInv, NEW s \in Sessions
  PROVE  /\ lostDrops[s] \in Nat /\ losses[s] \in Nat /\ heard[s] \in Nat
         /\ Count(drops, s) \in Nat /\ Len(events[s]) \in Nat
         /\ InHook(s) \in 0..1 /\ InWorker(s) \in 0..1
<1>1. lostDrops[s] \in Nat /\ losses[s] \in Nat /\ heard[s] \in Nat
  BY BoundAssumption DEF StageInv, EnforcerTypeOK
<1>2. Count(drops, s) \in Nat
  BY CountType DEF StageInv, EnforcerTypeOK
<1>3. Len(events[s]) \in Nat
  BY DEF StageInv
<1>4. QED
  BY <1>1, <1>2, <1>3 DEF InHook, InWorker

LEMMA SumType ==
  ASSUME NEW a \in Nat, NEW b \in Nat, NEW c \in Nat, NEW d \in Nat
  PROVE  a + b + c + d \in Nat
OBVIOUS

LEMMA SumCovers ==
  ASSUME NEW a \in Nat, NEW b \in Nat, NEW c \in Nat, NEW h \in Nat, h <= c
  PROVE  h <= a + b + c
OBVIOUS

LEMMA SumGrows ==
  ASSUME NEW a \in Nat, NEW b \in Nat, NEW c \in Nat
  PROVE  a + b + c \in Nat /\ a + b + c >= c
OBVIOUS

LEMMA InPipeType == \A s : InHook(s) \in Nat /\ InWorker(s) \in Nat
BY DEF InHook, InWorker

LEMMA CountedType ==
  ASSUME StageInv, NEW s \in Sessions
  PROVE  Waiting(s) \in Nat /\ Counted(s) \in Nat /\ Counted(s) >= Waiting(s)
<1>1. lostDrops[s] \in Nat /\ losses[s] \in Nat /\ Count(drops, s) \in Nat /\ Len(events[s]) \in Nat
      /\ InHook(s) \in Nat /\ InWorker(s) \in Nat
  BY WaitingType, InPipeType, Zenon
<1>2. Waiting(s) \in Nat
  BY <1>1, SumType, Zenon DEF Waiting
<1>3. QED
  BY <1>1, <1>2, SumGrows, Zenon DEF Counted

LEMMA CountedTypeNext ==
  ASSUME StageInv', NEW s \in Sessions
  PROVE  Waiting(s)' \in Nat /\ Counted(s)' \in Nat /\ heard'[s] \in Nat
<1>1. lostDrops'[s] \in Nat /\ losses'[s] \in Nat /\ heard'[s] \in Nat
  BY BoundAssumption DEF StageInv, EnforcerTypeOK
<1>2. Count(drops', s) \in Nat
  BY CountType DEF StageInv, EnforcerTypeOK
<1>3. Len(events'[s]) \in Nat
  BY DEF StageInv
<1>4. InHook(s)' \in Nat /\ InWorker(s)' \in Nat
  BY DEF InHook, InWorker
<1>5. Waiting(s)' \in Nat
  BY <1>1, <1>2, <1>4, SumType, Zenon DEF Waiting
<1>6. QED
  BY <1>1, <1>3, <1>5, SumGrows, Zenon DEF Counted

\* Nothing is heard and what waits stays the same.
LEMMA Steady ==
  ASSUME NEW h \in Nat, NEW w \in Nat, NEW g, NEW v, g = h, v = w
  PROVE  g + w <= h + v
OBVIOUS

\* What leaves the channel is in the worker.
LEMMA Moved ==
  ASSUME NEW x \in Nat, NEW c \in Nat, NEW h \in Nat, NEW m \in Nat
  PROVE  x + (c + m) + h + 0 = x + c + h + m
OBVIOUS

\* The ring, the lost and what is under way.
LEMMA Regrouped ==
  ASSUME NEW e \in Nat, NEW l \in Nat, NEW d \in Nat, NEW c \in Nat, NEW h \in Nat, NEW w \in Nat
  PROVE  e + l + (d + c + h + w) = e + (l + d) + (c + h + w)
OBVIOUS

\* 1 for the session a step is about, else 0.
Mark(s, t, k) == k \in {0, 1} /\ (s = t => k = 1) /\ (s # t => k = 0)

LEMMA MarkExists == \A s, t : \E k : Mark(s, t, k)
BY DEF Mark

LEMMA MarkType == \A s, t, k : Mark(s, t, k) => k \in Nat
BY DEF Mark

LEMMA Bumped ==
  ASSUME NEW f \in [Sessions -> Nat], NEW s \in Sessions, NEW t \in Sessions, NEW k, Mark(s, t, k)
  PROVE  [f EXCEPT ![s] = f[s] + 1][t] = f[t] + k
<1>1. CASE s = t
  BY <1>1 DEF Mark
<1>2. CASE s # t
  BY <1>2 DEF Mark
<1>3. QED
  BY <1>1, <1>2

\* The steps that take no lock move packets along, or count them.
LEMMA PacketHeard ==
  ASSUME StageInv, StageInv', NEW s \in Sessions, PacketDropped(s), NEW t \in Sessions
  PROVE  heard'[t] + Waiting(t) <= heard[t] + Waiting(t)'
<1>1. /\ heard' = [heard EXCEPT ![s] = @ + 1]
      /\ hook' = [hook EXCEPT ![s] = owner[s]]
      /\ s \in listeners /\ hook[s] = None
      /\ UNCHANGED <<lostDrops, drops, worker>>
  BY DEF PacketDropped, accounting
<1>2. owner[s] \in Agents /\ owner[s] # None
  BY <1>1, AgentAssumption DEF StageInv
<1>3. PICK k : Mark(s, t, k)
  BY MarkExists
<1>4. heard'[t] = heard[t] + k
  <2>1. heard \in [Sessions -> Nat]
    BY BoundAssumption DEF StageInv, EnforcerTypeOK
  <2>2. QED
    BY <1>1, <1>3, <2>1, Bumped
<1>5. InHook(t)' = InHook(t) + k
  <2>1. CASE s = t
    BY <1>1, <1>2, <1>3, <2>1 DEF InHook, Mark, StageInv, EnforcerTypeOK
  <2>2. CASE s # t
    <3>1. hook'[t] = hook[t] /\ k = 0
      BY <1>1, <1>3, <2>2 DEF Mark, StageInv, EnforcerTypeOK
    <3>2. QED
      BY <3>1 DEF InHook
  <2>3. QED
    BY <2>1, <2>2
<1>6. lostDrops'[t] = lostDrops[t] /\ Count(drops, t)' = Count(drops, t) /\ InWorker(t)' = InWorker(t)
  BY <1>1 DEF InWorker
<1>7. k \in {0, 1}
  BY <1>3 DEF Mark
<1>8. QED
  BY <1>4, <1>5, <1>6, <1>7, WaitingType DEF Waiting

LEMMA DropSent ==
  ASSUME StageInv, StageInv', NEW s \in Sessions, SendDrop(s), NEW t \in Sessions
  PROVE  heard'[t] + Waiting(t) <= heard[t] + Waiting(t)'
<1>1. /\ hook' = [hook EXCEPT ![s] = None] /\ hook[s] # None
      /\ UNCHANGED <<heard, worker>>
  BY DEF SendDrop
<1>2. PICK k : Mark(s, t, k)
  BY MarkExists
<1>3. InHook(t) = InHook(t)' + k
  <2>1. CASE s = t
    BY <1>1, <1>2, <2>1 DEF InHook, Mark, StageInv, EnforcerTypeOK
  <2>2. CASE s # t
    <3>1. hook'[t] = hook[t] /\ k = 0
      BY <1>1, <1>2, <2>2 DEF Mark, StageInv, EnforcerTypeOK
    <3>2. QED
      BY <3>1 DEF InHook
  <2>3. QED
    BY <2>1, <2>2
<1>4. InWorker(t)' = InWorker(t) /\ heard'[t] = heard[t]
  BY <1>1 DEF InWorker
<1>5. PICK d \in Drop : d = [session |-> s, from |-> hook[s]]
  BY <1>1 DEF StageInv, EnforcerTypeOK, Drop
<1>6. lostDrops'[t] + Count(drops, t)' = lostDrops[t] + Count(drops, t) + k
  <2>1. CASE drops' = Append(drops, d) /\ UNCHANGED lostDrops
    <3>1. Count(drops', t) = Count(drops, t) + (IF d.session = t THEN 1 ELSE 0)
      BY <2>1, CountAppend DEF StageInv, EnforcerTypeOK
    <3>2. Count(drops, t)' = Count(drops, t) + k
      BY <1>2, <1>5, <3>1 DEF Mark
    <3>3. QED
      BY <1>2, <2>1, <3>2, WaitingType DEF Mark
  <2>2. CASE UNCHANGED drops /\ lostDrops' = [lostDrops EXCEPT ![s] = @ + 1]
    <3>1. lostDrops'[t] = lostDrops[t] + k
      <4>1. lostDrops \in [Sessions -> Nat]
        BY DEF StageInv, EnforcerTypeOK
      <4>2. QED
        BY <1>2, <2>2, <4>1, Bumped
    <3>2. QED
      BY <1>2, <2>2, <3>1, WaitingType DEF Mark
  <2>3. QED
    BY <1>5, <2>1, <2>2 DEF SendDrop
<1>7. Count(drops', t) \in Nat
  BY CountType DEF StageInv, EnforcerTypeOK
<1>8. lostDrops'[t] \in Nat /\ k \in {0, 1}
  BY <1>2 DEF StageInv, EnforcerTypeOK, Mark
<1>9. InHook(t)' \in 0..1
  BY DEF InHook
<1>10. lostDrops[t] \in Nat /\ heard[t] \in Nat /\ Count(drops, t) \in Nat /\ InHook(t) \in 0..1
       /\ InWorker(t) \in 0..1
  BY WaitingType
<1>11. Waiting(t)' = lostDrops'[t] + Count(drops, t)' + InHook(t)' + InWorker(t)'
  BY DEF Waiting
<1>12. Waiting(t) = lostDrops[t] + Count(drops, t) + InHook(t) + InWorker(t)
  BY DEF Waiting
<1>13. Waiting(t)' = Waiting(t)
  BY <1>3, <1>4, <1>6, <1>7, <1>8, <1>9, <1>10, <1>11, <1>12
<1>14. Waiting(t) \in Nat
  BY CountedType
<1>15. QED
  BY <1>4, <1>10, <1>13, <1>14, Steady, Zenon

LEMMA StraySent ==
  ASSUME StageInv, StageInv', NEW d \in strays, SendStray(d), NEW t \in Sessions
  PROVE  heard'[t] + Waiting(t) <= heard[t] + Waiting(t)'
<1>1. UNCHANGED <<heard, lostDrops, hook, worker>> /\ drops' \in {drops, Append(drops, d)}
  BY DEF SendStray, accounting
<1>2. lostDrops'[t] = lostDrops[t] /\ InHook(t)' = InHook(t) /\ InWorker(t)' = InWorker(t) /\ heard'[t] = heard[t]
  BY <1>1 DEF InHook, InWorker
<1>3. Count(Append(drops, d), t) = Count(drops, t) + (IF d.session = t THEN 1 ELSE 0)
  BY CountAppend DEF StageInv, EnforcerTypeOK
<1>4. Count(drops, t)' = Count(drops, t) \/ Count(drops, t)' = Count(drops, t) + (IF d.session = t THEN 1 ELSE 0)
  BY <1>1, <1>3
<1>5. QED
  BY <1>2, <1>4, WaitingType DEF Waiting

LEMMA DropReceived ==
  ASSUME StageInv, StageInv', ReceiveDrop, NEW t \in Sessions
  PROVE  heard'[t] + Waiting(t) <= heard[t] + Waiting(t)'
<1>1. /\ worker.pc = "idle" /\ drops # <<>>
      /\ worker' = [pc |-> "record", drop |-> Head(drops)]
      /\ drops' = Tail(drops)
      /\ UNCHANGED <<heard, lostDrops, hook>>
  BY DEF ReceiveDrop, accounting
<1>2. lostDrops'[t] = lostDrops[t] /\ InHook(t)' = InHook(t) /\ heard'[t] = heard[t]
  BY <1>1 DEF InHook
<1>3. InWorker(t) = 0 /\ InWorker(t)' = IF Head(drops).session = t THEN 1 ELSE 0
  BY <1>1 DEF InWorker
<1>4. Count(drops, t) = Count(Tail(drops), t) + (IF Head(drops).session = t THEN 1 ELSE 0)
  BY <1>1, CountTail DEF StageInv, EnforcerTypeOK
<1>5. Count(drops, t)' = Count(Tail(drops), t)
  BY <1>1
<1>6. Count(drops, t)' \in Nat
  BY CountType DEF StageInv, EnforcerTypeOK
<1> DEFINE m == IF Head(drops).session = t THEN 1 ELSE 0
<1>7. m \in Nat
  OBVIOUS
<1>8. Waiting(t) = lostDrops[t] + (Count(Tail(drops), t) + m) + InHook(t) + 0
  BY <1>3, <1>4, Zenon DEF Waiting
<1>9. Waiting(t)' = lostDrops[t] + Count(Tail(drops), t) + InHook(t) + m
  BY <1>2, <1>3, <1>5, Zenon DEF Waiting
<1> HIDE DEF m
<1>10. lostDrops[t] \in Nat /\ InHook(t) \in Nat /\ heard[t] \in Nat /\ Waiting(t) \in Nat
  BY WaitingType, CountedType
<1>11. Waiting(t)' = Waiting(t)
  BY <1>5, <1>6, <1>7, <1>8, <1>9, <1>10, Moved
<1>12. QED
  BY <1>2, <1>10, <1>11, Steady, Zenon

LEMMA EventAppended ==
  ASSUME StageInv, StageInv', AppendEvent \/ AppendEventFails, NEW t \in Sessions
  PROVE  heard'[t] + Waiting(t) <= heard[t] + Waiting(t)'
<1>1. UNCHANGED <<heard, lostDrops, hook, drops>> /\ worker.pc # "record" /\ worker'.pc # "record"
  BY DEF AppendEvent, AppendEventFails, accounting, NoDrop, StageInv, EnforcerTypeOK
<1>2. InHook(t)' = InHook(t) /\ InWorker(t)' = 0 /\ InWorker(t) = 0 /\ Count(drops, t)' = Count(drops, t)
      /\ lostDrops'[t] = lostDrops[t] /\ heard'[t] = heard[t]
  BY <1>1 DEF InHook, InWorker
<1>3. Waiting(t)' = Waiting(t)
  BY <1>2, Zenon DEF Waiting
<1>4. heard[t] \in Nat /\ Waiting(t) \in Nat
  BY WaitingType, CountedType
<1>5. QED
  BY <1>2, <1>3, <1>4, Steady, Zenon

Unlocked == (\E s \in Sessions : PacketDropped(s) \/ SendDrop(s)) \/ (\E d \in strays : SendStray(d))
            \/ ReceiveDrop \/ AppendEvent \/ AppendEventFails

LEMMA UnlockedStep ==
  ASSUME StageInv, StageInv', Unlocked, NEW t \in Sessions
  PROVE  heard'[t] + Waiting(t) <= heard[t] + Waiting(t)'
BY PacketHeard, DropSent, StraySent, DropReceived, EventAppended DEF Unlocked

LEMMA Sums ==
  ASSUME NEW w \in Nat, NEW e \in Nat, NEW l \in Nat, NEW f \in Nat, NEW m \in Nat,
         NEW x \in Nat, NEW c \in Nat, NEW h \in Nat, w + e + l <= f + m
  PROVE  e + l + (x + c + h + w) <= f + m + (x + c + h)
OBVIOUS

\* The steps under the lock turn what waits into events and losses.
Locked == RecordUnknown \/ RecordRefused \/ RecordAdmitted \/ CountFailedAppend

LEMMA LockedStep ==
  ASSUME StageInv, StageInv', RecordInv, Locked, NEW t \in Sessions, cred[t] # None
  PROVE  heard'[t] + Counted(t) <= heard[t] + Counted(t)'
<1>1. UNCHANGED <<heard, lostDrops, hook, drops>> /\ worker'.pc # "record"
  <2>1. CASE RecordUnknown
    BY <2>1 DEF RecordUnknown, accounting, NoDrop
  <2>2. CASE RecordRefused
    BY <2>2 DEF RecordRefused, accounting, NoDrop
  <2>3. CASE RecordAdmitted
    BY <2>3 DEF RecordAdmitted, accounting
  <2>4. CASE CountFailedAppend
    BY <2>4 DEF CountFailedAppend, accounting, NoDrop
  <2>5. QED
    BY <2>1, <2>2, <2>3, <2>4 DEF Locked
<1>2. InHook(t)' = InHook(t) /\ InWorker(t)' = 0 /\ Count(drops, t)' = Count(drops, t)
      /\ lostDrops'[t] = lostDrops[t] /\ heard'[t] = heard[t]
  BY <1>1 DEF InHook, InWorker
<1>3. InWorker(t) + Len(events[t]) + losses[t] <= Len(events'[t]) + losses'[t]
  <2>1. CASE RecordUnknown
    <3>1. InWorker(t) = 0 /\ events' = events /\ losses' = losses
      BY <2>1 DEF RecordUnknown, InWorker, accounting
    <3>2. QED
      BY <3>1, WaitingType
  <2>2. CASE RecordRefused
    <3>1. worker.drop.session \in Sessions
      BY <2>2 DEF RecordRefused, Recording, StageInv, Drop
    <3>2. events' = events /\ losses' = [losses EXCEPT ![worker.drop.session] = @ + 1]
      BY <2>2 DEF RecordRefused
    <3>3. PICK k : Mark(worker.drop.session, t, k)
      BY MarkExists
    <3>4. losses'[t] = losses[t] + k
      <4>1. losses \in [Sessions -> Nat]
        BY DEF StageInv, EnforcerTypeOK
      <4>2. QED
        BY <3>1, <3>2, <3>3, <4>1, Bumped
    <3>5. InWorker(t) = k
      BY <2>2, <3>3 DEF RecordRefused, Recording, InWorker, Mark
    <3>6. QED
      BY <3>2, <3>4, <3>5, WaitingType
  <2>3. CASE RecordAdmitted
    <3> DEFINE s == worker.drop.session
               ev == [session |-> s, agent |-> cred[s], from |-> worker.drop.from]
    <3>1. s \in Sessions /\ ev \in Event
      BY <2>3 DEF RecordAdmitted, Recording, StageInv, RecordInv, Drop, Event
    <3>2. /\ events' = [events EXCEPT ![s] = Pushed(events[s], ev)]
          /\ losses' = [losses EXCEPT ![s] = IF Len(events[s]) >= eventsCap THEN losses[s] + 1 ELSE losses[s]]
          /\ worker.pc = "record"
      BY <2>3 DEF RecordAdmitted, Recording
    <3>3. InWorker(t) = IF s = t THEN 1 ELSE 0
      BY <3>2 DEF InWorker
    <3> HIDE DEF ev, s
    <3>4. events[s] \in Seq(Event) /\ Len(events[s]) <= eventsCap
      BY <3>1 DEF StageInv, EnforcerTypeOK
    <3>5. Len(Pushed(events[s], ev)) = IF Len(events[s]) >= eventsCap THEN Len(events[s]) ELSE Len(events[s]) + 1
      BY <3>1, <3>4, PushedFits
    <3>6. CASE s # t
      <4>1. events'[t] = events[t] /\ losses'[t] = losses[t]
        <5>1. events \in [Sessions -> Seq(Event)] /\ losses \in [Sessions -> Nat]
          BY DEF StageInv, EnforcerTypeOK
        <5>2. QED
          BY <3>2, <3>6, <5>1
      <4>2. QED
        BY <3>3, <3>6, <4>1, WaitingType
    <3>7. CASE s = t
      <4>1. /\ events'[t] = Pushed(events[t], ev)
            /\ losses'[t] = IF Len(events[t]) >= eventsCap THEN losses[t] + 1 ELSE losses[t]
        BY <3>1, <3>2, <3>7 DEF StageInv, EnforcerTypeOK
      <4>2. Len(events[t]) \in Nat /\ losses[t] \in Nat
        BY WaitingType
      <4>3. InWorker(t) = 1
        BY <3>3, <3>7
      <4>4. Len(events'[t]) = IF Len(events[t]) >= eventsCap THEN Len(events[t]) ELSE Len(events[t]) + 1
        BY <3>5, <3>7, <4>1
      <4>5. QED
        BY <4>1, <4>2, <4>3, <4>4
    <3>8. QED
      BY <3>6, <3>7
  <2>4. CASE CountFailedAppend
    <3>1. worker.drop.session \in Sessions /\ InWorker(t) = 0
      BY <2>4 DEF CountFailedAppend, InWorker, StageInv, Event
    <3>2. events' = events /\ losses' = [losses EXCEPT ![worker.drop.session] = @ + 1]
      BY <2>4 DEF CountFailedAppend
    <3>3. PICK k : Mark(worker.drop.session, t, k)
      BY MarkExists
    <3>4. losses'[t] = losses[t] + k
      <4>1. losses \in [Sessions -> Nat]
        BY DEF StageInv, EnforcerTypeOK
      <4>2. QED
        BY <3>1, <3>2, <3>3, <4>1, Bumped
    <3>5. k \in Nat
      BY <3>3, MarkType, Zenon
    <3>6. Len(events[t]) \in Nat /\ losses[t] \in Nat
      BY WaitingType
    <3>7. Len(events'[t]) = Len(events[t])
      BY <3>2
    <3>8. QED
      BY <3>1, <3>4, <3>5, <3>6, <3>7
  <2>5. QED
    BY <2>1, <2>2, <2>3, <2>4 DEF Locked
<1>4. Len(events'[t]) \in Nat /\ losses'[t] \in Nat
  BY DEF StageInv, EnforcerTypeOK
<1>5. Waiting(t)' = lostDrops[t] + Count(drops, t) + InHook(t)
  <2>1. Waiting(t)' = lostDrops[t] + Count(drops, t) + InHook(t) + 0
    BY <1>2 DEF Waiting
  <2>2. lostDrops[t] \in Nat /\ Count(drops, t) \in Nat /\ InHook(t) \in 0..1
    BY WaitingType
  <2>3. QED
    BY <2>1, <2>2
<1>6. lostDrops[t] \in Nat /\ losses[t] \in Nat /\ heard[t] \in Nat /\ Count(drops, t) \in Nat
      /\ Len(events[t]) \in Nat /\ InHook(t) \in 0..1 /\ InWorker(t) \in 0..1
  BY WaitingType
<1>7. Counted(t)' = Len(events'[t]) + losses'[t] + Waiting(t)'
  BY DEF Counted
<1>8. Counted(t) = Len(events[t]) + losses[t] + (lostDrops[t] + Count(drops, t) + InHook(t) + InWorker(t))
  BY DEF Counted, Waiting
<1>9. Counted(t) \in Nat /\ Counted(t)' \in Nat /\ Counted(t) <= Counted(t)'
  <2>1. InHook(t) \in Nat /\ InWorker(t) \in Nat
    BY <1>6
  <2>2. Len(events[t]) + losses[t] + (lostDrops[t] + Count(drops, t) + InHook(t) + InWorker(t))
        <= Len(events'[t]) + losses'[t] + (lostDrops[t] + Count(drops, t) + InHook(t))
    BY <1>3, <1>4, <1>6, <2>1, Sums
  <2>3. Counted(t)' = Len(events'[t]) + losses'[t] + (lostDrops[t] + Count(drops, t) + InHook(t))
    BY <1>5, <1>7
  <2>4. Counted(t) \in Nat
    BY CountedType
  <2>5. Counted(t)' \in Nat
    BY CountedTypeNext
  <2>6. QED
    BY <1>8, <2>2, <2>3, <2>4, <2>5
<1>10. heard'[t] = heard[t]
  BY <1>2
<1>11. QED
  BY <1>6, <1>9, <1>10

LEMMA CallSession ==
  ASSUME SandboxInv, call.kind \in {"create", "destroy"}
  PROVE  call.session \in Sessions
<1>1. call # Idle
  BY DEF Idle
<1>2. QED
  BY <1>1 DEF SandboxInv, SandboxTypeOK

LEMMA CreatingIsUnrecorded ==
  ASSUME SandboxInv, RecordInv, call.kind = "create",
         call.step \in {"netns", "rules", "listener", "link", "route", "forward", "stop", "del"}
  PROVE  call.session \in Sessions /\ call.session \notin active /\ cred[call.session] = None
<1>0. call.session \in Sessions
  BY CallSession
<1>1. call.session \in Sessions /\ call.session \notin active
  <2>1. CASE call.step = "netns"
    BY <1>0, <2>1 DEF SandboxInv, CallInv, Doing
  <2>2. CASE call.step # "netns"
    <3>1. \A x \in active : netnsName[x] # netnsName[call.session]
      BY <2>2 DEF SandboxInv, CallInv, Target
    <3>2. QED
      BY <1>0, <3>1
  <2>3. QED
    BY <2>1, <2>2
<1>2. QED
  BY <1>1 DEF RecordInv, Answering, Doing

LEMMA AccountInit == Init => AccountInv
BY DEF Init, SandboxInit, AccountInv, Phase, Idle

LEMMA AccountUnlocked ==
  ASSUME SandboxInv, RecordInv, ListenInv, StageInv, StageInv', AccountInv, Unlocked
  PROVE  AccountInv'
<1>1. UNCHANGED <<call, cred, events, losses, listeners, active>>
  BY DEF Unlocked, PacketDropped, SendDrop, SendStray, ReceiveDrop, AppendEvent, AppendEventFails,
         sandboxVars, controller, accounting, apiVars
<1> SUFFICES ASSUME NEW s \in Sessions
             PROVE  /\ cred[s] # None /\ ~Phase(s, "destroy", {"del", "ok"}) => heard'[s] <= Counted(s)'
                    /\ Phase(s, "create", {"netns", "rules", "listener"}) => heard'[s] = 0
                    /\ Phase(s, "create", {"link", "route", "forward", "ok"}) => heard'[s] <= Waiting(s)'
  BY <1>1 DEF AccountInv, Phase
<1>2. heard'[s] + Waiting(s) <= heard[s] + Waiting(s)'
  BY UnlockedStep
<1>3. Waiting(s) \in Nat /\ Waiting(s)' \in Nat /\ heard[s] \in Nat /\ heard'[s] \in Nat
  BY CountedType, CountedTypeNext, WaitingType
<1>4. PICK n \in Nat : n = Len(events[s]) + losses[s]
  BY WaitingType
<1>5. Counted(s) = n + Waiting(s) /\ Counted(s)' = n + Waiting(s)'
  BY <1>1, <1>4 DEF Counted
<1>6. ASSUME Phase(s, "create", {"netns", "rules", "listener"}) PROVE heard'[s] = 0
  <2>1. s \notin listeners
    BY <1>6, CreatingIsUnrecorded DEF ListenInv, Phase
  <2>2. heard'[s] = heard[s]
    BY <2>1 DEF Unlocked, PacketDropped, SendDrop, SendStray, ReceiveDrop, AppendEvent, AppendEventFails,
                StageInv, EnforcerTypeOK
  <2>3. QED
    BY <1>6, <2>2 DEF AccountInv
<1>7. ASSUME cred[s] # None, ~Phase(s, "destroy", {"del", "ok"}) PROVE heard'[s] <= Counted(s)'
  BY <1>2, <1>3, <1>4, <1>5, <1>7 DEF AccountInv
<1>8. ASSUME Phase(s, "create", {"link", "route", "forward", "ok"}) PROVE heard'[s] <= Waiting(s)'
  BY <1>2, <1>3, <1>8 DEF AccountInv
<1>9. QED
  BY <1>6, <1>7, <1>8

LEMMA AccountLocked ==
  ASSUME RecordInv, StageInv, StageInv', AccountInv, Locked
  PROVE  AccountInv'
<1>1. call = Idle /\ UNCHANGED <<call, cred>>
  BY DEF Locked, RecordUnknown, RecordRefused, RecordAdmitted, CountFailedAppend, Recording, sandboxVars, apiVars
<1> SUFFICES ASSUME NEW s \in Sessions, cred[s] # None PROVE heard'[s] <= Counted(s)'
  BY <1>1 DEF AccountInv, Phase, Idle
<1>2. heard'[s] + Counted(s) <= heard[s] + Counted(s)'
  BY LockedStep
<1>3. Counted(s)' \in Nat /\ heard'[s] \in Nat
  BY CountedTypeNext
<1>4. Counted(s) \in Nat /\ heard[s] \in Nat
  BY CountedType, WaitingType
<1>5. heard[s] <= Counted(s)
  BY <1>1 DEF AccountInv, Phase, Idle
<1>6. QED
  BY <1>2, <1>3, <1>4, <1>5

\* A handler's step that leaves session s's drops, counters and ring alone.
Untouched(s) == UNCHANGED <<heard[s], Waiting(s), Counted(s)>>

LEMMA AccountHandlers ==
  ASSUME "delFails" \notin SandboxFaults, SandboxInv, RecordInv, StageInv, StageInv', AccountInv, Handlers
  PROVE  AccountInv'
<1> USE DEF Phase, Idle, Doing, Goto
<1>1. ASSUME NEW s \in Sessions, NEW a \in Agents, createSession(s, a) PROVE AccountInv'
  <2>1. /\ heard' = [heard EXCEPT ![s] = 0]
        /\ call = Idle /\ call'.kind = "create" /\ call'.session = s /\ call'.step \in {"netns", "failed"}
        /\ UNCHANGED <<cred, accounting, hook, drops, worker>> /\ cred[s] = None
    BY <1>1 DEF createSession, CreateSandbox, At
  <2>2. \A t \in Sessions : t # s => Untouched(t)
    BY <2>1 DEF Untouched, Waiting, Counted, InHook, InWorker, accounting, StageInv, EnforcerTypeOK
  <2>3. heard'[s] = 0
    BY <2>1 DEF StageInv, EnforcerTypeOK
  <2>4. QED
    BY <2>1, <2>2, <2>3 DEF AccountInv, Untouched
<1>2. ASSUME NEW s \in Sessions, deleteSession(s) PROVE AccountInv'
  <2>1. /\ call = Idle /\ call'.kind = "destroy"
        /\ UNCHANGED <<cred, accounting, hook, drops, worker, heard>>
    BY <1>2 DEF deleteSession, DestroySandbox, At, pipeline, apiVars
  <2>2. \A t \in Sessions : Untouched(t)
    BY <2>1 DEF Untouched, Waiting, Counted, InHook, InWorker, accounting
  <2>3. QED
    BY <2>1, <2>2 DEF AccountInv, Untouched
<1>3. CASE BackendStep
  <2>1. UNCHANGED <<cred, accounting, hook, drops, worker, heard>>
    BY <1>3 DEF BackendStep, pipeline, apiVars
  <2>2. \A t \in Sessions : Untouched(t)
    BY <2>1 DEF Untouched, Waiting, Counted, InHook, InWorker, accounting
  <2>3. /\ call'.kind = call.kind /\ call'.session = call.session
        /\ call.kind = "destroy" => call.step = "del" /\ call'.step = "ok"
        /\ call.kind = "create" /\ call'.step \in {"netns", "rules", "listener"} =>
             call.step \in {"netns", "rules", "listener"}
        /\ call.kind = "create" /\ call'.step \in {"link", "route", "forward", "ok"} =>
             call.step \in {"link", "route", "forward", "ok"}
        /\ call.kind \in {"create", "destroy"}
    <3>1. call \in [kind : {"create", "destroy"}, session : Sessions,
                    step : {"netns", "rules", "listener", "link", "route", "forward", "stop",
                            "del", "ok", "missing", "failed"}]
      BY <1>3 DEF SandboxInv, SandboxTypeOK, BackendStep, ProvisionStep, AddNetns, AddNetnsFails,
         ApplyRuleset, ApplyRulesetFails, StartListenerFails, AddLink, AddLinkFails, AddRoute,
         EnableForwarding, UplinkFails, UndoCreate, FinishDestroy, DelFails
    <3>2. QED
      BY <1>3, <3>1 DEF BackendStep, ProvisionStep, AddNetns, AddNetnsFails, ApplyRuleset,
         ApplyRulesetFails, StartListenerFails, AddLink, AddLinkFails, AddRoute, EnableForwarding,
         UplinkFails, UndoCreate, FinishDestroy, DelFails
  <2>4. QED
    BY <2>1, <2>2, <2>3 DEF AccountInv, Untouched
<1>4. CASE ListenFromZero
  <2>1. /\ call.kind = "create" /\ call.step = "listener"
        /\ call'.kind = "create" /\ call'.session = call.session /\ call'.step = "link"
        /\ lostDrops' = [lostDrops EXCEPT ![call.session] = 0]
        /\ UNCHANGED <<cred, events, losses, hook, drops, worker, heard>>
    BY <1>4 DEF ListenFromZero, StartListener, pipeline, apiVars, SandboxInv, SandboxTypeOK
  <2>2. \A t \in Sessions : t # call.session => Untouched(t)
    BY <2>1 DEF Untouched, Waiting, Counted, InHook, InWorker, StageInv, EnforcerTypeOK
  <2>3. call.session \in Sessions /\ cred[call.session] = None
    BY <2>1, CreatingIsUnrecorded
  <2>4. heard'[call.session] = 0 /\ Waiting(call.session)' \in Nat
    BY <2>1, <2>3, CountedTypeNext DEF AccountInv
  <2>5. heard'[call.session] <= Waiting(call.session)'
    BY <2>4
  <2>6. ASSUME NEW t \in Sessions
        PROVE  /\ cred'[t] # None /\ ~Phase(t, "destroy", {"del", "ok"})' => heard'[t] <= Counted(t)'
               /\ Phase(t, "create", {"netns", "rules", "listener"})' => heard'[t] = 0
               /\ Phase(t, "create", {"link", "route", "forward", "ok"})' => heard'[t] <= Waiting(t)'
    <3>1. CASE t = call.session
      BY <2>1, <2>3, <2>5, <3>1
    <3>2. CASE t # call.session
      BY <2>1, <2>2, <3>2 DEF AccountInv, Untouched
    <3>3. QED
      BY <3>1, <3>2
  <2>7. QED
    BY <2>6 DEF AccountInv
<1>5. CASE StopAndForget
  <2>1. /\ call.step = "stop" /\ call.kind \in {"create", "destroy"} /\ call.session \in Sessions
        /\ call'.kind = call.kind /\ call'.session = call.session /\ call'.step = "del"
        /\ lostDrops' = [lostDrops EXCEPT ![call.session] = 0]
        /\ hook' = [hook EXCEPT ![call.session] = None]
        /\ UNCHANGED <<cred, events, losses, drops, worker, heard>>
    BY <1>5 DEF StopAndForget, StopListener, apiVars, SandboxInv, SandboxTypeOK
  <2>2. \A t \in Sessions : t # call.session => Untouched(t)
    BY <2>1 DEF Untouched, Waiting, Counted, InHook, InWorker, StageInv, EnforcerTypeOK
  <2>3. call.kind = "create" => cred[call.session] = None
    BY <2>1, CreatingIsUnrecorded
  <2>4. QED
    BY <2>1, <2>2, <2>3 DEF AccountInv, Untouched
<1>6. CASE AnswerCreate
  <2>1. /\ call' = Idle /\ call.kind = "create" /\ call.session \in Sessions
        /\ UNCHANGED <<losses, lostDrops, hook, drops, worker, heard>>
    BY <1>6 DEF AnswerCreate, Return, pipeline, SandboxInv, SandboxTypeOK
  <2>2. \A t \in Sessions : UNCHANGED Waiting(t)
    BY <2>1 DEF Waiting, InHook, InWorker
  <2>3. CASE call.step # "ok"
    <3>1. UNCHANGED <<cred, events>>
      BY <1>6, <2>3 DEF AnswerCreate
    <3>2. \A t \in Sessions : UNCHANGED Counted(t)
      BY <2>1, <2>2, <3>1 DEF Counted
    <3>3. QED
      BY <2>1, <3>1, <3>2 DEF AccountInv
  <2>4. CASE call.step = "ok"
    <3>1. /\ cred' = [cred EXCEPT ![call.session] = owner[call.session]]
          /\ events' = [events EXCEPT ![call.session] = <<>>]
      BY <1>6, <2>4 DEF AnswerCreate
    <3>2. \A t \in Sessions : t # call.session => UNCHANGED <<cred[t], Counted(t)>>
      BY <2>1, <2>2, <3>1 DEF Counted, StageInv, EnforcerTypeOK
    <3>3. PICK s \in Sessions : s = call.session
      BY <2>1
    <3>4. heard[s] <= Waiting(s)
      BY <2>1, <2>4, <3>3 DEF AccountInv
    <3>5. Counted(s)' = Len(events'[s]) + losses[s] + Waiting(s)
      BY <2>1, <2>2 DEF Counted
    <3>6. Len(events'[s]) \in Nat
      <4>1. events'[s] \in Seq(Event)
        BY DEF StageInv
      <4>2. QED
        BY <4>1
    <3>7. losses[s] \in Nat /\ heard[s] \in Nat
      BY WaitingType
    <3>8. Waiting(s) \in Nat
      BY CountedType
    <3>9. heard'[s] <= Counted(s)'
      <4>1. heard[s] <= Len(events'[s]) + losses[s] + Waiting(s)
        BY <3>4, <3>6, <3>7, <3>8, SumCovers, Zenon
      <4>2. heard'[s] = heard[s]
        BY <2>1
      <4>3. QED
        BY <3>5, <4>1, <4>2, Zenon
    <3>10. QED
      BY <2>1, <3>2, <3>3, <3>9 DEF AccountInv
  <2>5. QED
    BY <2>3, <2>4
<1>7. CASE AnswerDelete
  <2>1. /\ call' = Idle /\ call.kind = "destroy" /\ call.session \in Sessions
        /\ UNCHANGED <<lostDrops, hook, drops, worker, heard>>
    <3>1. call.kind = "destroy"
      BY <1>7 DEF AnswerDelete
    <3>2. call.session \in Sessions
      BY <3>1, CallSession
    <3>3. QED
      BY <1>7, <3>1, <3>2 DEF AnswerDelete, Return, pipeline
  <2>2. \A t \in Sessions : UNCHANGED Waiting(t)
    BY <2>1 DEF Waiting, InHook, InWorker
  <2>3. CASE call.step \notin {"ok", "missing"}
    <3>1. UNCHANGED <<cred, events, losses>> /\ call.step \notin {"del", "ok"}
      BY <1>7, <2>3 DEF AnswerDelete, Return
    <3>2. \A t \in Sessions : UNCHANGED Counted(t)
      BY <2>1, <2>2, <3>1 DEF Counted
    <3>3. QED
      BY <2>1, <3>1, <3>2 DEF AccountInv
  <2>4. CASE call.step \in {"ok", "missing"}
    <3>1. /\ cred' = [cred EXCEPT ![call.session] = None]
          /\ events' = [events EXCEPT ![call.session] = <<>>]
          /\ losses' = [losses EXCEPT ![call.session] = 0]
      BY <1>7, <2>4 DEF AnswerDelete
    <3>2. \A t \in Sessions : t # call.session => UNCHANGED <<cred[t], Counted(t)>>
      BY <2>1, <2>2, <3>1 DEF Counted, StageInv, EnforcerTypeOK
    <3>3. cred'[call.session] = None
      BY <2>1, <3>1 DEF StageInv, EnforcerTypeOK
    <3>4. QED
      BY <2>1, <3>2, <3>3 DEF AccountInv
  <2>5. QED
    BY <2>3, <2>4
<1>8. QED
  BY <1>1, <1>2, <1>3, <1>4, <1>5, <1>6, <1>7 DEF Handlers

LEMMA AccountNext ==
  ASSUME "delFails" \notin SandboxFaults
  PROVE  SandboxInv /\ RecordInv /\ ListenInv /\ StageInv /\ StageInv' /\ AccountInv /\ [Next]_vars => AccountInv'
<1> SUFFICES ASSUME SandboxInv, RecordInv, ListenInv, StageInv, StageInv', AccountInv, [Next]_vars
             PROVE  AccountInv'
  OBVIOUS
<1>1. CASE Handlers
  BY <1>1, AccountHandlers
<1>2. CASE Unlocked
  BY <1>2, AccountUnlocked
<1>3. CASE Locked
  BY <1>3, AccountLocked
<1>4. CASE RestartEnforcer
  BY <1>4 DEF RestartEnforcer, Restart, AccountInv, Phase, Idle
<1>5. CASE UNCHANGED vars
  <2>1. UNCHANGED <<call, cred, events, losses, lostDrops, hook, drops, worker, heard>>
    BY <1>5 DEF vars, sandboxVars, accounting, pipeline, apiVars
  <2>2. QED
    BY <2>1 DEF AccountInv, Phase, Waiting, Counted, InHook, InWorker
<1>6. QED
  BY <1>1, <1>2, <1>3, <1>4, <1>5 DEF Next, Consumer, Unlocked, Locked

\* Theorem: as long as "ip netns del" succeeds, every packet a session's listener heard is
\* in its ring, under way or counted as lost, for any capacities, any number of sessions
\* and packets, hooks that outlive their listener and crashes (EveryPacketAccounted).
THEOREM PacketsAreAccounted ==
  ASSUME "delFails" \notin SandboxFaults
  PROVE  Spec => []EveryPacketAccounted
<1>1. Init => ListenInv
  BY DEF Init, SandboxInit, ListenInv, Doing, Idle
<1>2. SandboxInv /\ ListenInv /\ [Next]_vars => ListenInv'
  BY EnforcerRefinesSandbox, ListenNext
<1>3. StageInv /\ AccountInv => EveryPacketAccounted
  <2> SUFFICES ASSUME StageInv, AccountInv, call = Idle, NEW s \in Sessions, cred[s] # None
               PROVE  heard[s] <= Len(events[s]) + LostEvents(s) + InPipe(s)
    BY DEF EveryPacketAccounted
  <2>1. heard[s] <= Counted(s)
    BY DEF AccountInv, Phase, Idle
  <2>2. InPipe(s) = Count(drops, s) + InHook(s) + InWorker(s)
    BY DEF InPipe, Count, InHook, InWorker
  <2>3. lostDrops[s] \in Nat /\ losses[s] \in Nat /\ Count(drops, s) \in Nat /\ Len(events[s]) \in Nat
        /\ InHook(s) \in Nat /\ InWorker(s) \in Nat
    BY WaitingType, InPipeType, Zenon
  <2>4. Counted(s) = Len(events[s]) + LostEvents(s) + InPipe(s)
    <3>1. PICK e \in Nat, l \in Nat, d \in Nat, c \in Nat, h \in Nat, w \in Nat :
            /\ e = Len(events[s]) /\ l = losses[s] /\ d = lostDrops[s]
            /\ c = Count(drops, s) /\ h = InHook(s) /\ w = InWorker(s)
      BY <2>3, Zenon
    <3>2. Counted(s) = e + l + (d + c + h + w)
      BY <3>1, Zenon DEF Counted, Waiting
    <3>3. Len(events[s]) + LostEvents(s) + InPipe(s) = e + (l + d) + (c + h + w)
      BY <2>2, <3>1, Zenon DEF LostEvents
    <3>4. e + l + (d + c + h + w) = e + (l + d) + (c + h + w)
      BY Regrouped
    <3>5. QED
      BY <3>2, <3>3, <3>4, Zenon
  <2>5. QED
    BY <2>1, <2>4
<1>4. QED
  BY <1>1, <1>2, <1>3, AccountInit, AccountNext, StageInvariant, RecordInvariant, EnforcerSandboxInv, PTL DEF Spec
-----------------------------------------------------------------------------
(* Whose events they are. *)

\* The events a session's ring may hold: its own, signed for agent a.
OwnEvents(s, a) == {e \in Event : e.session = s /\ e.agent = a}
RingsAreOwn == \A s \in Sessions : events[s] \in Seq(OwnEvents(s, cred[s]))

LEMMA PushedOwn ==
  ASSUME NEW S, NEW ring \in Seq(S), NEW ev \in S
  PROVE  Pushed(ring, ev) \in Seq(S)
<1>1. Len(ring) >= eventsCap => ring # <<>>
  BY CapAssumption
<1>2. QED
  BY <1>1 DEF Pushed

LEMMA OwnNext == StageInv /\ RecordInv /\ SandboxInv /\ RingsAreOwn /\ [Next]_vars => RingsAreOwn'
<1> SUFFICES ASSUME StageInv, RecordInv, SandboxInv, RingsAreOwn, [Next]_vars, NEW s \in Sessions
             PROVE  events'[s] \in Seq(OwnEvents(s, cred'[s]))
  BY DEF RingsAreOwn
<1>0. /\ events[s] \in Seq(OwnEvents(s, cred[s])) /\ <<>> \in Seq(OwnEvents(s, cred'[s]))
      /\ events \in [Sessions -> Seq(Event)] /\ cred \in [Sessions -> Agents \cup {None}]
  BY DEF RingsAreOwn, StageInv, RecordInv
<1>1. CASE UNCHANGED <<cred, events>>
  BY <1>0, <1>1
<1>2. CASE AnswerCreate \/ AnswerDelete
  <2>1. \/ UNCHANGED <<cred, events>>
        \/ /\ \E a : cred' = [cred EXCEPT ![call.session] = a]
           /\ events' = [events EXCEPT ![call.session] = <<>>]
    BY <1>2 DEF AnswerCreate, AnswerDelete
  <2>2. QED
    BY <1>0, <1>1, <2>1
<1>3. CASE RestartEnforcer
  BY <1>0, <1>3 DEF RestartEnforcer
<1>4. CASE RecordAdmitted
  <2>1. PICK t, ev : /\ t = worker.drop.session
                     /\ ev = [session |-> t, agent |-> cred[t], from |-> worker.drop.from]
    OBVIOUS
  <2>2. /\ cred[t] # None /\ worker.drop \in Drop
        /\ events' = [events EXCEPT ![t] = Pushed(@, ev)]
        /\ UNCHANGED cred
    BY <1>4, <2>1 DEF RecordAdmitted, Recording, apiVars, StageInv
  <2>3. ev \in OwnEvents(t, cred[t]) /\ t \in Sessions
    BY <1>0, <2>1, <2>2 DEF OwnEvents, Event, Drop
  <2>4. CASE s = t
    BY <1>0, <2>2, <2>3, <2>4, PushedOwn
  <2>5. QED
    BY <1>0, <2>2, <2>3, <2>4
<1>5. QED
  BY <1>1, <1>2, <1>3, <1>4
     DEF Next, Handlers, Consumer, createSession, deleteSession, BackendStep, ListenFromZero,
         StopAndForget, ReceiveDrop, RecordUnknown, RecordRefused, AppendEvent, AppendEventFails,
         CountFailedAppend, PacketDropped, SendDrop, SendStray, vars, accounting, apiVars

\* Theorem: the ring that GET /sessions/{id}/events reads holds only events of that
\* session, signed for the agent of the credential it has now: nothing recorded for an
\* earlier session of the same id is left in it, and no drop lands in another's ring.
THEOREM RingsHoldTheirOwn == Spec => []RingsAreOwn
<1>1. Init => RingsAreOwn
  BY DEF Init, RingsAreOwn
<1>2. QED
  BY <1>1, OwnNext, StageInvariant, RecordInvariant, EnforcerSandboxInv, PTL DEF Spec
-----------------------------------------------------------------------------
(* Whom an event blames. *)

\* No session id is created for another agent than agentOf says.
IdsOf(agentOf) == \A s \in Sessions, a \in Agents : createSession(s, a) => a = agentOf[s]

OwnDrops(agentOf) == {d \in Drop : d.from = agentOf[d.session]}
FairEvents == {e \in Event : e.agent = e.from}

\* Sessions, and hooks at work, are those of the agent their id belongs to.
Whose(agentOf) == \A s \in Sessions : {owner[s], cred[s], hook[s]} \subseteq {None, agentOf[s]}

\* Every drop on its way to the spool names the agent its session belongs to.
Carried(agentOf) ==
  /\ strays \subseteq OwnDrops(agentOf)
  /\ drops \in Seq(OwnDrops(agentOf))
  /\ worker.pc = "record" => worker.drop \in OwnDrops(agentOf)
  /\ worker.pc \in {"append", "loss"} => worker.drop \in FairEvents
  /\ spooled \in Seq(FairEvents)

BlameInv(agentOf) == Whose(agentOf) /\ Carried(agentOf)

LEMMA BlameInit == ASSUME NEW agentOf PROVE Init => BlameInv(agentOf)
<1> SUFFICES ASSUME Init PROVE BlameInv(agentOf)
  OBVIOUS
<1>1. Whose(agentOf)
  BY DEF Init, Whose
<1>2. Carried(agentOf)
  BY DEF Init, Carried, NoDrop
<1>3. QED
  BY <1>1, <1>2 DEF BlameInv

LEMMA WhoseNext ==
  ASSUME NEW agentOf \in [Sessions -> Agents],
         RecordInv, StageInv, Whose(agentOf), [IdsOf(agentOf)]_vars, [Next]_vars
  PROVE  Whose(agentOf)'
<1>0. /\ owner \in [Sessions -> Agents \cup {None}] /\ cred \in [Sessions -> Agents \cup {None}]
      /\ hook \in [Sessions -> Agents \cup {None}] /\ creates \in Nat
  BY BoundAssumption DEF StageInv, EnforcerTypeOK
<1>1. CASE UNCHANGED <<cred, owner, hook>>
  BY <1>1 DEF Whose
<1>2. ASSUME NEW s \in Sessions, NEW a \in Agents, createSession(s, a) PROVE Whose(agentOf)'
  <2>1. creates' # creates
    BY <1>0, <1>2 DEF createSession
  <2>2. a = agentOf[s]
    BY <1>2, <2>1 DEF IdsOf, vars, apiVars
  <2>3. owner' = [owner EXCEPT ![s] = agentOf[s]] /\ UNCHANGED <<cred, hook>>
    BY <1>2, <2>2 DEF createSession
  <2>4. QED
    BY <1>0, <2>3 DEF Whose
<1>3. CASE AnswerCreate \/ AnswerDelete
  <2>1. \/ cred' = cred
        \/ cred' = [cred EXCEPT ![call.session] = owner[call.session]]
        \/ cred' = [cred EXCEPT ![call.session] = None]
    BY <1>3 DEF AnswerCreate, AnswerDelete
  <2>2. UNCHANGED <<owner, hook>>
    BY <1>3 DEF AnswerCreate, AnswerDelete, pipeline
  <2>3. ASSUME NEW s \in Sessions PROVE cred'[s] \in {cred[s], owner[s], None}
    BY <1>0, <2>1
  <2>4. QED
    BY <2>2, <2>3 DEF Whose
<1>4. CASE RestartEnforcer
  <2>1. UNCHANGED owner /\ \A s \in Sessions : cred'[s] = None /\ hook'[s] = None
    BY <1>4 DEF RestartEnforcer
  <2>2. QED
    BY <2>1 DEF Whose
<1>5. ASSUME NEW s, \/ hook' = [hook EXCEPT ![s] = None]
                    \/ hook' = [hook EXCEPT ![s] = owner[s]],
             UNCHANGED <<cred, owner>>
      PROVE  Whose(agentOf)'
  <2>1. ASSUME NEW z \in Sessions PROVE hook'[z] \in {hook[z], owner[z], None}
    BY <1>0, <1>5
  <2>2. QED
    BY <1>5, <2>1 DEF Whose
<1>6. CASE StopAndForget
  BY <1>5, <1>6 DEF StopAndForget, apiVars
<1>7. ASSUME NEW s \in Sessions, PacketDropped(s) \/ SendDrop(s) PROVE Whose(agentOf)'
  BY <1>5, <1>7 DEF PacketDropped, SendDrop, apiVars
<1>8. QED
  BY <1>1, <1>2, <1>3, <1>4, <1>6, <1>7
     DEF Next, Handlers, Consumer, deleteSession, BackendStep, ListenFromZero, ReceiveDrop, RecordUnknown,
         RecordRefused, RecordAdmitted, AppendEvent, AppendEventFails, CountFailedAppend, SendStray, vars,
         pipeline, apiVars

\* A drop of a session, by its own agent.
LEMMA OwnDrop ==
  ASSUME NEW agentOf \in [Sessions -> Agents], Whose(agentOf), NEW s \in Sessions, hook[s] # None
  PROVE  [session |-> s, from |-> hook[s]] \in OwnDrops(agentOf)
<1>1. hook[s] = agentOf[s]
  BY DEF Whose
<1>2. QED
  BY <1>1 DEF OwnDrops, Drop

\* A consumer that is done holds nothing to blame anyone for.
LEMMA WorkerRests ==
  ASSUME NEW agentOf, Carried(agentOf), worker' = NoDrop, UNCHANGED <<strays, drops, spooled>>
  PROVE  Carried(agentOf)'
BY DEF Carried, NoDrop

LEMMA CarriedNext ==
  ASSUME NEW agentOf \in [Sessions -> Agents],
         SandboxInv, StageInv, Whose(agentOf), Carried(agentOf), [Next]_vars
  PROVE  Carried(agentOf)'
<1> DEFINE D == OwnDrops(agentOf)
<1>0. strays \subseteq D /\ drops \in Seq(D) /\ spooled \in Seq(FairEvents)
  BY DEF Carried
<1>1. CASE UNCHANGED <<strays, drops, worker, spooled>>
  BY <1>1 DEF Carried
<1>2. CASE StopAndForget
  <2>1. PICK s \in Sessions : s = call.session
    <3>1. call # Idle
      BY <1>2 DEF StopAndForget, StopListener, Doing, Idle
    <3>2. QED
      BY <3>1 DEF SandboxInv, SandboxTypeOK
  <2>2. strays' \in {strays, strays \cup {[session |-> s, from |-> hook[s]]}}
        /\ (hook[s] = None => strays' = strays) /\ UNCHANGED <<drops, worker, spooled>>
    BY <1>2, <2>1 DEF StopAndForget
  <2>3. strays' \subseteq D
    BY <1>0, <2>2, OwnDrop
  <2>4. QED
    BY <2>2, <2>3 DEF Carried
<1>3. CASE RestartEnforcer
  <2>1. strays' = {} /\ drops' = <<>> /\ worker'.pc = "idle" /\ UNCHANGED spooled
    BY <1>3 DEF RestartEnforcer, NoDrop
  <2>2. strays' \subseteq D /\ drops' \in Seq(D)
    BY <2>1
  <2>3. worker'.pc # "record" /\ worker'.pc \notin {"append", "loss"} /\ spooled' \in Seq(FairEvents)
    BY <1>0, <2>1
  <2>4. QED
    BY <2>2, <2>3 DEF Carried
<1>4. ASSUME NEW d \in D, drops' \in {drops, Append(drops, d)}, strays' \subseteq strays, UNCHANGED <<worker, spooled>>
      PROVE  Carried(agentOf)'
  <2>1. drops' \in Seq(D)
    BY <1>0, <1>4
  <2>2. QED
    BY <1>4, <2>1 DEF Carried
<1>5. ASSUME NEW s \in Sessions, SendDrop(s) PROVE Carried(agentOf)'
  <2>1. PICK d \in D : d = [session |-> s, from |-> hook[s]]
    BY <1>5, OwnDrop DEF SendDrop
  <2>2. drops' \in {drops, Append(drops, d)} /\ UNCHANGED <<strays, worker, spooled>>
    BY <1>5, <2>1 DEF SendDrop
  <2>3. QED
    BY <1>4, <2>2
<1>6. ASSUME NEW d \in strays, SendStray(d) PROVE Carried(agentOf)'
  <2>1. drops' \in {drops, Append(drops, d)} /\ strays' \subseteq strays /\ UNCHANGED <<worker, spooled>>
    BY <1>6 DEF SendStray
  <2>2. QED
    BY <1>0, <1>4, <2>1
<1>7. CASE ReceiveDrop
  <2>1. /\ worker'.pc = "record" /\ worker'.drop = Head(drops) /\ drops' = Tail(drops) /\ drops # <<>>
        /\ UNCHANGED <<strays, spooled>>
    BY <1>7 DEF ReceiveDrop
  <2>2. worker'.drop \in D /\ drops' \in Seq(D)
    BY <1>0, <2>1
  <2>3. QED
    BY <1>0, <2>1, <2>2 DEF Carried
<1>8. CASE RecordUnknown \/ RecordRefused \/ CountFailedAppend
  <2>1. worker' = NoDrop /\ UNCHANGED <<strays, drops, spooled>>
    BY <1>8 DEF RecordUnknown, RecordRefused, CountFailedAppend
  <2>2. QED
    BY <2>1, WorkerRests
<1>9. CASE RecordAdmitted
  <2>1. PICK s, ev : /\ s = worker.drop.session
                     /\ ev = [session |-> s, agent |-> cred[s], from |-> worker.drop.from]
    OBVIOUS
  <2>2. /\ cred[s] # None /\ worker.pc = "record" /\ UNCHANGED <<strays, drops, spooled>>
        /\ worker' = [pc |-> "append", drop |-> ev]
    BY <1>9, <2>1 DEF RecordAdmitted, Recording
  <2>3. worker.drop \in D
    BY <2>2 DEF Carried
  <2>4. cred[s] = agentOf[s] /\ s \in Sessions /\ worker.drop.from = agentOf[s]
    BY <2>1, <2>2, <2>3 DEF Whose, OwnDrops, Drop
  <2>5. ev \in FairEvents
    BY <2>1, <2>4 DEF FairEvents, Event
  <2>6. QED
    BY <1>0, <2>2, <2>5 DEF Carried
<1>10. CASE AppendEvent
  <2>1. /\ worker.pc = "append" /\ spooled' = Append(spooled, worker.drop) /\ worker'.pc = "idle"
        /\ UNCHANGED <<strays, drops>>
    BY <1>10 DEF AppendEvent, NoDrop
  <2>2. spooled' \in Seq(FairEvents)
    BY <1>0, <2>1 DEF Carried
  <2>3. QED
    BY <1>0, <2>1, <2>2 DEF Carried
<1>11. CASE AppendEventFails
  <2>1. /\ worker'.drop = worker.drop /\ worker'.pc = "loss" /\ worker.pc = "append"
        /\ UNCHANGED <<strays, drops, spooled>>
    BY <1>11 DEF AppendEventFails, StageInv, EnforcerTypeOK
  <2>2. QED
    BY <2>1 DEF Carried
<1>12. QED
  BY <1>1, <1>2, <1>3, <1>5, <1>6, <1>7, <1>8, <1>9, <1>10, <1>11
     DEF Next, Handlers, Consumer, createSession, deleteSession, BackendStep, ListenFromZero, AnswerCreate,
         AnswerDelete, PacketDropped, vars, pipeline

\* Theorem: an event in the spool names the agent whose packet was dropped, through
\* hooks that outlive their listener, drops that wait while their session is deleted
\* and created again, failed appends and restarts, provided that no session id is
\* created for two agents.  Without the proviso it is false: enforcer_blame.
THEOREM EventsBlameTheSender ==
  ASSUME NEW agentOf \in [Sessions -> Agents]
  PROVE  Spec /\ [][IdsOf(agentOf)]_vars => []BlamesTheSender
<1>1. BlameInv(agentOf) => BlamesTheSender
  BY DEF BlameInv, Carried, BlamesTheSender, FairEvents
<1>2. SandboxInv /\ RecordInv /\ StageInv /\ BlameInv(agentOf) /\ [IdsOf(agentOf)]_vars /\ [Next]_vars
      => BlameInv(agentOf)'
  BY WhoseNext, CarriedNext DEF BlameInv
<1>3. Init => BlameInv(agentOf)
  BY BlameInit
<1>4. QED
  BY <1>1, <1>2, <1>3, StageInvariant, RecordInvariant, EnforcerSandboxInv, PTL DEF Spec
=============================================================================
